# FlakeWM in TLA+

FlakeWM is a Wayland compositor on wlroots. One thread runs everything: wlroots
signals, Wayland requests, D-Bus calls, timers and idle callbacks are handlers
that run to completion, one after the other. Nothing is preempted, so the hard
part is not data races but *order*: clients, input devices, outputs, the session
locker, settings services and animations each send their events when they like,
and every handler works on state that any of the others may just have changed.
An action of these modules is one whole handler; an interleaving of actions is
an order in which the event loop may run them.

## 1. Inventory

Paths are below `src/src/`.

| Component | State | Operations | Hard behaviour |
|---|---|---|---|
| Windows, focus, workspaces (`core/compositor_private`) | `toplevels_`, mapped/minimized/maximized/tiled flags, workspace numbers, scene nodes, seat focus, activation, X focus | map, unmap, destroy, activate, minimize, maximize, tile, switch, add, remove and reorder workspaces | focus must follow what is visible through every path; scene flags are written by many handlers |
| Session lock (`protocol/protocol_manager`) | `session_locked_`, the lock client, the blank, a presentation per output | lock, present, confirm, unlock, locker dies, output comes, goes, is switched off, changes mode | "locked" only after no output shows the desktop; locker crash; liveness of the answer |
| Key dispatch (`core`, `input/key_binding_manager`, views) | `active_keys_`, capture, blocks, which view is up | press, release, register, block, capture | press and release are two events; receivers change in between |
| Shortcuts over D-Bus (`dbus/wlcom/wlcom_dbus_input`, `..._kglobalaccel`) | block counts, services and their lists; KGlobalAccel's actions, InputAction shortcuts, their saved entries | service appears, answers, vanishes; block and unblock; register, set, remove; restart | late or missing answers; undo must match what was done; keys that are taken |
| Selection persistence (`input/selection_persist`) | the copy, its pipes, pastes | copy, drain, install, serve | owner exits while it is read; limits; a new selection meanwhile |
| Input method relay (`protocol/input_method`, `protocol/text_input`) | focused surface, active and pending text input | enable, disable, focus change, input method comes and goes | lifetimes of four kinds of objects, three protocol versions |
| Layer shell (`protocol/layer_shell`) | mapped layers, interactivity, zones | map, unmap, commit | exclusive keyboard |
| Views (`view/app_switcher`, `multitasking`, `window_previews`, `window_selecter`, `ssd/window_menu`) | open, closing, selection | toggle, keys, pointer, completion of animations | they exclude one another and take keys first |
| Tile animation, split screen (`view/ssd/split_screen_switcher`) | the animated window | start, cancel, complete | the window goes away meanwhile |
| XWayland (`xwayland/`) | X focus, surfaces | associate, map, configure, activate | X focus apart from the seat's |
| Outputs (`core`, `protocol/kde`, `protocol/ukui`, `dbus`) | modes, power, layout | hotplug, frame, apply, test | deferred modes, transactions |
| Pointer, touch, interactive grabs (`core`, `view/touch_feedback`) | cursor mode, touch points | button, motion, touch, cancel | the grabbed window or device goes away |
| Gestures (`input/touchpad_manager`) | the gesture of the touchpad and of the touchscreens, fingers, timer | swipe, pinch, hold, unplug | timer against lifted fingers; several stages of one swipe |
| Window management protocols (`protocol/foreign_toplevel`, `kde`, `ukui`, `dbus/wlcom_dbus_view`) | handles, show-desktop lists | state requests, show desktop | three copies of show-desktop |
| Idle (`protocol/kde/kde_idle_manager`, `protocol/protocol_manager`) | timers, inhibitors | timeout, activity, inhibit | inhibition is recomputed at some events only |
| Capture (`protocol/treeland/treeland_capture`, `protocol/gxde/gxde_screenshot`) | contexts, frames, sessions, locks on outputs and scenes | select, capture, stop, destroy | many ends of one object; the source goes first |
| treeland/DDE shells, D-Bus desktop, input timestamps | per-client objects | requests | mostly forwarding |
| wlroots (`src/libs/wlroots`, vendored) | seat, scene, xdg-shell, idle notifier, text input | what the compositor calls and is called by | grabs and focus rules that override the compositor's |
| Rendering, decorations, backends, start-up | pixels, devices | draw, I/O | none that a state machine shows |

`PROJECT.json` lists every component with its status, and under `hazards` what
in each is hard to test, at its line.

## 2. Modules

| Module | Models | State and actions |
|---|---|---|
| `Desktop` | windows, focus, workspaces, layers, scene, tile animation, the keyboard side of the lock, popup grabs | one record `desk`; each C++ method is an operator from record to record with the method's name (`FocusToplevel`, `Minimize`, `SwitchWorkspace`...), each handler an action that applies them in the code's order |
| `DesktopProofs` | theorems about `Desktop` | |
| `LockPromise` | what a session lock promises, with no outputs or presentations | three phases: unlocked, requested, confirmed |
| `SessionLock` | the lock over outputs: blank, tracking of presentations, hotplug, power, modes, death of the locker | one variable per field of the code; refines `LockPromise` |
| `SessionLockProofs` | theorems about `SessionLock` | |
| `Keys` | `Keyboard::OnKey` through menu, selector, previews, overview, switcher, shortcuts, input-method grab and client | record `keys`; handlers return the new state and whether they took the key |
| `ShortcutBlocks` | the block counts and who changes them over D-Bus | a service is asked for two lists and may answer late, never, or vanish |
| `SelectionPersist` | the copy of the clipboard, its pipes, its installation and the pastes from it | data are counts of chunks; owner and readers are environment actions |
| `InputMethod` | the relay and text inputs of versions 1 to 3 | record `relay` |
| `ShowDesktop` | what shells do to `Desktop`'s windows: show-desktop of KDE, UKUI and D-Bus, UKUI's highlight, requests that set several states | EXTENDS `Desktop`; record `shell` with the memory of each interface |
| `ShortcutRegistry` | `KeyBindingManager::Register` and its two D-Bus owners, KGlobalAccel and InputAction, over restarts and a truncated configuration | a binding's id is its key, which is unique |
| `SwitcherList` | the entries, index and focus history of the app switcher | windows come, go, move and take focus as environment actions |
| `Gestures` | the recognizers of the touchpad and of the touchscreens, bindings, what clients are told | a threshold is passed or not |
| `Idle` | KDE timeouts, ext-idle notifications, inhibitors | timers are armed and may expire |
| `Outputs` | KDE and wlr output management, output power, the D-Bus display service and its saved outputs, hotplug | `outputs_`, `display`, `configurations_`; an output is enabled or not; a configuration is filled in before it is applied |
| `Capture` | treeland contexts, frames and sessions, GXDE frames, the selector's answer | the locks a capture holds are counted where the code counts them |
| `SeatServices` | the run of `ShortcutBlocks`, `Gestures`, `Idle`, `SelectionPersist` and `InputMethod` | one component per behaviour, see below |
| `DesktopServices` | the run of `Outputs`, `Capture`, `ShortcutRegistry` and `SwitcherList` | the same |
| `PointerMethodProofs`, `PointerProofs` | theorems about `Pointer`: the methods, then the events | |
| `KeysProofs`, `InputMethodProofs`, `CaptureProofs` | theorems about `Keys`, `InputMethod` and `Capture` | |
| `SeatServicesProofs` | theorems about `Idle`, `ShortcutBlocks`, `Gestures` and `SeatServices` | |
| `Pointer` | `OnCursorButton`, `ProcessCursorMotion`, the touch handlers, interactive grabs, and the buttons of menu, split-screen popup, overviews and selector | record `ptr`; what an event finds under the pointer is an input of its action |

wlroots is vendored, so what the compositor relies on in it (the seat's focus,
buttons, touch points and grabs, popup grabs, the idle notifier and inhibitors,
text input v3, scene nodes) is modelled from its source and mapped to it. Only
the other end of a pipe or of the bus (the owner of a clipboard, a reader, a
settings service) is modelled from how the code uses it and marked external.
Strings, titles, geometry and pixels are left out.

`SeatServices` and `DesktopServices` put components that share no state in the
code into one specification each. A behaviour of them chooses a component at the
start and follows it; the others stay as they are. Since no handler of one reads
or writes what belongs to another, this checks each of them in full and claims
nothing about their interleaving.

The components share little state: the lock flag and the seat's focus. Each
module contains the part of its neighbours that it reacts to (the lock in
`Desktop`, `Keys` and `Pointer`, focus changes in `InputMethod`, the views' key
handling in `Keys`, their buttons in `Pointer` and their effect on the scene in
`Desktop`).

`Pointer` leaves out what no button depends on: that a move maximizes or restores
its window (in `Desktop`), the geometry of a grab, tooltips and the cursor image.
A double click and a resize that is refused are inputs. `buttons` is the seat's
own count of pressed buttons, of which wlroots passes on the first press and the
last release. `kept`, `stray` and `disturbed` are history: which presses the
compositor kept, whether the seat got a release without its press, and whether
something came between a press and its release. Other modules have history of
the same kind where a property needs it (`chosen` in `SwitcherList`, `last` in
`SelectionPersist`, `pad_swipe`, `touch_swipe` and `pad_acted` in `Gestures`).

`Operations` (in `Desktop`) and `Events` (elsewhere) are constants that say which
handlers an instance lets run. They size the runs and, where a property really
depends on an event not happening, say so in the open (section 4).

Definitions named `Faulty_...` are mutants: plausible mistakes in the definition
that follows them. No specification uses them; substituting one for its original
must break the property listed with it in `PROJECT.json`.

## 3. Runs

| Run | Distinct states | Shows |
|---|---|---|
| `hostile` | 294,088 | two windows (one X) and a keyboard that come and go under lock, popup grabs, minimizing, maximizing, tiling and the animation: `NoDesktopFocusWhileLocked`, `XwmFocusIsUsable`, `AnimationShowsNoHidden` |
| `focus` | 644,782 | two windows with and without titlebars, two workspaces, a layer, the lock: `FocusIsOnAUsableWindow`, `KeyboardAndActivationAgree`, `NoWindowFocusUnderExclusiveLayer` |
| `views` | 163,210 (view `SceneView`) | workspaces are added, removed, reordered under overviews and the app switcher, windows are tiled and unminimized by their X client: `SceneShowsVisibleWindows`, `RenumberingKeepsTheView` |
| `desktop_show` | 359,692 | three show-desktop modes and a highlight over windows that map, unmap, minimize, are kept above or below and take focus meanwhile: `HiddenWindowsAreNotLost`, `HighlightIsUndone` |
| `lock_outputs` | 1,063,546 | two outputs, up to symmetry, that are plugged, placed by hand, powered and resized, commits that fail or are discarded, lockers that die: `LockedMeansHidden`, `BlankCoversOutputs`, and `KeepsPromise` (refinement of `LockPromise`) |
| `lock_answered` | 92,895 | every lock request is answered although outputs come, go and are switched off and on and commits fail or are discarded, unless an output holds it up: `LockIsAnswered` (liveness) |
| `keys_shortcuts` | 597,568 | a plain shortcut and the one of the window menu, pressed, blocked, unregistered, captured, inhibited: `ShortcutStateBalanced`, `NoStuckKey` |
| `keys_views` | 638,976 (view `KeysView`) | overviews, switcher in both directions, menu and selector, with Shift and Return: `OverviewsExclude`, `SwitcherNeedsAlt` |
| `pointer_clicks` | 133,060 | two buttons and a finger over decorations, clients, menu, popup and overview, windows that unmap, the lock: `HeldWindowsAreMapped`, `ReleaseFollowsPress`, `NoStuckButton` |
| `pointer_touch` | 209,352 | two fingers, cancelled, unplugged or locked out at any time: `TouchIsTracked`, `LockedInput` |
| `seat_services` | 64,803 | two services with their lists: `BlocksAreCounted`; a touchpad and two touchscreens: `SwipeIsRemembered`, `HandledIsCancelled`, `HoldIsOfFingersDown`; five timeouts of three kinds: `IdleIsNeverLost`; two clients, two mime types, a reader: `KeptIsTheLastCopy` and, as liveness, `ClipboardIsKept`, `PasteEnds`; four text inputs of all versions, three surfaces, two clients: `PointersAreAlive`, `ActiveIsFocused`, `EnabledIsServed` |
| `desktop_services` | 342,248 | two outputs, a configuration, outputs restored from what was saved: `PrimariesAreDefined`, `ConfigurationsAreAlive`; two contexts and two objects capturing, each up to symmetry: `LocksAreOwned`, `ContextsAreAnswered`; two KGlobalAccel actions and the saved shortcuts over restarts: `BindingsAreOwned`; three windows in the switcher: `SelectionIsChosen` |

The type invariants are in the modules (`TypeOK`, `...TypeOK`). Those of the modules
of section 5 are part of what is proved, the others are for the reader of the state.

**Bounds.** Two windows are the fewest among which focus can be passed on, one
of each kind because X focus is kept apart. Two workspaces show switching, a
third is needed for reordering and for removal in the middle. Two outputs are the
fewest where one holds up the answer of the other; a plug more than at the start
lets one come back. The keys of `keys_views` are the modifiers, those of the overviews,
of the switcher and of minimizing, and Return; those of `keys_shortcuts` are a
modifier and two shortcuts' keys, one of which opens a view. A copy of two types
with two chunks each and a limit of three reaches the limit inside either type.
A client offers a type with nothing or with `MaxChunks` chunks behind it. A
shifted index of the switcher needs three entries to point to the wrong one. The
registry has a key of the compositor's, two free ones and one that cannot be
bound, two spellings of one key, and one saved entry that belongs to the system.
`MaxPressed` = 2 lets the seat count a second press of a button whose release it
did not get.
`Pointer` has one window with a server-side decoration and one that decorates
itself and takes touch; the lock surface takes touch as well. Two buttons are
the fewest that share one flag, two fingers the fewest of which one plays the
left button while the other is ignored or native. The overview is in the run of
the buttons and the previews in that of the fingers, to keep each within minutes.

**Views.** `SceneView` and `KeysView` leave out of the fingerprint of a state what no
action and no property of their run reads: who was told it is active and who is
tiled, and what clients were told of keys. The maximize request, which `views` leaves
out for time, was added to it once: the properties hold on 553,148 states as well.

**Fairness.** `lock_answered` assumes `WF` of `OnFrame` and `OnPresent`: an enabled
output that needs a frame gets one, and the backend reports on a commit in flight.
wlroots' backends schedule both. A commit that is refused (`OnFrameRejected`) or never
shown (`OnPresentDiscarded`) takes the place of the step that was due, so neither is
assumed to succeed. Nothing is assumed of users, clients or of
an output that is switched off. `seat_services` assumes (`SelectionFairness`) that
the event loop runs its idle callbacks (`Install`) and calls a writer whose pipe
is writable (`OnWritable`), and that a reader goes on reading or closes. It
assumes nothing of the owner: `ClipboardIsKept` is about what was read before it
exited.

**Deadlock** is checked in every run.

## 4. What depends on what

- The focus properties hold while a keyboard is plugged in, no popup grab is
  active and every window wants focus (`Unfocusable` = {}; see
  `MinimizedWindowLosesKeyboard` below): wlroots ignores the compositor's choice of focus during a grab and
  drops it without a keyboard. The lock and X-focus properties hold in all cases.
- `KeyboardAndActivationAgree` exempts a titlebar that was attached to a window which
  already had the focus: `AttachSsd` makes it inactive and nothing tells it otherwise
  until the focus is set again.
- `SceneShowsVisibleWindows` exempts a window that was last shown without asking whether
  it is visible. `SetMaximized`, `TileToplevel`, an X client's own unminimize and the end
  of the tile animation enable the node of a window on another workspace, which is then
  drawn on the current one until the scene is next recomputed.
- `LockedMeansHidden`, `BlankCoversOutputs` and `KeepsPromise` exempt an output that left
  the blank while the session was locked (`moved`). There are two ways, and neither calls
  `UpdateSessionLockGeometry`: `Output::OnRequestState` commits a mode its backend asks
  for, and when an output that was placed by hand is unplugged the layout moves the
  automatically placed ones. Such an output may show the desktop beside the blank.
- `LockIsAnswered` exempts a request that an output holds up: one that was switched off
  before it presented is waited for until it is on again, and one whose last commit
  was refused or discarded until something damages it.
- `ShortcutStateBalanced` and `NoStuckKey` exempt a key whose release a view or the lock
  surface took although its press went elsewhere (`astray`); views do.
- `SwitcherNeedsAlt` exempts a release of Alt that the selector took, or that came with
  Shift down: the key is Meta_L then, on which the switcher does not end (`missed`).
- `LockedInput` takes it that the blank is over every window (`ToplevelHits`), which is
  `BlankCoversOutputs` without its exemption: the hit test itself does not look at the lock.
- `HighlightIsUndone` also speaks of overviews, which its run leaves out for time.
- `HiddenWindowsAreNotLost` is about KDE's and UKUI's lists; what the D-Bus service
  remembers only tells the clients, and restores no window.
- `NoStuckKey` speaks of keys pressed since the client was entered and since a
  capture or an input-method grab began; a key held across these is released to
  someone else.
- `EnabledIsServed` needs that a client enables one text input at a time.
- `ReleaseFollowsPress` and `NoStuckButton` speak of undisturbed clicks: one
  button at a time, and the same receiver at the press and at the release.
  `suppress_button_release_` is one flag for all buttons, and neither the views
  nor the lock look at it. Once a click was disturbed, nothing is claimed until
  every button is up and the flag is clear.
- A touch that drives a view is forgotten, not answered, when its device goes;
  the view stays as it is. `TouchIsTracked` allows that.

Disagreements between the code and what a comment or a protocol says that are
stated in the modules, are refuted on small instances and are not among the runs:

| Definition | Instance that refutes it | Code and text |
|---|---|---|
| `MinimizedWindowLosesKeyboard` | an xdg window and a newer unmanaged X window that wants no focus | `Minimize`, comment "Move keyboard focus away if this was the active window." |
| `ExclusiveLayerKeepsKeyboard` | two layers, one clicked | `FocusLayerSurface`, comment in `FocusToplevel` "Exclusive shell layers keep the keyboard until they disappear." |
| `TopmostWindowTakesOver` | three windows, an old one raised | `FocusNextToplevel`, comment "Pick the topmost mapped window other than the one being removed." |
| `LockIsAnswered` without `HeldUp` | an output switched off | ext-session-lock: "the compositor must send either the locked or finished event" |
| `ClearedStaysClear` | one client that unsets its selection | wayland.xml: "To unset the selection, set the source to NULL." |
| `DeactivatedIsLeft` | one v1 text input | text-input v1: leave is sent "in response to a deactivate request" |
| `SecondEnableIsIgnored` | two v3 text inputs of a client, with `second` | text-input v3: such requests "must be ignored by compositor" |
| `ShortcutStateBalanced` without `astray`, with the overview | Super released before S | `Multitasking::HandleKey`, comment "closes the overview with balanced shortcut state" |
| `BlocksAreCounted` with a blacklist of `WLCOM_ALL` and a type | two services | `RemoveUkuiShortcutService` takes back another service's block |
| `ReleaseFollowsPress` for every click (`Disturb` as the identity) | two buttons, or a session lock between the two events | `OnCursorButton`, comment "its matching release stays compositor side instead of leaking to the client below it" |
| `ReleaseFollowsPress` for every click (`Disturb` as the identity) | a selector cancelled while the right button is down | `WindowSelector::HandleButton`, comment "so the client below never observes an unmatched right button release" |
| `EnabledSurfaceIsEntered` | one v2 text input, two surfaces | text-input v2: enable "can be called before or after a surface gets ... focus" |

Other things the modules show that no text of the repository speaks about. A
property above that is near one of them is worded so that it does not claim it.

- *Gestures.* A swipe made of a hold that began to move may be stopped without
  having been triggered. Two touchscreens share one gesture, so unplugging one
  forgets the swipe made on the other.
- *Idle.* The destruction of an inhibitor is not one of the events that recompute
  the inhibition: it stays until the next such event.
- *Show desktop.* Leaving it over D-Bus does not restore what entering minimized.
  Ending UKUI's highlight enables windows of other workspaces too.
  `SetWindowState` activates a window before it unminimizes it.
- *Pointer.* A release under the session lock can leave a record of its press, and
  a press whose click was disturbed stays counted by the seat: it swallows the next
  click on the same client, until the pointer enters another surface.
- *Outputs.* An output that D-Bus disabled and a KDE or wlr configuration enables
  is in the layout without its scene output. KDE's `SetDpms` tells neither UKUI,
  wlr-output-management nor the lock's geometry. The primary outputs of D-Bus and
  KDE are independent. `SetScreenMode` may stop half way. Restoring a saved
  `enabled = false` can switch off the only output. A KDE configuration starts
  from the outputs as they were when it was first filled in.
- *Capture.* A session made before its output went keeps the pointer to it, and
  `StartSession` uses that pointer: the code has no check, so starting such a session
  reads a freed output (`treeland_capture.cc:606`). The model's `StartSession` is
  guarded by the output's existence and says nothing of this case. Frames and sessions go on under
  the session lock. The selector stays active under the lock and takes keys, while
  buttons bypass it.
- *Shortcuts.* A KGlobalAccel key that was refused as taken is not bound when it
  becomes free. Enabling over `ControlAction` ignores a failed `Register` and saves
  the shortcut as on. Actions of the built-in component have no binding id, so
  moving or deactivating one over KGlobalAccel leaves the compositor's binding in
  place. `SaveConfig` truncates the file before it writes it: `Restart(TRUE)`.
- *Selection.* `Drain` takes the end of the pipe as the end of the data, so what an
  owner wrote before it died in the middle is kept as if it were whole.
- *Switcher.* The first `Cycle` with nothing focused skips the most recent window.
  `Cycle` with fewer than two windows fills the list and does not open the switcher; what
  closes then stays in that list, until the next `Cycle` reads it anew.

## 5. Proofs

TLAPS proves these for every value of the constants.

**`DesktopProofs`** assumes only `ConstantsAssumption` (the window kinds are
subsets of the windows, at least one workspace). The inductive invariant is

    DeskGood == TypeOK /\ LockSafe /\ Nested /\ XwmSafe

`LockSafe`: a locked seat's focus is nothing or a lock surface. `Nested`: a mapped
window has a scene node and a window with a node is alive. `XwmSafe`: the window
with the X focus is mapped, managed and not minimized. `XwmFocusIsUsable` is not
inductive alone: a path that gives the X focus checks only some of these
conditions itself, the others follow from `Nested` or from the type. Inside
`Minimize` the X focus is taken away last, so the lemmas carry a parameter for the
one window that is exempt until then. There is one lemma per method (what it
preserves, from any record of the type), so an action's step cites the lemmas of
the methods it calls, in their order.

- `DeskIsGood`: `Spec => []DeskGood`
- `TypeCorrect`: `Spec => []TypeOK`
- `LockedKeyboard`: `Spec => []NoDesktopFocusWhileLocked`
- `XwmFocus`: `Spec => []XwmFocusIsUsable`

**`SessionLockProofs`**, for any outputs and events, assumes only `PlugsAssumption`
(the bound on plugs is a number).

    LockGood == TypeOK /\ Blanked /\ Tracking /\ Draining /\ DisabledIsDark

`Blanked`: while locked the blank is up and covers every output but those in `moved`
(section 4). `Tracking`: only a
connected locker waits for outputs, and for none once it was told. `Draining`: an
output outside `moved` that is not waited for neither shows the desktop nor has it in
flight.
`DisabledIsDark`: a disabled output shows nothing. `LockedMeansHidden` follows,
since "locked" is sent only when no output is waited for.

- `LockStaysGood`: `Spec => []LockGood`
- `LockedHides`, `BlankStays`: the two safety properties
- `LockKeepsPromise`: `Spec => KeepsPromise`, that is every step of the lock is a
  step of `LockPromise` or changes nothing of it.

**`PointerMethodProofs` and `PointerProofs`** assume `PointerAssumption`: the left
button is one of the buttons, which are the left and the right one.

    PointerGood == PtrGood(ptr) /\ TouchGood(ptr) /\ ClickGood(ptr)

`PtrGood`: every pointer to a window is to a mapped one, a locked session gives no
window the pointer, and the seat counts buttons only while a surface has the pointer.
`TouchGood`: seat, feedback and `touch_points_` agree. `ClickGood` is what makes
`ReleaseFollowsPress` and `NoStuckButton` inductive: an undisturbed click is of one
button or one finger, and since its press the receiver of buttons is the same and the
flags `suppress_button_release_` and `pending_window_menu_` say who has the press
(`Clean`); without a button down nothing is left to suppress (`Fresh`). `PtrGood`
holds between any two calls of a handler, so there is one lemma per method about it
(`PointerMethodProofs`); the other two hold at the end of an event and are proved per
event (`PointerProofs`).

- `PointerTyped`, `PointerHoldsMapped`, `PointerReleaseFollows`, `PointerNoStuck`,
  `PointerTracksTouch`, `PointerLocked`: the type and the five properties of the runs
  `pointer_clicks` and `pointer_touch`.

**`KeysProofs`**, for any of the modelled keys and shortcuts (`NamesAssumption`) and any
events:

    ViewsGood == keys \in KeysType /\ Apart(keys)
                 /\ (keys.switcher => "alt" \in keys.held \/ keys.missed)
    KeysGood  == ViewsGood /\ Balanced(keys)

`Apart` adds to `OverviewsExclude` that the menu is not up with the switcher: it is
asked first and would keep the release of Alt from it. `Balanced` says of every key
whether it is down, recorded, captured or known to a client. What has to be added to
the two properties: outside the lock a client knows of no key that has a record, unless
it went astray, and of none at all during a capture or a grab (`RecordsUnseen`); and a
key that is both a shortcut's and a capture's went astray (`CaptureDown`).

- `KeysStayGood`: `Spec => []KeysGood`
- `KeysOverviewsExclude`, `KeysSwitcherNeedsAlt`, `KeysBalanced`, `KeysNoStuck`

**`InputMethodProofs`** assumes `InputsAssumption`.

    RelayGood   == Settled(relay) /\ Waiting(relay)
    RelayServed == RelayGood /\ OneEnabled(relay) /\ Served(relay)

`Settled` holds between handlers, its part `Base` also between the calls of one: the
relay's pointers are to text inputs that exist, each on a surface of its client, and
the input method is active exactly for an enabled one that has the focus. `Served`
needs `OneAtATime` (`"second" \notin InputEvents`), from which `OneEnabled` follows.

- `RelayPointersAlive`, `RelayActiveFocused`, and, with `OneAtATime`,
  `RelayServesEnabled`

**`CaptureProofs`** assumes `CaptureAssumption` (`Nobody` is no object).

    CaptureGood == CaptureTypeOK /\ (\A x \in DOMAIN objects_ : Reads(objects_[x], sources))
                   /\ Counted(objects_, locks, cursor_locks) /\ Paired(contexts_, objects_)
                   /\ Selecting(contexts_, selector)
                   /\ Remembered(contexts_, selector, sources)

`Counted` is `LocksAreOwned` for every source, also one that is gone. It is kept only
because what runs reads from a source that exists (`Reads`), and a context's end
unlocks what its frame and session locked only because they know of each other in both
directions (`Paired`).

- `CaptureIsGood`: `CaptureSpec => []CaptureGood`
- `CaptureLocksOwned`, `CaptureContextsAnswered`

**`SeatServicesProofs`**

- `IdleNeverLost`: `IdleIsNeverLost`, which is inductive.
- `BlocksCounted`: `BlocksAreCounted`, if no blacklist names `WLCOM_ALL` together with
  a type (`AllIsAlone`, section 4). The invariant adds that only services on the bus
  have lists or are waited for, and that none has a list it is still waited for.
- `SwipeRemembered`, `HandledCancelled`, `HoldOfFingersDown`: from `PadGood` (the
  touchpad's recognizer is in the gesture libinput reports; only a triggered swipe
  has acted before its end) and `TouchGood` (a finger has one point, and a triggered
  swipe has as many fingers as there are points).
- `ServicesAreIndependent`: a behaviour of `SeatServices` is one of each of its
  services, so these theorems and those of `InputMethod` are about what the run
  `seat_services` checks.

Each of these inductive invariants was first checked with TLC on the instance of the
run that checks the property.

Only model-checked:

- liveness (`LockIsAnswered`, `ClipboardIsKept`, `PasteEnds`): out of the prover's
  reach;
- `PrimariesAreDefined`, `ConfigurationsAreAlive`, `BindingsAreOwned`,
  `SelectionIsChosen` and `KeptIsTheLastCopy`: their modules fold over sequences and
  sets, and what a fold computes takes an induction over data that the installed
  provers do not do;
- `HiddenWindowsAreNotLost` and `HighlightIsUndone` of `ShowDesktop`, and the focus,
  workspace, animation and scene properties of `Desktop`: not attempted yet.

## 6. Plan

Extensions of the model, most important first:

1. **Grabs**: toplevel drag and pointer constraints, on top of `Pointer`.
2. **Lock surfaces**: one per output, with their configure handshake and the
   keyboard moving between them.
3. **Deferred modes** of outputs: a mode that waits for the next frame against
   hotplug and the interfaces of `Outputs`.
4. **Geometry of windows**: placing, constraining and restoring against the
   usable area, as operators on rectangles checked over small grids.
5. **XWayland**: association, configure requests, restart of the server.

Abstract specifications to come: "one owner of each pressed button, key and touch
point" for grabs and keys together.

Theorems to come: `AnimationShowsNoHidden` and that every window's workspace
exists (in `RenumberingKeepsTheView`) of `Desktop`, along the lemmas that are there;
the focus properties of `Desktop`; `HiddenWindowsAreNotLost` of `ShowDesktop`.

## 7. Not modelled

Rendering, blur, decorations' drawing, tooltips, the magnified cursor and
backends are pixels and device I/O. Argument parsing, logging and start-up run
once. The treeland and DDE shells and the D-Bus front end store attributes and
forward to operations that are modelled; the resolver of app ids keeps one
pointer and does nothing with it. The D-Bus screenshots copy within one call.
Accelerator strings are parsed by
`ParseShortcut`; `Keys` starts from what it makes of them. Serials of selections
and the text that an input method sends are left out.
`ShortcutRegistry` takes the descriptions of bindings as distinct. The server
decorations of KDE and the popups of input methods are left out as well.

Most of the tree is vendored: wlroots, Wayland, libdrm, pixman, xkbcommon, Abseil and
waylib are built with the compositor and are more than nine tenths of its
lines. They are general-purpose and FlakeWM reaches them through calls. Of
wlroots the parts its handlers rely on are modelled; the backends, renderers,
allocators and protocols that are only passed through, and the other libraries,
are not, since nothing FlakeWM does shows in them.
