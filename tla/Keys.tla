-------------------------------- MODULE Keys --------------------------------
(***************************************************************************)
(* The way of a key: Keyboard::OnKey offers it to the window menu, the     *)
(* window selector, the window previews, the multitasking overview and the *)
(* app switcher, then to KeyBindingManager, to the input method's keyboard *)
(* grab, and last to the focused client.  Each may keep it.  A key is      *)
(* pressed and released in two events, and everything above may change in  *)
(* between.                                                                *)
(*                                                                         *)
(* The state is one record, changed by operators from state to state.  A   *)
(* handler returns the new state and whether it took the key.              *)
(***************************************************************************)
EXTENDS Naturals

CONSTANTS
  KeyNames,       \* the keys of the keyboard
  BindingNames,   \* the shortcuts that may be registered
  Events          \* the optional events of this instance

Modifiers == {"super", "alt", "shift"}

\* The registered shortcuts, with what ParseShortcut makes of them.
Shortcut ==
  LET Default(modifiers, keysym, type) ==
        [modifiers |-> modifiers, keysym |-> keysym, no_repeat |-> TRUE, type |-> type]
  IN  [alt_tab       |-> Default({"alt"}, "tab", "switch"),
       alt_shift_tab |-> Default({"alt", "shift"}, "tab", "switch"),
       super_s       |-> Default({"super"}, "s", "switch"),
       super_tab     |-> Default({"super"}, "tab", "switch"),
       super_a       |-> Default({"super"}, "a", "switch"),
       alt_f3        |-> Default({"alt"}, "f3", "menu"),
       alt_f4        |-> Default({"alt"}, "f4", "close"),
       alt_f9        |-> Default({"alt"}, "f9", "minimize"),
       alt_f10       |-> Default({"alt"}, "f10", "maximize"),
       alt_x         |-> [Default({"alt"}, "x", "custom") EXCEPT !.no_repeat = FALSE]]

Types == {"switch", "menu", "close", "minimize", "maximize", "custom"}

\* What a window list, a highlight or the pointer decides when a view or a
\* shortcut acts on a window: it finds none, the window that has the keyboard,
\* another one, or leaves none that could have it.
Choices == {"nothing", "same", "other", "cleared"}

ASSUME NamesAssumption ==
  /\ BindingNames \subseteq DOMAIN Shortcut
  /\ KeyNames \subseteq {"super", "alt", "shift", "tab", "s", "a", "f3", "f4", "f9", "f10",
                         "escape", "return", "x"}

VARIABLE keys   \* the state of everything that handles keys

Phases == {"off", "active", "closing"}

KeysType ==
  [held         : SUBSET KeyNames,               \* wlr_keyboard.keycodes
   bindings_    : SUBSET BindingNames,
   active_keys_ : SUBSET (KeyNames \X BindingNames),
   blocked      : BOOLEAN,                       \* block_count_ > 0
   type_blocked : SUBSET Types,
   inhibited    : BOOLEAN,
   capture      : KeyNames \cup {"none", "armed"},
   menu         : BOOLEAN,
   selector     : BOOLEAN,
   switcher     : BOOLEAN,
   previews     : Phases,
   multitasking : Phases,
   locked       : BOOLEAN,
   im_grab      : BOOLEAN,
   focus        : {"none", "window", "lock"},
   seen         : SUBSET KeyNames,               \* pressed at the focused client since it was
                                                 \* entered and a capture or grab began
   astray       : SUBSET KeyNames,               \* history: a record or the client waits for
                                                 \* a release that a view or the lock
                                                 \* took, or the key was pressed twice
   missed       : BOOLEAN]                       \* history: Alt was last released with Shift
                                                 \* down or at the selector

TypeOK == keys \in KeysType

Init ==
  keys = [held |-> {}, bindings_ |-> BindingNames, active_keys_ |-> {}, blocked |-> FALSE,
          type_blocked |-> {}, inhibited |-> FALSE, capture |-> "none", menu |-> FALSE,
          selector |-> FALSE, switcher |-> FALSE, previews |-> "off", multitasking |-> "off",
          locked |-> FALSE, im_grab |-> FALSE, focus |-> "window", seen |-> {}, astray |-> {},
          missed |-> FALSE]

Took(st) == [st |-> st, took |-> TRUE]
Passed(st) == [st |-> st, took |-> FALSE]

\* wlr_seat_keyboard_enter.
NotifyEnter(st, focus) == [st EXCEPT !.focus = focus, !.seen = {}]

\* FocusToplevel of the window a view selected.
Activated(st, choice) ==
  IF choice = "other" /\ ~st.locked THEN NotifyEnter(st, "window") ELSE st

\* The focused window is minimized: the next one takes the keyboard, if there
\* is one.
Minimized(st, choice) ==
  IF st.focus # "window" THEN st
  ELSE NotifyEnter(st, IF choice = "other" THEN "window" ELSE "none")

(***************************************************************************)
(* What closes and opens the views.                                        *)
(***************************************************************************)
CancelMultitasking(st) ==
  IF st.multitasking = "active" THEN [st EXCEPT !.multitasking = "closing"] ELSE st

CancelPreviews(st) ==
  IF st.previews = "active" THEN [st EXCEPT !.previews = "closing"] ELSE st

\* Mutant: the menu opens over the app switcher.
Faulty_ShowWindowMenu(st) ==
  IF st.locked THEN st
  ELSE [CancelPreviews(CancelMultitasking(st)) EXCEPT !.selector = FALSE, !.menu = TRUE]

ShowWindowMenu(st) ==
  IF st.locked THEN st
  ELSE [CancelPreviews(CancelMultitasking(st)) EXCEPT
          !.switcher = FALSE, !.selector = FALSE, !.menu = TRUE]

\* Multitasking::Toggle
ToggleMultitasking(st) ==
  IF st.multitasking = "off" THEN [st EXCEPT !.multitasking = "active"]
  ELSE CancelMultitasking(st)

\* WindowPreviews::Toggle
TogglePreviews(st) ==
  IF st.previews = "active" THEN CancelPreviews(st) ELSE [st EXCEPT !.previews = "active"]

\* The action of each shortcut.  The app switcher opens when there are two
\* windows, which there are here.
RunAction(st, binding, choice) ==
  CASE binding \in {"alt_tab", "alt_shift_tab"} ->
         [CancelMultitasking(CancelPreviews(st)) EXCEPT !.menu = FALSE, !.switcher = TRUE]
    [] binding \in {"super_s", "super_tab"} ->
         ToggleMultitasking([CancelPreviews(st) EXCEPT
                               !.menu = FALSE, !.selector = FALSE, !.switcher = FALSE])
    [] binding = "super_a" ->
         TogglePreviews([CancelMultitasking(st) EXCEPT
                           !.menu = FALSE, !.selector = FALSE, !.switcher = FALSE])
    [] binding = "alt_f3" -> IF st.focus = "window" THEN ShowWindowMenu(st) ELSE st
    [] binding = "alt_f9" -> Minimized(st, choice)
    [] OTHER -> st

(***************************************************************************)
(* HandleKey of each view, in the order in which they are asked.  mods are *)
(* the modifiers before the event: xkb learns of the key after it.         *)
(***************************************************************************)

\* With Shift down the key of Alt gives Meta_L, which nobody takes for Alt.
IsAlt(key, mods) == key = "alt" /\ "shift" \notin mods

\* The highlighted item acts on the focused window, and may cost it the keyboard.
MenuActivate(st, choice) ==
  CASE choice = "nothing" -> st
    [] choice = "same" -> [st EXCEPT !.menu = FALSE]
    [] OTHER -> Minimized([st EXCEPT !.menu = FALSE], choice)

MenuHandleKey(st, key, pressed, mods, choice) ==
  IF ~st.menu \/ (~pressed /\ key = "f3") THEN Passed(st)
  ELSE IF (pressed /\ IsAlt(key, mods)) \/ (~pressed /\ key = "escape") THEN
    Took([st EXCEPT !.menu = FALSE])
  ELSE IF ~pressed /\ key = "return" THEN Took(MenuActivate(st, choice))
  ELSE Took(st)

SelectorHandleKey(st, key, pressed, choice) ==
  IF ~st.selector THEN Passed(st)
  ELSE IF ~pressed /\ (key = "escape" \/ (key = "return" /\ choice # "nothing")) THEN
    Took([st EXCEPT !.selector = FALSE])
  ELSE Took(st)

PreviewsHandleKey(st, key, pressed, mods, choice) ==
  IF st.previews = "off" \/ ("super" \in mods /\ key = "a") THEN Passed(st)
  ELSE IF ~pressed \/ st.previews = "closing" THEN Took(st)
  ELSE IF key = "escape" THEN Took(CancelPreviews(st))
  ELSE IF key = "return" THEN Took(CancelPreviews(Activated(st, choice)))
  ELSE Took(st)

\* Mutant: every shortcut with Super is left to KeyBindingManager.
Faulty_MultitaskingHandleKey(st, key, pressed, mods) ==
  IF st.multitasking = "off" THEN Passed(st)
  ELSE IF st.multitasking = "closing" THEN Took(st)
  ELSE IF "super" \in mods THEN Passed(st)
  ELSE IF pressed /\ key \in {"escape", "s", "tab"} THEN Took(CancelMultitasking(st))
  ELSE Took(st)

MultitaskingHandleKey(st, key, pressed, mods) ==
  IF st.multitasking = "off" THEN Passed(st)
  ELSE IF st.multitasking = "closing" THEN Took(st)
  ELSE IF "super" \in mods /\ key \in {"s", "tab"} THEN Passed(st)
  ELSE IF pressed /\ key \in {"escape", "s", "tab"} THEN Took(CancelMultitasking(st))
  ELSE Took(st)

\* AppSwitcher::Finish(true), which activates nothing while the session is locked.
FinishSwitcher(st, choice) == Activated([st EXCEPT !.switcher = FALSE], choice)

\* Releasing Alt or Return activates the selected window; the release of Alt goes
\* on, as do the other modifiers.
SwitcherHandleKey(st, key, pressed, mods, choice) ==
  IF ~st.switcher \/ key = "tab" THEN Passed(st)
  ELSE IF key = "escape" THEN Took([st EXCEPT !.switcher = pressed])
  ELSE IF key = "return" THEN Took(IF pressed THEN st ELSE FinishSwitcher(st, choice))
  ELSE IF ~pressed /\ IsAlt(key, mods) THEN Passed(FinishSwitcher(st, choice))
  ELSE IF key \in Modifiers THEN Passed(st)
  ELSE Took(st)

(***************************************************************************)
(* KeyBindingManager.                                                      *)
(***************************************************************************)
HandleCapturedKey(st, key, pressed) ==
  IF pressed /\ key \notin Modifiers /\ st.capture = "armed" THEN
    Took([st EXCEPT !.capture = key])
  ELSE IF ~pressed /\ st.capture = key THEN Took([st EXCEPT !.capture = "none"])
  ELSE Took(st)

MayRun(st, binding) ==
  /\ ~st.inhibited /\ ~st.blocked
  /\ Shortcut[binding].type \notin st.type_blocked

Active(st, key) == {active \in st.active_keys_ : active[1] = key}

\* active_keys_ or a capture waits for the release of the key.
Recorded(st, key) == Active(st, key) # {} \/ st.capture = key

\* The binding the key runs; Register keeps them distinct.
Matching(st, key, mods) ==
  {b \in st.bindings_ : MayRun(st, b) /\ Shortcut[b].keysym = key
                        /\ Shortcut[b].modifiers = mods}

\* Mutant: the release of a shortcut that was unregistered is not recognised.
Faulty_HandleRelease(st, key) ==
  IF \E active \in Active(st, key) : active[2] \in st.bindings_ THEN
    Took([st EXCEPT !.active_keys_ = @ \ Active(st, key)])
  ELSE IF st.capture # "none" THEN HandleCapturedKey(st, key, FALSE)
  ELSE Passed(st)

HandleRelease(st, key) ==
  IF Active(st, key) # {} THEN Took([st EXCEPT !.active_keys_ = @ \ Active(st, key)])
  ELSE IF st.capture # "none" THEN HandleCapturedKey(st, key, FALSE)
  ELSE Passed(st)

\* A key that is active already repeats, whatever the modifiers are now.
HandleRepeat(st, binding, choice) ==
  IF binding \in st.bindings_ /\ ~Shortcut[binding].no_repeat /\ MayRun(st, binding) THEN
    [st |-> RunAction(st, binding, choice), took |-> TRUE]
  ELSE Took(st)

\* Mutant: a shortcut that is inhibited passes but counts as pressed.
Faulty_HandlePress(st, key, mods, choice) ==
  IF st.capture # "none" THEN HandleCapturedKey(st, key, TRUE)
  ELSE IF Active(st, key) # {} THEN
    HandleRepeat(st, (CHOOSE active \in Active(st, key) : TRUE)[2], choice)
  ELSE IF \E b \in st.bindings_ : Shortcut[b].keysym = key /\ Shortcut[b].modifiers = mods THEN
    LET binding == CHOOSE b \in st.bindings_ : Shortcut[b].keysym = key
        recorded == [st EXCEPT !.active_keys_ = @ \cup {<<key, binding>>}]
    IN  IF MayRun(st, binding)
        THEN [st |-> RunAction(recorded, binding, choice), took |-> TRUE]
        ELSE Passed(recorded)
  ELSE Passed(st)

HandlePress(st, key, mods, choice) ==
  IF st.capture # "none" THEN HandleCapturedKey(st, key, TRUE)
  ELSE IF Active(st, key) # {} THEN
    HandleRepeat(st, (CHOOSE active \in Active(st, key) : TRUE)[2], choice)
  ELSE IF Matching(st, key, mods) = {} THEN Passed(st)
  ELSE LET binding == CHOOSE b \in Matching(st, key, mods) : TRUE
       IN  [st |-> [RunAction(st, binding, choice) EXCEPT
                     !.active_keys_ = @ \cup {<<key, binding>>}],
            took |-> TRUE]

HandleKey(st, key, pressed, mods, choice) ==
  IF pressed THEN HandlePress(st, key, mods, choice) ELSE HandleRelease(st, key)

(***************************************************************************)
(* Keyboard::OnKey.                                                        *)
(***************************************************************************)

\* wlr_seat_keyboard_notify_key
NotifyKey(st, key, pressed) ==
  IF st.focus = "none" THEN st
  ELSE [st EXCEPT !.seen = IF pressed THEN @ \cup {key} ELSE @ \ {key}]

\* The histories of the keys that are not where their press was, and of Alt.
Waiting(st, key) == Recorded(st, key) \/ key \in st.seen

Strayed(st, key, pressed, viewed) ==
  {k \in st.astray : Waiting(st, k)}
    \cup {k \in {key} : IF pressed THEN key \in st.held
                        ELSE viewed \/ (st.locked /\ Recorded(st, key))}

Missed(st, key, pressed) ==
  IF key # "alt" THEN st.missed ELSE ~pressed /\ ("shift" \in st.held \/ st.selector)

\* The views: what the first of them that takes the key makes of it.
OfferToViews(st, key, pressed, mods, choice) ==
  LET menu == MenuHandleKey(st, key, pressed, mods, choice)
      selector == IF menu.took THEN menu ELSE SelectorHandleKey(menu.st, key, pressed, choice)
      previews == IF selector.took THEN selector
                  ELSE PreviewsHandleKey(selector.st, key, pressed, mods, choice)
      multitasking == IF previews.took THEN previews
                      ELSE MultitaskingHandleKey(previews.st, key, pressed, mods)
  IN  IF multitasking.took THEN multitasking
      ELSE SwitcherHandleKey(multitasking.st, key, pressed, mods, choice)

\* What is left after everybody who may keep the key was asked.
OnKey(old, key, pressed, choice) ==
  LET mods == old.held \cap Modifiers
      st == [old EXCEPT !.held = IF pressed THEN @ \cup {key} ELSE @ \ {key},
                        !.missed = Missed(old, key, pressed)]
      views == OfferToViews(st, key, pressed, mods, choice)
      asked == [views.st EXCEPT !.astray = Strayed(old, key, pressed, views.took)]
      bindings == IF views.took \/ st.locked THEN [st |-> asked, took |-> views.took]
                  ELSE HandleKey(asked, key, pressed, mods, choice)
  IN  IF bindings.took \/ (~st.locked /\ st.im_grab) THEN bindings.st
      ELSE NotifyKey(bindings.st, key, pressed)

Do(st) == keys' = st

\* A virtual keyboard may press a key that is down: a repeat.
Press(key) ==
  /\ key \notin keys.held \/ "repeat" \in Events
  /\ \E choice \in Choices : Do(OnKey(keys, key, TRUE, choice))

Release(key) ==
  /\ key \in keys.held
  /\ \E choice \in Choices : Do(OnKey(keys, key, FALSE, choice))

(***************************************************************************)
(* Everything else that happens meanwhile.                                 *)
(***************************************************************************)

\* FocusToplevel: another window takes the keyboard.
FocusWindow ==
  /\ "focus" \in Events
  /\ ~keys.locked
  /\ Do(NotifyEnter(keys, "window"))

\* Unregister leaves active_keys_ alone: the key is still down.
Unregister(binding) ==
  /\ "register" \in Events
  /\ binding \in keys.bindings_
  /\ Do([keys EXCEPT !.bindings_ = @ \ {binding}])

Register(binding) ==
  /\ binding \notin keys.bindings_
  /\ Do([keys EXCEPT !.bindings_ = @ \cup {binding}])

\* blockGlobalShortcuts
BlockAll(blocked) ==
  /\ "block" \in Events
  /\ Do([keys EXCEPT !.blocked = blocked])

BlockType(type, blocked) ==
  /\ "block" \in Events
  /\ Do([keys EXCEPT !.type_blocked = IF blocked THEN @ \cup {type} ELSE @ \ {type}])

\* A client's inhibitor, active while its surface has the keyboard.
InhibitShortcuts(inhibited) ==
  /\ "inhibit" \in Events
  /\ Do([keys EXCEPT !.inhibited = inhibited])

GrabNextKey ==
  /\ "capture" \in Events
  /\ Do([keys EXCEPT !.capture = "armed", !.seen = {}])

CancelGrab ==
  /\ keys.capture # "none"
  /\ Do([keys EXCEPT !.capture = "none"])

\* Keyboard::OnDestroy.  wlroots has released the keys that were down before it
\* (wlr_keyboard_finish), each with an event of its own.
ForgetKeyboard ==
  /\ "unplug" \in Events
  /\ keys.held = {}
  /\ Do([keys EXCEPT !.active_keys_ = {},
                     !.capture = IF @ \in KeyNames THEN "none" ELSE @])

InputMethodGrab(grab) ==
  /\ "im" \in Events
  /\ Do([keys EXCEPT !.im_grab = grab, !.seen = IF grab THEN {} ELSE @])

\* A click or a request of the client opens the menu, a click closes it.
ClickMenu ==
  /\ "pointer" \in Events
  /\ \/ keys.menu /\ Do([keys EXCEPT !.menu = FALSE])
     \/ ~keys.menu /\ Do(ShowWindowMenu(keys))
     \/ ~keys.menu /\ ~keys.locked /\ Do(ShowWindowMenu(NotifyEnter(keys, "window")))

\* A screenshot or capture request starts the selector, whatever else is up; a
\* click ends it.
ClickSelector ==
  /\ "selector" \in Events
  /\ Do([keys EXCEPT !.selector = ~@])

\* The closing animations end.
CompleteClose ==
  /\ "closing" \in {keys.multitasking, keys.previews}
  /\ Do([keys EXCEPT !.multitasking = IF @ = "closing" THEN "off" ELSE @,
                     !.previews = IF @ = "closing" THEN "off" ELSE @])

BeginSessionLock ==
  /\ "lock" \in Events
  /\ ~keys.locked
  /\ Do([keys EXCEPT !.locked = TRUE, !.focus = "none", !.seen = {}])

FocusSessionLockSurface ==
  /\ keys.locked
  /\ Do(NotifyEnter(keys, "lock"))

UnlockSession ==
  /\ keys.locked
  /\ Do(NotifyEnter([keys EXCEPT !.locked = FALSE], "window"))

KeyNext == \E key \in KeyNames : Press(key) \/ Release(key)

ShortcutNext ==
  \/ \E binding \in BindingNames : Unregister(binding) \/ Register(binding)
  \/ \E blocked \in BOOLEAN : BlockAll(blocked) \/ InhibitShortcuts(blocked)
  \/ \E binding \in BindingNames, blocked \in BOOLEAN : BlockType(Shortcut[binding].type, blocked)
  \/ GrabNextKey \/ CancelGrab \/ ForgetKeyboard

Next ==
  \/ KeyNext \/ ShortcutNext
  \/ FocusWindow \/ ClickMenu \/ ClickSelector \/ CompleteClose
  \/ \E grab \in BOOLEAN : InputMethodGrab(grab)
  \/ BeginSessionLock \/ FocusSessionLockSurface \/ UnlockSession

Spec == Init /\ [][Next]_keys

\* The state without what the clients were told, on which nothing else depends:
\* the view of the runs whose properties are not about clients.
KeysView == [keys EXCEPT !.seen = {}, !.astray = {}]

(***************************************************************************)
(* Properties.                                                             *)
(***************************************************************************)

\* Every shortcut that is recorded as pressed has its key down, so that the
\* next press of the key is a new one, and so has a key that GrabNextKey
\* captured: its release ends the capture.  Only a release that a view or the lock
\* surface took leaves a record behind; the next release that comes through
\* removes it (KeyBindingManager::HandleKey pairs press and release through
\* active_keys_, HandleCapturedKey and ForgetKeyboard end a capture).
ShortcutStateBalanced ==
  /\ \A active \in keys.active_keys_ : active[1] \in keys.held \cup keys.astray
  /\ keys.capture \in KeyNames => keys.capture \in keys.held \cup keys.astray

\* No key is stuck: what was pressed at the focused client is down or was
\* released at it, unless a view took the release, the key was pressed twice, or
\* a capture or a grab of the input method began between.  No shortcut, capture,
\* grab or lock takes the release of a press that went to the client
\* (Keyboard::OnKey, KeyBindingManager::HandleKey).
NoStuckKey == keys.seen \subseteq keys.held \cup keys.astray

\* Neither overview nor the app switcher opens over another: each takes the
\* keys that would open the others until it has closed (HandleKey of each).
OverviewsExclude ==
  /\ keys.previews = "off" \/ keys.multitasking = "off"
  /\ keys.switcher => keys.previews = "off" /\ keys.multitasking = "off"

\* The app switcher is up only while Alt is down, and outlives its release only
\* when Shift was down, which makes the key Meta_L, or the selector, opened over
\* the switcher, took it: no menu, overview, capture, input method or lock keeps
\* the release from it (AppSwitcher::HandleKey).
SwitcherNeedsAlt == keys.switcher => "alt" \in keys.held \/ keys.missed

=============================================================================
