------------------------------ MODULE Pointer ------------------------------
(***************************************************************************)
(* Buttons, fingers and grabs.  OnCursorButton offers a button to the      *)
(* window menu, the split-screen popup, the overview, the previews and the *)
(* selector, then to the decorations and the interactive grabs, and last   *)
(* to the client under the pointer.  A finger is sent to the client as     *)
(* touch, or drives a view, or plays the left button.                      *)
(*                                                                         *)
(* A press and its release are two events.  What the compositor kept of    *)
(* the first, suppress_button_release_ must keep of the second, across     *)
(* whatever happens in between.                                            *)
(*                                                                         *)
(* Where the pointer is, is an input of each event: windows move and       *)
(* restack under a pointer that rests, so the surface that has the pointer *)
(* focus need not be the one that a button event hits.                     *)
(***************************************************************************)
EXTENDS Naturals, FiniteSets

CONSTANTS
  NumWindows,   \* windows 1 .. NumWindows
  Decorated,    \* the windows with a server-side decoration
  TakesTouch,   \* the windows whose client bound wl_touch
  Buttons,      \* the buttons of the mouse
  TouchIds,     \* the touch points of the one touch screen
  MaxPressed,   \* bound: presses of a button that the seat may count
  Events        \* the optional events of this instance

Windows == 1 .. NumWindows
NoWindow == 0
LockSurface == NumWindows + 1
Surfaces == 1 .. LockSurface

ASSUME PointerAssumption ==
  /\ NumWindows \in Nat
  /\ Decorated \subseteq Windows
  /\ TakesTouch \subseteq Surfaces
  /\ "left" \in Buttons /\ Buttons \subseteq {"left", "right"}
  /\ MaxPressed \in Nat \ {0}

VARIABLE ptr

vars == <<ptr>>

Phases == {"off", "active", "closing"}
TouchModes == {"native", "pointer", "selector", "multitasking", "previews", "ignored"}

PtrType ==
  [mapped       : SUBSET Windows,
   cursor_mode_ : {"passthrough", "move", "resize"},
   grabbed      : Windows \cup {NoWindow},            \* grabbed_toplevel_
   suppress     : BOOLEAN,                            \* suppress_button_release_
   pending_menu : Windows \cup {NoWindow},            \* pending_window_menu_
   menu         : Windows \cup {NoWindow},            \* the window of the open menu
   menu_pressed : BOOLEAN,                            \* pressed_index_ >= 0
   split        : {"off", "waiting", "outside", "inside"},   \* the popup, and pointer_inside_
   split_window : Windows \cup {NoWindow},
   split_pressed : BOOLEAN,                           \* pressed_item_ >= 0
   multitasking : Phases,
   previews     : Phases,
   selector     : {"off", "up", "down"},              \* down: button_down_
   locked       : BOOLEAN,
   focus        : Surfaces \cup {NoWindow},           \* the seat's pointer focus
   touch        : [TouchIds -> TouchModes \cup {"none"}],        \* touch_points_
   seat_touch   : [TouchIds -> Surfaces \cup {NoWindow}],        \* wlr_touch_point, by its client
   feedback     : SUBSET TouchIds,   \* unreleased marks of TouchFeedback
   held         : SUBSET Buttons,    \* down on the mouse
   buttons      : [Buttons -> 0 .. MaxPressed],   \* the seat's, with n_pressed
   kept         : SUBSET Buttons,    \* down, and the compositor kept the press
   stray        : BOOLEAN,           \* the seat got the last release, and not its press
   disturbed    : BOOLEAN]           \* see Disturb

\* The state of the pointer, the views and the touch screen.
TypeOK == ptr \in PtrType

Init ==
  ptr = [mapped |-> Windows, cursor_mode_ |-> "passthrough", grabbed |-> NoWindow,
         suppress |-> FALSE, pending_menu |-> NoWindow,
         menu |-> NoWindow, menu_pressed |-> FALSE,
         split |-> "off", split_window |-> NoWindow, split_pressed |-> FALSE,
         multitasking |-> "off", previews |-> "off", selector |-> "off",
         locked |-> FALSE, focus |-> NoWindow,
         touch |-> [i \in TouchIds |-> "none"], seat_touch |-> [i \in TouchIds |-> NoWindow],
         feedback |-> {}, held |-> {}, buttons |-> [b \in Buttons |-> 0], kept |-> {},
         stray |-> FALSE, disturbed |-> FALSE]

(***************************************************************************)
(* What a pointer event may find: the toplevel under the pointer and the   *)
(* part of it, and the window whose resize margin the pointer is in.       *)
(* CsdResizeHitAt looks at the windows only, not at what covers them.      *)
(***************************************************************************)
PartsOf(w) ==
  IF w \in Decorated
  THEN {"client", "titlebar", "minimize", "maximize", "close", "resize"}
  ELSE {"client", "csd_titlebar"}

\* ToplevelAt: the blank and the lock surfaces cover a locked session.  They do as
\* long as no output leaves the blank, see BlankCoversOutputs in SessionLock.
ToplevelHits(st) ==
  {[window |-> NoWindow, part |-> "desktop"]} \cup
  IF st.locked THEN {[window |-> LockSurface, part |-> "client"]}
  ELSE UNION {[window : {w}, part : PartsOf(w)] : w \in st.mapped}

CsdResizeHits(st) == {NoWindow} \cup (st.mapped \ Decorated)

\* What gets the buttons before the windows do.
Receiver(st) ==
  [locked |-> st.locked, menu |-> st.menu, split |-> st.split = "inside",
   multitasking |-> st.multitasking, previews |-> st.previews, selector |-> st.selector # "off"]

\* A view takes every button.
TakesAll(st) == \/ st.menu # NoWindow
                \/ st.split = "inside"
                \/ st.multitasking # "off"
                \/ st.previews # "off"
                \/ st.selector # "off"

Nothing == [window |-> NoWindow, part |-> "desktop", csd |-> NoWindow]

\* Under a view, what matters is the surface that the pointer enters when the
\* view goes.
Hits(st) ==
  IF TakesAll(st) THEN {Nothing} \cup [window : {h.window : h \in ToplevelHits(st)} \ {NoWindow},
                                      part : {"client"}, csd : {NoWindow}]
  ELSE {[window |-> h.window, part |-> h.part, csd |-> w] :
          h \in ToplevelHits(st), w \in CsdResizeHits(st)}

SsdParts == {"titlebar", "minimize", "maximize", "close", "resize"}

\* The surface under the pointer: a decoration has none.
SurfaceOf(hit) == IF hit.part \in {"client", "csd_titlebar"} THEN hit.window ELSE NoWindow

\* What the pointer is over inside a view: an item (on release, the one that
\* was pressed), something else of the view, or outside it.
Spots == {"item", "other", "outside"}

MenuActions == {"minimize", "move", "resize", "refused", "other"}

\* The rest of what an event brings: which item of the menu is chosen and
\* whether a preview is of a window of another workspace, on release and by keys
\* only; and at a press whether it is the second of a double click on a
\* titlebar, or a resize that is refused.
InputsWith(st, hits, chosen, again, resize) ==
  [hit    : hits,
   on     : IF TakesAll(st) \/ st.split = "outside" THEN Spots ELSE {"other"},
   action : IF chosen /\ st.menu_pressed THEN MenuActions ELSE {"other"},
   away   : IF chosen /\ st.previews = "active" THEN BOOLEAN ELSE {FALSE},
   again  : again,
   resize : resize]

PressInputs(st) ==
  {in \in InputsWith(st, Hits(st), FALSE, BOOLEAN, {"resize", "refused"}) :
     /\ in.again => in.hit.part \in {"titlebar", "csd_titlebar"}
     /\ in.resize = "refused" => in.hit.part = "resize" \/ in.hit.csd # NoWindow}

MotionInputs(st) == InputsWith(st, Hits(st), FALSE, {FALSE}, {"resize"})

\* Where a button is released matters to the views only.
ReleaseInputs(st) ==
  InputsWith(st, IF TakesAll(st) THEN Hits(st) ELSE {Nothing}, TRUE, {FALSE}, {"resize"})

NoInput == [hit |-> Nothing, on |-> "other", action |-> "other", away |-> FALSE,
            again |-> FALSE, resize |-> "resize"]

(***************************************************************************)
(* The seat.                                                               *)
(***************************************************************************)
\* Entering a surface forgets the buttons, so what the seat counts between two
\* surfaces never shows: here it counts at a surface only.
NoButtons == [b \in Buttons |-> 0]

ClearFocus(st) == [st EXCEPT !.focus = NoWindow, !.buttons = NoButtons]

NotifyEnter(st, surface) ==
  IF st.focus = surface THEN st ELSE [st EXCEPT !.focus = surface, !.buttons = NoButtons]

\* The seat counts presses: a client is told of the first press and of the last
\* release, and never of a release without a press.
NotifyButton(st, button, pressed) ==
  IF st.focus = NoWindow THEN [st EXCEPT !.kept = @ \ {button}]
  ELSE [st EXCEPT !.buttons[button] = IF pressed THEN @ + 1 ELSE IF @ > 0 THEN @ - 1 ELSE 0,
                  !.stray = ~pressed /\ button \in st.kept,
                  !.kept = @ \ {button}]

\* The compositor keeps a press, or ends one, without telling a client.
Keep(st, button, pressed) ==
  [st EXCEPT !.kept = IF pressed THEN @ \cup {button} ELSE @ \ {button}]

(***************************************************************************)
(* Interactive moves and resizes.                                          *)
(***************************************************************************)
ResetCursorMode(st) ==
  [st EXCEPT !.cursor_mode_ = "passthrough", !.grabbed = NoWindow]

\* The move that ends at the top edge maximizes its window, which Desktop models.
EndInteractive(st) == ResetCursorMode(st)

\* A grab that is already on is overwritten.  A resize is refused when it names
\* no edge or its window is maximized or fullscreen, and ends a grab even so.
BeginInteractive(st, w, mode) ==
  IF st.locked \/ w \notin st.mapped THEN st
  ELSE IF mode = "refused" THEN ResetCursorMode(st)
  ELSE [st EXCEPT !.grabbed = w, !.cursor_mode_ = mode]

\* A minimized window is out of the scene; here, the pointer leaves it.
Minimize(st) == ClearFocus(st)

(***************************************************************************)
(* The views.                                                              *)
(***************************************************************************)
CancelMenu(st) == [st EXCEPT !.menu = NoWindow, !.menu_pressed = FALSE]
CancelSplit(st) == [st EXCEPT !.split = "off", !.split_window = NoWindow,
                              !.split_pressed = FALSE]
CancelMultitasking(st) ==
  IF st.multitasking = "active" THEN [st EXCEPT !.multitasking = "closing"] ELSE st
CancelPreviews(st) ==
  IF st.previews = "active" THEN [st EXCEPT !.previews = "closing"] ELSE st
CancelSelector(st) == [st EXCEPT !.selector = "off"]

ShowWindowMenu(st, w) ==
  IF st.locked \/ w \notin st.mapped THEN st
  ELSE LET alone == CancelSelector(CancelPreviews(CancelMultitasking(st))) IN
    [ClearFocus(ResetCursorMode(alone)) EXCEPT !.menu = w, !.menu_pressed = FALSE]

SwitchWorkspace(st) ==
  IF st.locked THEN st ELSE ClearFocus(ResetCursorMode(CancelMenu(st)))

\* HandleButton of each view but the menu.  All but the split-screen popup take
\* every button while they are up.
SplitHandleButton(st, button, pressed, in) ==
  CASE button # "left" -> IF pressed THEN CancelSplit(st) ELSE st
    [] button = "left" /\ pressed -> [st EXCEPT !.split_pressed = in.on = "item"]
    [] button = "left" /\ ~pressed ->
         IF st.split_pressed /\ in.on = "item"
         THEN CancelSplit(st)    \* and TileToplevel
         ELSE [st EXCEPT !.split_pressed = FALSE, !.split = "outside"]

\* A release on a window, on a workspace or on the background closes it.
MultitaskingHandleButton(st, button, pressed, in) ==
  IF button = "left" /\ ~pressed /\ in.on # "other" THEN CancelMultitasking(st) ELSE st

\* ActivateItem and CloseItem.  With its last window the view closes.
PreviewsHandleButton(st, button, pressed, in) ==
  CASE pressed \/ st.previews # "active" -> st
    [] ~pressed /\ st.previews = "active" /\ button = "left" /\ in.on = "item" ->
         CancelPreviews(IF in.away THEN SwitchWorkspace(st) ELSE st)
    [] ~pressed /\ st.previews = "active" /\ in.on = "outside" ->
         IF button = "left" THEN CancelPreviews(st) ELSE st
    [] OTHER -> IF Cardinality(st.mapped) <= 1 THEN CancelPreviews(st) ELSE st

\* "other" is a press on the toolbar, and its release; a release on a valid
\* target is "item".
SelectorHandleButton(st, button, pressed, in) ==
  IF st.selector = "off" THEN st
  ELSE IF button = "right" THEN IF pressed THEN st ELSE CancelSelector(st)
  ELSE IF in.on = "other" THEN st
  ELSE IF pressed THEN [st EXCEPT !.selector = "down"]
  ELSE IF st.selector = "down" /\ in.on = "item" THEN CancelSelector(st)
  ELSE [st EXCEPT !.selector = "up"]

(***************************************************************************)
(* Motion.                                                                 *)
(***************************************************************************)
HoverMaximize(st, w) ==
  IF st.split_window = w THEN st
  ELSE [CancelSplit(st) EXCEPT !.split = "waiting", !.split_window = w]

\* The pointer over the windows, with no view and no grab.
HoverWindows(st, hit) ==
  CASE hit.csd # NoWindow -> ClearFocus(CancelSplit(st))
    [] hit.csd = NoWindow /\ hit.part = "maximize" ->
         ClearFocus(HoverMaximize(st, hit.window))
    [] OTHER -> IF SurfaceOf(hit) = NoWindow THEN ClearFocus(CancelSplit(st))
                ELSE NotifyEnter(CancelSplit(st), SurfaceOf(hit))

SplitHandleMotion(st, in) ==
  IF st.split \notin {"outside", "inside"} THEN st
  ELSE [st EXCEPT !.split = IF in.on = "outside" THEN "outside" ELSE "inside"]

ProcessCursorMotion(st, in) ==
  IF st.menu # NoWindow THEN ClearFocus(st)
  ELSE LET split == SplitHandleMotion(st, in) IN
    IF TakesAll(split) THEN ClearFocus(split)
    ELSE IF split.cursor_mode_ # "passthrough" THEN CancelSplit(split)   \* the window follows
    ELSE HoverWindows(split, in.hit)

(***************************************************************************)
(* The window menu.                                                        *)
(***************************************************************************)
\* A move or a resize takes the pointer to the window.
HandleWindowMenuAction(st, w, in) ==
  CASE in.action = "minimize" -> Minimize(st)
    [] in.action \in {"move", "resize", "refused"} ->
         ProcessCursorMotion(BeginInteractive(st, w, in.action), in)
    [] OTHER -> st

MenuActivate(st, in) == HandleWindowMenuAction(CancelMenu(st), st.menu, in)

MenuHandleButton(st, button, pressed, in) ==
  CASE button # "left" -> IF pressed THEN CancelMenu(st) ELSE st
    [] button = "left" /\ pressed ->
         IF in.on = "outside" THEN CancelMenu(st)
         ELSE [st EXCEPT !.menu_pressed = @ \/ in.on = "item"]
    [] button = "left" /\ ~pressed ->
         IF st.menu_pressed /\ in.on = "item" THEN MenuActivate(st, in)
         ELSE [st EXCEPT !.menu_pressed = FALSE]

(***************************************************************************)
(* Buttons.                                                                *)
(***************************************************************************)
\* A press on the decoration of a window.
SsdPress(st, button, in) ==
  LET w == in.hit.window
      held == [st EXCEPT !.suppress = TRUE]
  IN CASE button # "left" ->
            [held EXCEPT !.pending_menu =
               IF button = "right" /\ in.hit.part = "titlebar" THEN w ELSE NoWindow]
       [] button = "left" /\ in.hit.part = "close" -> held
       [] button = "left" /\ in.hit.part = "minimize" -> Minimize(held)
       [] button = "left" /\ in.hit.part = "maximize" -> CancelSplit(held)
       [] button = "left" /\ in.hit.part = "resize" -> BeginInteractive(held, w, in.resize)
       [] button = "left" /\ in.hit.part = "titlebar" ->
            IF in.again THEN EndInteractive(held)
            ELSE BeginInteractive(held, w, "move")

\* A press on a surface: the second one on a titlebar is kept.
SurfacePress(st, button, in) ==
  IF button = "left" /\ in.hit.part = "csd_titlebar" /\ in.again
  THEN Keep(EndInteractive([st EXCEPT !.suppress = TRUE]), button, TRUE)
  ELSE NotifyButton(st, button, TRUE)

\* Mutant: the press that confirms a menu-driven move forgets its release.
Faulty_OnPress(st, button, in) ==
  IF st.cursor_mode_ # "passthrough" THEN Keep(EndInteractive(st), button, TRUE)
  ELSE IF button = "left" /\ in.hit.csd # NoWindow
  THEN Keep(BeginInteractive([st EXCEPT !.suppress = TRUE],
                             in.hit.csd, in.resize), button, TRUE)
  ELSE IF in.hit.part \in SsdParts THEN Keep(SsdPress(st, button, in), button, TRUE)
  ELSE SurfacePress(st, button, in)

OnPress(st, button, in) ==
  IF st.cursor_mode_ # "passthrough"
  THEN Keep([EndInteractive(st) EXCEPT !.suppress = TRUE], button, TRUE)
  ELSE IF button = "left" /\ in.hit.csd # NoWindow
  THEN Keep(BeginInteractive([st EXCEPT !.suppress = TRUE],
                             in.hit.csd, in.resize), button, TRUE)
  ELSE IF in.hit.part \in SsdParts
  THEN Keep(SsdPress(st, button, in), button, TRUE)
  ELSE SurfacePress(st, button, in)

\* Mutant: the release that opens the menu leaves the next one suppressed.
Faulty_OnRelease(st, button) ==
  IF button = "right" /\ st.pending_menu # NoWindow
  THEN ShowWindowMenu(EndInteractive(Keep([st EXCEPT !.pending_menu = NoWindow],
                                          button, FALSE)), st.pending_menu)
  ELSE EndInteractive(IF st.suppress THEN Keep([st EXCEPT !.suppress = FALSE], button, FALSE)
                      ELSE NotifyButton(st, button, FALSE))

OnRelease(st, button) ==
  IF button = "right" /\ st.pending_menu # NoWindow
  THEN ShowWindowMenu(EndInteractive(Keep([st EXCEPT !.pending_menu = NoWindow,
                                                     !.suppress = FALSE],
                                          button, FALSE)), st.pending_menu)
  ELSE EndInteractive(IF st.suppress THEN Keep([st EXCEPT !.suppress = FALSE], button, FALSE)
                      ELSE NotifyButton(st, button, FALSE))

OnCursorButton(st, button, pressed, in) ==
  IF st.locked THEN NotifyButton(st, button, pressed)
  ELSE IF st.menu # NoWindow
  THEN LET after == Keep(MenuHandleButton(st, button, pressed, in), button, pressed) IN
         IF after.menu # NoWindow THEN after
         ELSE ProcessCursorMotion([after EXCEPT !.suppress = @ \/ pressed], in)
  ELSE IF st.split = "inside"
  THEN Keep(SplitHandleButton(st, button, pressed, in), button, pressed)
  ELSE IF st.multitasking # "off"
  THEN Keep(MultitaskingHandleButton(st, button, pressed, in), button, pressed)
  ELSE IF st.previews # "off"
  THEN Keep(PreviewsHandleButton(st, button, pressed, in), button, pressed)
  ELSE IF st.selector # "off"
  THEN LET after == Keep(SelectorHandleButton(st, button, pressed, in), button, pressed) IN
         IF after.selector # "off" THEN after ELSE ProcessCursorMotion(after, in)
  ELSE IF pressed THEN OnPress(st, button, in) ELSE OnRelease(st, button)

(***************************************************************************)
(* Touch.                                                                  *)
(***************************************************************************)
PointerTouches(st) == {i \in TouchIds : st.touch[i] = "pointer"}

\* wlr_seat_touch_notify_cancel ends every touch point of the client.  Each
\* window is of a client of its own.
NotifyTouchCancel(st, surfaces) ==
  [st EXCEPT !.seat_touch = [i \in TouchIds |->
                               IF @[i] \in surfaces THEN NoWindow ELSE @[i]]]

AddTouchPoint(st, i, mode) == [st EXCEPT !.touch[i] = mode]

OnTouchDown(st, i, in) ==
  IF st.multitasking # "off"
  THEN AddTouchPoint(MultitaskingHandleButton(st, "left", TRUE, in), i, "multitasking")
  ELSE IF st.previews # "off"
  THEN AddTouchPoint(PreviewsHandleButton(st, "left", TRUE, in), i, "previews")
  ELSE IF st.selector # "off"
  THEN AddTouchPoint(SelectorHandleButton(st, "left", TRUE, in), i, "selector")
  ELSE LET shown == [st EXCEPT !.feedback = @ \cup {i}] IN
    IF SurfaceOf(in.hit) \in TakesTouch
    THEN AddTouchPoint([shown EXCEPT !.seat_touch[i] = SurfaceOf(in.hit)], i, "native")
    ELSE IF PointerTouches(st) # {}
    THEN AddTouchPoint(shown, i, "ignored")
    ELSE AddTouchPoint(OnCursorButton(ProcessCursorMotion(shown, in), "left", TRUE, in),
                       i, "pointer")

OnTouchUp(st, i, in) ==
  LET mode == st.touch[i]
      up == CASE mode = "native" -> [st EXCEPT !.seat_touch[i] = NoWindow]
              [] mode = "pointer" -> OnCursorButton(st, "left", FALSE, in)
              [] mode = "selector" -> SelectorHandleButton(st, "left", FALSE, in)
              [] mode = "multitasking" -> MultitaskingHandleButton(st, "left", FALSE, in)
              [] mode = "previews" -> PreviewsHandleButton(st, "left", FALSE, in)
              [] OTHER -> st
  IN [up EXCEPT !.touch[i] = "none", !.feedback = @ \ {i}]

\* Mutant: the seat is not told.
Faulty_OnTouchCancel(st, i, in) == [st EXCEPT !.touch[i] = "none", !.feedback = @ \ {i}]

OnTouchCancel(st, i, in) ==
  LET mode == st.touch[i]
      cancelled ==
        CASE mode = "native" -> NotifyTouchCancel(st, {st.seat_touch[i]} \ {NoWindow})
          [] mode = "pointer" -> OnCursorButton(st, "left", FALSE, in)
          [] mode = "selector" -> CancelSelector(st)
          [] mode = "multitasking" -> CancelMultitasking(st)
          [] mode = "previews" -> CancelPreviews(st)
          [] OTHER -> st
      removed == {i} \cup {j \in TouchIds : cancelled.touch[j] = "native"
                                            /\ cancelled.seat_touch[j] = NoWindow}
  IN [cancelled EXCEPT
        !.touch = [j \in TouchIds |-> IF j \in removed THEN "none" ELSE @[j]],
        !.feedback = @ \ removed]

CancelTouchDevice(st, in) ==
  LET native == {i \in TouchIds : st.touch[i] = "native"}
      ended == NotifyTouchCancel(st, {st.seat_touch[i] : i \in native} \ {NoWindow})
      released == IF PointerTouches(st) = {} THEN ended
                  ELSE OnCursorButton(ended, "left", FALSE, in)
  IN [released EXCEPT !.touch = [i \in TouchIds |-> "none"],
                      !.feedback = {}]

(***************************************************************************)
(* Which of these events spoil a click.  suppress_button_release_ is one   *)
(* flag: it does not tell two buttons apart, and it is not looked at by    *)
(* the views and by the lock.  A click is disturbed when another button    *)
(* goes down during it, or when what receives the buttons changes during   *)
(* it, or when its press closes the split-screen popup.                    *)
(***************************************************************************)
Down(st) == st.held \cup (IF PointerTouches(st) = {} THEN {} ELSE {"left"})

\* Once a click was disturbed, nothing more is recorded of it.
Disturb(st, disturbed) ==
  IF st.disturbed \/ disturbed
  THEN [st EXCEPT !.disturbed = TRUE, !.kept = {}, !.stray = FALSE]
  ELSE st

\* Between a press and its release.
During(old, new) == Disturb(new, Down(old) # {} /\ Receiver(old) # Receiver(new))

\* At a press.  The press that dismisses the menu is a click of its own when
\* nothing else takes the release.
AtPress(old, new) ==
  LET dismissed == old.menu # NoWindow /\ Receiver(new) = Receiver(CancelMenu(old))
                   /\ ~TakesAll(new) IN
    Disturb(new, Down(old) # {} \/ (Receiver(old) # Receiver(new) /\ ~dismissed))

Quiet(st) == [st EXCEPT !.stray = FALSE]

\* With every button up, at the seat too, and nothing left to suppress, the next
\* click is a new one.
Settle(st) ==
  LET pressed == {b \in Buttons : st.buttons[b] > 0} \cup Down(st) IN
    [st EXCEPT !.disturbed = @ /\ (pressed # {} \/ st.suppress \/ st.pending_menu # NoWindow)]

Become(st) == ptr' = Settle(st)

(***************************************************************************)
(* The events.                                                             *)
(***************************************************************************)
Press(button) ==
  /\ button \notin ptr.held /\ ptr.buttons[button] < MaxPressed
  /\ \E in \in PressInputs(ptr) :
       LET after == AtPress(ptr, OnCursorButton(Quiet(ptr), button, TRUE, in)) IN
         Become([after EXCEPT !.held = @ \cup {button}])

Release(button) ==
  /\ button \in ptr.held
  /\ \E in \in ReleaseInputs(ptr) :
       LET after == OnCursorButton(Quiet(ptr), button, FALSE, in) IN
         Become([after EXCEPT !.held = @ \ {button}])

\* OnCursorMotion and OnCursorMotionAbsolute.
Motion ==
  \E in \in MotionInputs(ptr) : Become(During(ptr, ProcessCursorMotion(Quiet(ptr), in)))

TouchDown(i) ==
  /\ ptr.touch[i] = "none" /\ ptr.buttons["left"] < MaxPressed
  /\ \E in \in PressInputs(ptr) :
       LET after == OnTouchDown(Quiet(ptr), i, in) IN
         Become(IF after.touch[i] = "pointer" THEN AtPress(ptr, after) ELSE During(ptr, after))

TouchUp(i) ==
  /\ ptr.touch[i] # "none"
  /\ \E in \in ReleaseInputs(ptr) :
       LET after == OnTouchUp(Quiet(ptr), i, in) IN
         Become(IF ptr.touch[i] = "pointer" THEN after ELSE During(ptr, after))

TouchMotion(i) ==
  /\ ptr.touch[i] = "pointer"
  /\ \E in \in MotionInputs(ptr) : Become(During(ptr, ProcessCursorMotion(Quiet(ptr), in)))

TouchCancel(i) ==
  /\ "touch_cancel" \in Events
  /\ ptr.touch[i] # "none"
  /\ \E in \in ReleaseInputs(ptr) :
       LET after == OnTouchCancel(Quiet(ptr), i, in) IN
         Become(IF ptr.touch[i] = "pointer" THEN after ELSE During(ptr, after))

\* TouchDevice::OnDestroy.
Unplug ==
  /\ "unplug" \in Events
  /\ \E in \in ReleaseInputs(ptr) : Become(CancelTouchDevice(Quiet(ptr), in))

\* The client asks for a grab, and the resize may name no edge.
RequestMove(w) == Become(BeginInteractive(Quiet(ptr), w, "move"))

RequestResize(w) ==
  \E mode \in {"resize", "refused"} : Become(BeginInteractive(Quiet(ptr), w, mode))

RequestShowWindowMenu(w) ==
  /\ "request_menu" \in Events
  /\ Become(During(ptr, ShowWindowMenu(Quiet(ptr), w)))

\* A window is minimized by its client, a key or a taskbar.
MinimizeWindow == Become(Minimize(Quiet(ptr)))

\* Mutant: the menu that waits for the right button outlives its window.
Faulty_OnUnmap(st, w) ==
  LET menu == IF st.menu = w THEN CancelMenu(st) ELSE st
      split == IF menu.split_window = w THEN CancelSplit(menu) ELSE menu
      shown == IF st.mapped = {w} THEN CancelPreviews(split) ELSE split
      gone == [shown EXCEPT !.mapped = @ \ {w}]
  IN IF gone.grabbed = w THEN ResetCursorMode(gone) ELSE gone

OnUnmap(st, w) ==
  LET menu == IF st.menu = w THEN CancelMenu(st) ELSE st
      split == IF menu.split_window = w THEN CancelSplit(menu) ELSE menu
      shown == IF st.mapped = {w} THEN CancelPreviews(split) ELSE split
      gone == [shown EXCEPT !.pending_menu = IF @ = w THEN NoWindow ELSE @,
                            !.mapped = @ \ {w}]
  IN IF gone.grabbed = w THEN ResetCursorMode(gone) ELSE gone

\* The selector drops a press on the window that goes.
Unmap(w) ==
  /\ w \in ptr.mapped
  /\ \E target \in IF ptr.selector = "down" THEN {"up", "down"} ELSE {ptr.selector} :
       Become(During(ptr, [OnUnmap(Quiet(ptr), w) EXCEPT !.selector = target]))

\* The surface goes, and with it its pointer focus.  Its touch points stay with
\* the client until they are lifted (touch_point_handle_surface_destroy), and go
\* with the client.
SurfaceGoes(surface) ==
  LET left == IF ptr.focus = surface THEN ClearFocus(Quiet(ptr)) ELSE Quiet(ptr) IN
    \/ Become(left)
    \/ Become(NotifyTouchCancel(left, {surface}))

Destroy(w) == w \notin ptr.mapped /\ SurfaceGoes(w)

Map(w) ==
  /\ w \notin ptr.mapped
  /\ Become([Quiet(ptr) EXCEPT !.mapped = @ \cup {w}])

\* The views are opened and closed by keys and by clients.
ShowSplit ==
  /\ ptr.split = "waiting"
  /\ \E where \in {"inside", "outside"} :
       Become(During(ptr, [Quiet(ptr) EXCEPT !.split = where, !.split_pressed = FALSE]))

\* WindowMenu::HandleKey: Escape and Alt close it, Return activates an item.
MenuKey ==
  /\ ptr.menu # NoWindow
  /\ \/ Become(During(ptr, CancelMenu(Quiet(ptr))))
     \/ \E in \in ReleaseInputs([ptr EXCEPT !.menu_pressed = TRUE]) :
          Become(During(ptr, MenuActivate(Quiet(ptr), in)))

\* The overviews close on Escape; on Return the previews go to their window.
\* A name typed into the previews closes them when it matches no window; what
\* else it filters is left out.
OverviewKey ==
  \/ /\ ptr.multitasking = "active"
     /\ Become(During(ptr, CancelMultitasking(Quiet(ptr))))
  \/ /\ ptr.previews = "active"
     /\ \E after \in {Quiet(ptr), SwitchWorkspace(Quiet(ptr))} :
          Become(During(ptr, CancelPreviews(after)))

ToggleMultitasking ==
  /\ "multitasking" \in Events /\ ~ptr.locked
  /\ LET alone == CancelSelector(CancelMenu(CancelPreviews(Quiet(ptr)))) IN
       Become(During(ptr, IF alone.multitasking = "off"
                          THEN [alone EXCEPT !.multitasking = "active"]
                          ELSE CancelMultitasking(alone)))

CompleteMultitasking ==
  /\ ptr.multitasking = "closing"
  /\ LET closed == [Quiet(ptr) EXCEPT !.multitasking = "off"] IN
       \E after \in {closed, SwitchWorkspace(closed)} : Become(During(ptr, after))

TogglePreviews ==
  /\ "previews" \in Events /\ ~ptr.locked
  /\ LET alone == CancelSelector(CancelMenu(CancelMultitasking(Quiet(ptr)))) IN
       Become(During(ptr, CASE alone.previews = "active" -> CancelPreviews(alone)
                            [] alone.previews = "off" /\ alone.mapped = {} -> alone
                            [] OTHER -> [alone EXCEPT !.previews = "active"]))

CompletePreviews ==
  /\ ptr.previews = "closing"
  /\ Become(During(ptr, [Quiet(ptr) EXCEPT !.previews = "off"]))

StartSelector ==
  /\ "selector" \in Events /\ ptr.selector = "off"
  /\ Become(During(ptr, ClearFocus([Quiet(ptr) EXCEPT !.selector = "up"])))

StopSelector ==
  /\ ptr.selector # "off"
  /\ Become(During(ptr, CancelSelector(Quiet(ptr))))

ChangeWorkspace == Become(During(ptr, SwitchWorkspace(Quiet(ptr))))

\* Mutant: the fingers that are down keep their touch points.
Faulty_BeginSessionLock(st) == ClearFocus(ResetCursorMode([st EXCEPT !.locked = TRUE]))

\* What is under the fingers does not matter: the session is locked.
BeginSessionLock(st) ==
  ClearFocus(CancelTouchDevice(ResetCursorMode([st EXCEPT !.locked = TRUE]), NoInput))

\* Also when the session stayed locked after its locker died.
Lock ==
  /\ "lock" \in Events
  /\ Become(During(ptr, BeginSessionLock(Quiet(ptr))))

UnlockSession ==
  /\ ptr.locked
  /\ Become(During(ptr, [Quiet(ptr) EXCEPT !.locked = FALSE]))

\* The locker destroys its surface, or dies.
DestroyLockSurface ==
  /\ LockSurface \in {ptr.focus} \cup {ptr.seat_touch[i] : i \in TouchIds}
  /\ SurfaceGoes(LockSurface)

Next ==
  \/ \E b \in Buttons : Press(b) \/ Release(b)
  \/ Motion
  \/ \E i \in TouchIds : TouchDown(i) \/ TouchUp(i) \/ TouchMotion(i) \/ TouchCancel(i)
  \/ Unplug
  \/ \E w \in Windows : \/ RequestMove(w) \/ RequestResize(w) \/ RequestShowWindowMenu(w)
                        \/ Unmap(w) \/ Destroy(w) \/ Map(w)
  \/ MinimizeWindow
  \/ ShowSplit \/ MenuKey \/ OverviewKey
  \/ ToggleMultitasking \/ CompleteMultitasking
  \/ TogglePreviews \/ CompletePreviews
  \/ StartSelector \/ StopSelector
  \/ ChangeWorkspace
  \/ Lock \/ UnlockSession \/ DestroyLockSurface

Spec == Init /\ [][Next]_vars

(***************************************************************************)
(* Properties.                                                             *)
(***************************************************************************)
\* A grab has a window, which is mapped, until it ends; so have the open menu,
\* the menu that waits for the right button to be released, and the popup of
\* the maximize button.  The code keeps these as plain pointers.
HeldWindowsAreMapped ==
  /\ (ptr.cursor_mode_ = "passthrough") = (ptr.grabbed = NoWindow)
  /\ {ptr.grabbed, ptr.menu, ptr.pending_menu, ptr.split_window} \subseteq ptr.mapped \cup {NoWindow}

\* In an undisturbed click, a client's seat is not handed the release of a press
\* that the compositor kept: "its matching release stays compositor side instead
\* of leaking to the client below it".
ReleaseFollowsPress == ptr.stray => ptr.disturbed

\* In an undisturbed click, the client that got the press gets the release if
\* it still has the pointer: no button stays down at a client.  At the seat a
\* button that does would also swallow the next click.
NoStuckButton == ~ptr.disturbed => {b \in Buttons : ptr.buttons[b] > 0} \subseteq Down(ptr)

\* The seat, the feedback and touch_points_ agree: a touch point of the seat
\* and an unreleased mark on the screen belong to a finger that is tracked,
\* and one finger at most plays the left button.
TouchIsTracked ==
  /\ \A i \in TouchIds : ptr.seat_touch[i] # NoWindow => ptr.touch[i] = "native"
  /\ \A i \in ptr.feedback : ptr.touch[i] # "none"
  /\ \A i, j \in PointerTouches(ptr) : i = j

\* While the session is locked no window has the pointer, a finger or a grab.
LockedInput ==
  ptr.locked => /\ ptr.cursor_mode_ = "passthrough"
                /\ ptr.focus \notin Windows
                /\ \A i \in TouchIds : ptr.seat_touch[i] \notin Windows
====
