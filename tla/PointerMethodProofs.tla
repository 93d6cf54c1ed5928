------------------------- MODULE PointerMethodProofs -------------------------
(***************************************************************************)
(* What each method of the pointer keeps of it, for any number of windows  *)
(* and fingers: the inductive invariant, and a lemma for each method that  *)
(* the event handlers of Pointer.tla are composed of.                      *)
(***************************************************************************)
EXTENDS Pointer, TLAPS

\* What the methods keep of the pointer, also between two calls of one handler:
\* a pointer to a window is of one that is mapped, a locked session gives no
\* window the pointer, and the seat counts buttons at a surface only.
PtrGood(st) ==
  /\ st \in PtrType
  /\ (st.cursor_mode_ = "passthrough") = (st.grabbed = NoWindow)
  /\ {st.grabbed, st.menu, st.pending_menu, st.split_window} \subseteq st.mapped \cup {NoWindow}
  /\ st.locked => st.cursor_mode_ = "passthrough" /\ st.focus \notin Windows
  /\ st.focus = NoWindow => \A b \in Buttons : st.buttons[b] = 0

\* What the fingers and the marks of the feedback have in common at the end of
\* an event.
TouchGood(st) ==
  /\ \A i \in TouchIds : st.seat_touch[i] # NoWindow => st.touch[i] = "native"
  /\ \A i \in st.feedback : st.touch[i] # "none"
  /\ \A i, j \in PointerTouches(st) : i = j
  /\ st.locked => \A i \in TouchIds : st.seat_touch[i] \notin Windows

\* A button is down that was pressed in a state with nothing to suppress, and
\* what receives the buttons is the same since: the release goes where the press
\* went.
Clean(st, b) ==
  /\ st.buttons[b] <= 1
  /\ b \notin st.kept => (st.locked \/ ~TakesAll(st)) /\ ~st.suppress /\ st.pending_menu = NoWindow
  /\ b \in st.kept =>
       /\ ~st.locked /\ st.buttons[b] = 0 /\ (TakesAll(st) <=> ~st.suppress)
       /\ st.pending_menu # NoWindow => b = "right" /\ st.suppress

\* No button is down, at a client neither, and no release will be suppressed.
Fresh(st) ==
  /\ \A b \in Buttons : st.buttons[b] = 0
  /\ st.kept = {} /\ ~st.suppress /\ st.pending_menu = NoWindow

\* What is known of a click between two events: undisturbed, it is of one button
\* of the mouse, or of one finger.
ClickGood(st) ==
  /\ ~st.stray
  /\ st.disturbed => st.kept = {}
  /\ ~st.disturbed =>
       /\ Down(st) = {} => Fresh(st)
       /\ \A b \in Down(st) : /\ Clean(st, b) /\ Down(st) = {b} /\ st.kept \subseteq {b}
                              /\ \A c \in Buttons \ {b} : st.buttons[c] = 0
       /\ st.held = {} \/ PointerTouches(st) = {}

Good(st) == PtrGood(st) /\ TouchGood(st) /\ ClickGood(st)

PointerGood == Good(ptr)

\* What a method is given of an event.
InputGood(st, in) ==
  /\ in.hit.window \in st.mapped \cup {NoWindow, LockSurface}
  /\ in.hit.csd \in st.mapped \cup {NoWindow}
  /\ st.locked => in.hit.window \notin Windows
  /\ in.hit.part \in SsdParts => in.hit.window \in st.mapped
  /\ in.resize \in {"resize", "refused"}

(***************************************************************************)
(* Most methods change the focus, the grab and the views only.             *)
(***************************************************************************)
SameOutside(r, st) ==
  /\ r.mapped = st.mapped /\ r.locked = st.locked /\ r.held = st.held
  /\ r.touch = st.touch /\ r.seat_touch = st.seat_touch /\ r.feedback = st.feedback
  /\ r.disturbed = st.disturbed

SameClick(r, st) ==
  /\ r.suppress = st.suppress /\ r.pending_menu = st.pending_menu
  /\ r.kept = st.kept /\ r.stray = st.stray
  /\ r.buttons = st.buttons \/ r.buttons = NoButtons

SameViews(r, st) ==
  /\ r.menu = st.menu /\ r.multitasking = st.multitasking
  /\ r.previews = st.previews /\ r.selector = st.selector

Calm(st, r) == PtrGood(r) /\ SameOutside(r, st) /\ SameClick(r, st)

LEMMA Windowed ==
  /\ NoWindow \notin Windows /\ LockSurface \notin Windows /\ LockSurface # NoWindow
  /\ Windows \subseteq Surfaces /\ LockSurface \in Surfaces /\ NoWindow \notin Surfaces
  /\ NoButtons \in [Buttons -> 0 .. MaxPressed] /\ \A b \in Buttons : NoButtons[b] = 0
BY PointerAssumption DEF NoWindow, Windows, LockSurface, Surfaces, NoButtons

LEMMA CalmSelf == ASSUME NEW st, PtrGood(st) PROVE Calm(st, st)
BY DEF Calm, SameOutside, SameClick

LEMMA CalmTrans ==
  ASSUME NEW a, NEW b, NEW c, Calm(a, b), Calm(b, c) PROVE Calm(a, c)
BY DEF Calm, SameOutside, SameClick

\* What an event brings is good for every state that a handler goes through.
LEMMA InputKept ==
  ASSUME NEW st, NEW r, NEW in, Calm(st, r), InputGood(st, in) PROVE InputGood(r, in)
BY DEF Calm, SameOutside, InputGood

LEMMA ClearFocusCalm ==
  ASSUME NEW st, PtrGood(st)
  PROVE  LET r == ClearFocus(st) IN
         Calm(st, r) /\ SameViews(r, st) /\ r.split = st.split /\ r.cursor_mode_ = st.cursor_mode_
<1> DEFINE r == ClearFocus(st)
<1> HIDE DEF NoButtons, NoWindow, Windows, Surfaces
<1>1. r \in PtrType
  BY Windowed, Zenon DEF PtrGood, PtrType, ClearFocus
<1>2. /\ SameOutside(r, st) /\ SameClick(r, st) /\ SameViews(r, st) /\ r.split = st.split
      /\ r.cursor_mode_ = st.cursor_mode_ /\ r.grabbed = st.grabbed
      /\ r.split_window = st.split_window /\ r.focus = NoWindow /\ r.buttons = NoButtons
  BY DEF PtrGood, PtrType, ClearFocus, SameOutside, SameClick, SameViews
<1> HIDE DEF r
<1>3. PtrGood(r)
  BY <1>1, <1>2, Windowed DEF PtrGood, SameOutside, SameClick, SameViews
<1> QED
  BY <1>2, <1>3 DEF Calm, r

LEMMA NotifyEnterCalm ==
  ASSUME NEW st, PtrGood(st), NEW s \in Surfaces, st.locked => s \notin Windows
  PROVE  LET r == NotifyEnter(st, s) IN Calm(st, r) /\ SameViews(r, st) /\ r.split = st.split
<1> DEFINE r == NotifyEnter(st, s)
<1> HIDE DEF NoButtons, NoWindow, Windows, Surfaces
<1>1. CASE st.focus = s
  <2>1. r = st
    BY <1>1 DEF NotifyEnter
  <2> QED
    BY <2>1, CalmSelf DEF SameViews
<1>2. CASE st.focus # s
  <2>1. r \in PtrType
    BY <1>2, Windowed, Zenon DEF PtrGood, PtrType, NotifyEnter
  <2>2. /\ SameOutside(r, st) /\ SameClick(r, st) /\ SameViews(r, st) /\ r.split = st.split
        /\ r.cursor_mode_ = st.cursor_mode_ /\ r.grabbed = st.grabbed
        /\ r.split_window = st.split_window /\ r.focus = s
    BY <1>2 DEF PtrGood, PtrType, NotifyEnter, SameOutside, SameClick, SameViews
  <2> HIDE DEF r
  <2>3. PtrGood(r)
    BY <2>1, <2>2, Windowed DEF PtrGood, SameOutside, SameClick, SameViews
  <2> QED
    BY <2>2, <2>3 DEF Calm, r
<1> QED
  BY <1>1, <1>2

LEMMA ResetCalm ==
  ASSUME NEW st, PtrGood(st)
  PROVE  LET r == ResetCursorMode(st) IN
         /\ Calm(st, r) /\ SameViews(r, st) /\ r.split = st.split /\ r.cursor_mode_ = "passthrough"
         /\ r.buttons = st.buttons
<1> DEFINE r == ResetCursorMode(st)
<1> HIDE DEF NoWindow, Windows, Surfaces
<1>1. r \in PtrType
  BY Windowed, Zenon DEF PtrGood, PtrType, ResetCursorMode
<1>2. /\ SameOutside(r, st) /\ SameClick(r, st) /\ SameViews(r, st) /\ r.split = st.split
      /\ r.cursor_mode_ = "passthrough" /\ r.grabbed = NoWindow
      /\ r.split_window = st.split_window /\ r.focus = st.focus /\ r.buttons = st.buttons
  BY DEF PtrGood, PtrType, ResetCursorMode, SameOutside, SameClick, SameViews
<1> HIDE DEF r
<1>3. PtrGood(r)
  BY <1>1, <1>2 DEF PtrGood, SameOutside, SameClick, SameViews
<1> QED
  BY <1>2, <1>3 DEF Calm, r

\* A grab begins on a window that is mapped, in a session that is not locked.
LEMMA BeginInteractiveCalm ==
  ASSUME NEW st, PtrGood(st), NEW w, NEW mode \in {"move", "resize", "refused"}
  PROVE  LET r == BeginInteractive(st, w, mode) IN
         Calm(st, r) /\ SameViews(r, st) /\ r.split = st.split /\ r.buttons = st.buttons
<1> DEFINE r == BeginInteractive(st, w, mode)
<1> HIDE DEF NoWindow, Windows, Surfaces
<1>1. CASE st.locked \/ w \notin st.mapped
  <2>1. r = st
    BY <1>1 DEF BeginInteractive
  <2> QED
    BY <2>1, CalmSelf DEF SameViews
<1>2. CASE ~(st.locked \/ w \notin st.mapped) /\ mode = "refused"
  <2>1. r = ResetCursorMode(st)
    BY <1>2 DEF BeginInteractive
  <2> QED
    BY <2>1, ResetCalm
<1>3. CASE ~(st.locked \/ w \notin st.mapped) /\ mode # "refused"
  <2>1. st \in PtrType /\ w \in Windows /\ w # NoWindow
    BY <1>3, Windowed DEF PtrGood, PtrType
  <2>2. r = [st EXCEPT !.grabbed = w, !.cursor_mode_ = mode]
    BY <1>3 DEF BeginInteractive
  <2> HIDE DEF r
  <2>3. r \in PtrType
    BY <1>3, <2>1, <2>2, Zenon DEF PtrType
  <2>4. /\ SameOutside(r, st) /\ SameClick(r, st) /\ SameViews(r, st) /\ r.split = st.split
        /\ r.cursor_mode_ = mode /\ r.grabbed = w
        /\ r.split_window = st.split_window /\ r.focus = st.focus /\ r.buttons = st.buttons
    BY <2>1, <2>2 DEF PtrType, SameOutside, SameClick, SameViews
  <2>5. PtrGood(r)
    BY <1>3, <2>1, <2>3, <2>4 DEF PtrGood, SameOutside, SameClick, SameViews
  <2> QED
    BY <2>4, <2>5 DEF Calm, r
<1> QED
  BY <1>1, <1>2, <1>3

LEMMA CancelMenuCalm ==
  ASSUME NEW st, PtrGood(st)
  PROVE  LET r == CancelMenu(st) IN
         /\ Calm(st, r) /\ r.menu = NoWindow /\ r.multitasking = st.multitasking
         /\ r.previews = st.previews /\ r.selector = st.selector /\ r.split = st.split
         /\ r.buttons = st.buttons
<1> DEFINE r == CancelMenu(st)
<1> HIDE DEF NoWindow, Windows, Surfaces
<1>1. r \in PtrType
  BY Windowed, Zenon DEF PtrGood, PtrType, CancelMenu
<1>2. /\ SameOutside(r, st) /\ SameClick(r, st) /\ r.menu = NoWindow
      /\ r.multitasking = st.multitasking /\ r.previews = st.previews /\ r.selector = st.selector
      /\ r.split = st.split /\ r.cursor_mode_ = st.cursor_mode_ /\ r.grabbed = st.grabbed
      /\ r.split_window = st.split_window /\ r.focus = st.focus /\ r.buttons = st.buttons
  BY DEF PtrGood, PtrType, CancelMenu, SameOutside, SameClick
<1> HIDE DEF r
<1>3. PtrGood(r)
  BY <1>1, <1>2 DEF PtrGood, SameOutside, SameClick
<1> QED
  BY <1>2, <1>3 DEF Calm, r

LEMMA CancelSplitCalm ==
  ASSUME NEW st, PtrGood(st)
  PROVE  LET r == CancelSplit(st) IN
         /\ Calm(st, r) /\ SameViews(r, st) /\ r.split = "off" /\ r.buttons = st.buttons
         /\ r.cursor_mode_ = st.cursor_mode_
<1> DEFINE r == CancelSplit(st)
<1> HIDE DEF NoWindow, Windows, Surfaces
<1>1. r \in PtrType
  BY Windowed, Zenon DEF PtrGood, PtrType, CancelSplit
<1>2. /\ SameOutside(r, st) /\ SameClick(r, st) /\ SameViews(r, st)
      /\ r.split = "off" /\ r.cursor_mode_ = st.cursor_mode_ /\ r.grabbed = st.grabbed
      /\ r.split_window = NoWindow /\ r.focus = st.focus /\ r.buttons = st.buttons
  BY DEF PtrGood, PtrType, CancelSplit, SameOutside, SameClick, SameViews
<1> HIDE DEF r
<1>3. PtrGood(r)
  BY <1>1, <1>2 DEF PtrGood, SameOutside, SameClick, SameViews
<1> QED
  BY <1>2, <1>3 DEF Calm, r

\* A method of a view changes nothing else.
SameSeat(r, st) ==
  /\ r.cursor_mode_ = st.cursor_mode_ /\ r.grabbed = st.grabbed
  /\ r.focus = st.focus /\ r.buttons = st.buttons

LEMMA ViewCalm ==
  ASSUME NEW st, PtrGood(st), NEW r \in PtrType, SameOutside(r, st), SameClick(r, st),
         SameSeat(r, st), {r.menu, r.split_window} \subseteq r.mapped \cup {NoWindow}
  PROVE  Calm(st, r)
BY DEF Calm, PtrGood, SameOutside, SameClick, SameSeat

LEMMA CancelMultitaskingCalm ==
  ASSUME NEW st, PtrGood(st)
  PROVE  LET r == CancelMultitasking(st) IN
         /\ Calm(st, r) /\ r.split = st.split /\ r.buttons = st.buttons
         /\ r.menu = st.menu /\ r.previews = st.previews /\ r.selector = st.selector
<1> DEFINE r == [st EXCEPT !.multitasking = "closing"]
<1> HIDE DEF NoWindow, Windows, Surfaces
<1>1. st \in PtrType
  BY DEF PtrGood
<1>2. r \in PtrType
  BY <1>1 DEF PtrType, Phases
<1>3. /\ SameOutside(r, st) /\ SameClick(r, st) /\ SameSeat(r, st) /\ r.split = st.split
      /\ r.split_window = st.split_window /\ r.menu = st.menu
      /\ r.previews = st.previews /\ r.selector = st.selector
  BY <1>1 DEF PtrType, SameOutside, SameClick, SameSeat
<1>4. CancelMultitasking(st) = r \/ CancelMultitasking(st) = st
  BY DEF CancelMultitasking
<1> HIDE DEF r
<1>5. {r.menu, r.split_window} \subseteq r.mapped \cup {NoWindow}
  BY <1>3 DEF PtrGood, SameOutside
<1>6. Calm(st, r)
  BY <1>2, <1>3, <1>5, ViewCalm
<1> QED
  BY <1>3, <1>4, <1>6, CalmSelf DEF SameSeat

LEMMA CancelPreviewsCalm ==
  ASSUME NEW st, PtrGood(st)
  PROVE  LET r == CancelPreviews(st) IN
         /\ Calm(st, r) /\ r.split = st.split /\ r.buttons = st.buttons
         /\ r.menu = st.menu /\ r.multitasking = st.multitasking /\ r.selector = st.selector
<1> DEFINE r == [st EXCEPT !.previews = "closing"]
<1> HIDE DEF NoWindow, Windows, Surfaces
<1>1. st \in PtrType
  BY DEF PtrGood
<1>2. r \in PtrType
  BY <1>1 DEF PtrType, Phases
<1>3. /\ SameOutside(r, st) /\ SameClick(r, st) /\ SameSeat(r, st) /\ r.split = st.split
      /\ r.split_window = st.split_window /\ r.menu = st.menu
      /\ r.multitasking = st.multitasking /\ r.selector = st.selector
  BY <1>1 DEF PtrType, SameOutside, SameClick, SameSeat
<1>4. CancelPreviews(st) = r \/ CancelPreviews(st) = st
  BY DEF CancelPreviews
<1> HIDE DEF r
<1>5. {r.menu, r.split_window} \subseteq r.mapped \cup {NoWindow}
  BY <1>3 DEF PtrGood, SameOutside
<1>6. Calm(st, r)
  BY <1>2, <1>3, <1>5, ViewCalm
<1> QED
  BY <1>3, <1>4, <1>6, CalmSelf DEF SameSeat

LEMMA CancelSelectorCalm ==
  ASSUME NEW st, PtrGood(st)
  PROVE  LET r == CancelSelector(st) IN
         /\ Calm(st, r) /\ r.split = st.split /\ r.buttons = st.buttons
         /\ r.menu = st.menu /\ r.multitasking = st.multitasking /\ r.previews = st.previews
<1> DEFINE r == [st EXCEPT !.selector = "off"]
<1> HIDE DEF NoWindow, Windows, Surfaces
<1>1. st \in PtrType
  BY DEF PtrGood
<1>2. r \in PtrType
  BY <1>1 DEF PtrType, Phases
<1>3. /\ SameOutside(r, st) /\ SameClick(r, st) /\ SameSeat(r, st) /\ r.split = st.split
      /\ r.split_window = st.split_window /\ r.menu = st.menu
      /\ r.multitasking = st.multitasking /\ r.previews = st.previews
  BY <1>1 DEF PtrType, SameOutside, SameClick, SameSeat
<1>4. CancelSelector(st) = r \/ CancelSelector(st) = st
  BY DEF CancelSelector
<1> HIDE DEF r
<1>5. {r.menu, r.split_window} \subseteq r.mapped \cup {NoWindow}
  BY <1>3 DEF PtrGood, SameOutside
<1>6. Calm(st, r)
  BY <1>2, <1>3, <1>5, ViewCalm
<1> QED
  BY <1>3, <1>4, <1>6, CalmSelf DEF SameSeat

\* The menu opens for a window that is mapped, or an item of it is pressed.
LEMMA MenuCalm ==
  ASSUME NEW st, PtrGood(st), NEW w \in st.mapped \cup {NoWindow}, NEW p \in BOOLEAN
  PROVE  LET r == [st EXCEPT !.menu = w, !.menu_pressed = p] IN
         /\ Calm(st, r) /\ r.menu = w /\ r.multitasking = st.multitasking
         /\ r.previews = st.previews /\ r.selector = st.selector /\ r.split = st.split
         /\ r.buttons = st.buttons
<1> DEFINE r == [st EXCEPT !.menu = w, !.menu_pressed = p]
<1> HIDE DEF NoWindow, Windows, Surfaces
<1>1. st \in PtrType /\ w \in Windows \cup {NoWindow}
  BY DEF PtrGood, PtrType
<1>2. r \in PtrType
  BY <1>1, Zenon DEF PtrType
<1>3. /\ SameOutside(r, st) /\ SameClick(r, st) /\ r.menu = w
      /\ r.multitasking = st.multitasking /\ r.previews = st.previews /\ r.selector = st.selector
      /\ r.split = st.split /\ r.cursor_mode_ = st.cursor_mode_ /\ r.grabbed = st.grabbed
      /\ r.split_window = st.split_window /\ r.focus = st.focus /\ r.buttons = st.buttons
  BY <1>1 DEF PtrType, SameOutside, SameClick
<1> HIDE DEF r
<1>4. PtrGood(r)
  BY <1>2, <1>3 DEF PtrGood, SameOutside, SameClick
<1> QED
  BY <1>3, <1>4 DEF Calm, r

LEMMA MenuPressedCalm ==
  ASSUME NEW st, PtrGood(st), NEW p \in BOOLEAN
  PROVE  LET r == [st EXCEPT !.menu_pressed = p] IN
         Calm(st, r) /\ SameViews(r, st) /\ r.split = st.split /\ r.buttons = st.buttons
<1> DEFINE r == [st EXCEPT !.menu_pressed = p]
<1> HIDE DEF NoWindow, Windows, Surfaces
<1>1. st \in PtrType
  BY DEF PtrGood
<1>2. r \in PtrType
  BY <1>1 DEF PtrType
<1>3. /\ SameOutside(r, st) /\ SameClick(r, st) /\ SameSeat(r, st) /\ SameViews(r, st)
      /\ r.split = st.split /\ r.split_window = st.split_window
  BY <1>1 DEF PtrType, SameOutside, SameClick, SameSeat, SameViews
<1> HIDE DEF r
<1>4. Calm(st, r)
  BY <1>2, <1>3, ViewCalm DEF PtrGood, SameOutside, SameViews
<1> QED
  BY <1>3, <1>4 DEF r, SameSeat

LEMMA SplitPressedCalm ==
  ASSUME NEW st, PtrGood(st), NEW x \in {"outside", "inside"}, NEW p \in BOOLEAN
  PROVE  LET r == [st EXCEPT !.split_pressed = p, !.split = x] IN
         /\ Calm(st, r) /\ SameViews(r, st) /\ r.split = x /\ r.buttons = st.buttons
<1> DEFINE r == [st EXCEPT !.split_pressed = p, !.split = x]
<1> HIDE DEF NoWindow, Windows, Surfaces
<1>1. st \in PtrType
  BY DEF PtrGood
<1>2. r \in PtrType
  BY <1>1, Zenon DEF PtrType
<1>3. /\ SameOutside(r, st) /\ SameClick(r, st) /\ SameSeat(r, st) /\ SameViews(r, st)
      /\ r.split = x /\ r.split_window = st.split_window
  BY <1>1 DEF PtrType, SameOutside, SameClick, SameSeat, SameViews
<1> HIDE DEF r
<1>4. Calm(st, r)
  BY <1>2, <1>3, ViewCalm DEF PtrGood, SameOutside, SameViews
<1> QED
  BY <1>3, <1>4 DEF r, SameSeat

LEMMA SplitPressCalm ==
  ASSUME NEW st, PtrGood(st), NEW p \in BOOLEAN
  PROVE  LET r == [st EXCEPT !.split_pressed = p] IN
         /\ Calm(st, r) /\ SameViews(r, st) /\ r.split = st.split /\ r.buttons = st.buttons
<1> DEFINE r == [st EXCEPT !.split_pressed = p]
<1> HIDE DEF NoWindow, Windows, Surfaces
<1>1. st \in PtrType
  BY DEF PtrGood
<1>2. r \in PtrType
  BY <1>1 DEF PtrType
<1>3. /\ SameOutside(r, st) /\ SameClick(r, st) /\ SameSeat(r, st) /\ SameViews(r, st)
      /\ r.split = st.split /\ r.split_window = st.split_window
  BY <1>1 DEF PtrType, SameOutside, SameClick, SameSeat, SameViews
<1> HIDE DEF r
<1>4. Calm(st, r)
  BY <1>2, <1>3, ViewCalm DEF PtrGood, SameOutside, SameViews
<1> QED
  BY <1>3, <1>4 DEF r, SameSeat

LEMMA SplitHandleMotionCalm ==
  ASSUME NEW st, PtrGood(st), NEW in
  PROVE  LET r == SplitHandleMotion(st, in) IN Calm(st, r) /\ SameViews(r, st)
<1> DEFINE x == IF in.on = "outside" THEN "outside" ELSE "inside"
           r == [st EXCEPT !.split = x]
<1> HIDE DEF NoWindow, Windows, Surfaces
<1>1. st \in PtrType /\ x \in {"outside", "inside"}
  BY DEF PtrGood
<1>2. SplitHandleMotion(st, in) = st \/ SplitHandleMotion(st, in) = r
  BY DEF SplitHandleMotion
<1> HIDE DEF x
<1>3. r \in PtrType
  BY <1>1 DEF PtrType
<1>4. /\ SameOutside(r, st) /\ SameClick(r, st) /\ SameSeat(r, st) /\ SameViews(r, st)
      /\ r.split_window = st.split_window
  BY <1>1 DEF PtrType, SameOutside, SameClick, SameSeat, SameViews
<1> HIDE DEF r
<1>5. Calm(st, r)
  BY <1>3, <1>4, ViewCalm DEF PtrGood, SameOutside, SameViews
<1> QED
  BY <1>2, <1>4, <1>5, CalmSelf DEF SameViews

\* The popup opens for a window that is mapped.
LEMMA HoverMaximizeCalm ==
  ASSUME NEW st, PtrGood(st), NEW w \in st.mapped
  PROVE  LET r == HoverMaximize(st, w) IN
         Calm(st, r) /\ SameViews(r, st) /\ (st.split = "inside" \/ r.split # "inside")
<1> DEFINE c == CancelSplit(st)
           r == [c EXCEPT !.split = "waiting", !.split_window = w]
<1> HIDE DEF NoWindow, Windows, Surfaces
<1>1. HoverMaximize(st, w) = st \/ HoverMaximize(st, w) = r
  BY DEF HoverMaximize
<1>2. Calm(st, c) /\ SameViews(c, st)
  BY CancelSplitCalm
<1> HIDE DEF c
<1>3. c \in PtrType /\ w \in Windows
  BY <1>2 DEF Calm, PtrGood, PtrType
<1>4. r \in PtrType
  BY <1>3, Zenon DEF PtrType
<1>5. /\ SameOutside(r, c) /\ SameClick(r, c) /\ SameSeat(r, c) /\ SameViews(r, c)
      /\ r.split = "waiting" /\ r.split_window = w
  BY <1>3 DEF PtrType, SameOutside, SameClick, SameSeat, SameViews
<1> HIDE DEF r
<1>6. Calm(c, r)
  <2>1. {r.menu, r.split_window} \subseteq r.mapped \cup {NoWindow}
    BY <1>2, <1>5 DEF Calm, PtrGood, SameOutside, SameViews
  <2> QED
    BY <1>2, <1>4, <1>5, <2>1, ViewCalm DEF Calm
<1>7. Calm(st, r) /\ SameViews(r, st)
  BY <1>2, <1>5, <1>6, CalmTrans DEF SameViews
<1> QED
  BY <1>1, <1>5, <1>7, CalmSelf DEF SameViews

LEMMA ShowWindowMenuCalm ==
  ASSUME NEW st, PtrGood(st), NEW w PROVE Calm(st, ShowWindowMenu(st, w))
<1> DEFINE a == CancelMultitasking(st)
           b == CancelPreviews(a)
           c == CancelSelector(b)
           d == ResetCursorMode(c)
           e == ClearFocus(d)
<1> HIDE DEF NoWindow, Windows, Surfaces
<1>1. CASE st.locked \/ w \notin st.mapped
  BY <1>1, CalmSelf DEF ShowWindowMenu
<1>2. CASE ~(st.locked \/ w \notin st.mapped)
  <2>1. ShowWindowMenu(st, w) = [e EXCEPT !.menu = w, !.menu_pressed = FALSE]
    BY <1>2 DEF ShowWindowMenu
  <2>2. Calm(st, a)
    BY CancelMultitaskingCalm
  <2> HIDE DEF a
  <2>3. Calm(st, b)
    BY <2>2, CancelPreviewsCalm, CalmTrans DEF Calm
  <2> HIDE DEF b
  <2>4. Calm(st, c)
    BY <2>3, CancelSelectorCalm, CalmTrans DEF Calm
  <2> HIDE DEF c
  <2>5. Calm(st, d)
    BY <2>4, ResetCalm, CalmTrans DEF Calm
  <2> HIDE DEF d
  <2>6. Calm(st, e)
    BY <2>5, ClearFocusCalm, CalmTrans DEF Calm
  <2> HIDE DEF e
  <2>7. w \in e.mapped
    BY <1>2, <2>6 DEF Calm, SameOutside
  <2> QED
    <3>1. Calm(e, [e EXCEPT !.menu = w, !.menu_pressed = FALSE])
      <4>1. w \in e.mapped \cup {NoWindow} /\ FALSE \in BOOLEAN /\ PtrGood(e)
        BY <2>6, <2>7 DEF Calm
      <4> QED
        BY <4>1, MenuCalm, Zenon
    <3> QED
      BY <2>1, <2>6, <3>1, CalmTrans, Zenon
<1> QED
  BY <1>1, <1>2

LEMMA SwitchWorkspaceCalm ==
  ASSUME NEW st, PtrGood(st)
  PROVE  Calm(st, SwitchWorkspace(st)) /\ SwitchWorkspace(st).split = st.split
<1> DEFINE a == CancelMenu(st)
           b == ResetCursorMode(a)
<1>1. SwitchWorkspace(st) = IF st.locked THEN st ELSE ClearFocus(b)
  BY DEF SwitchWorkspace
<1>2. Calm(st, a) /\ a.split = st.split
  BY CancelMenuCalm
<1> HIDE DEF a
<1>3. Calm(st, b) /\ b.split = st.split
  BY <1>2, ResetCalm, CalmTrans DEF Calm
<1> HIDE DEF b
<1>4. Calm(st, ClearFocus(b)) /\ ClearFocus(b).split = st.split
  BY <1>3, ClearFocusCalm, CalmTrans DEF Calm
<1> QED
  BY <1>1, <1>4, CalmSelf

(***************************************************************************)
(* What the views do with a button, and the motion.                        *)
(***************************************************************************)
LEMMA SplitHandleButtonCalm ==
  ASSUME NEW st, PtrGood(st), st.split = "inside", NEW button, NEW pressed \in BOOLEAN, NEW in
  PROVE  LET r == SplitHandleButton(st, button, pressed, in) IN
         /\ Calm(st, r) /\ SameViews(r, st) /\ r.buttons = st.buttons
         /\ pressed => r.split = (IF button = "left" THEN "inside" ELSE "off")
<1> DEFINE r == SplitHandleButton(st, button, pressed, in)
<1>1. CASE button # "left"
  <2>1. r = IF pressed THEN CancelSplit(st) ELSE st
    BY <1>1 DEF SplitHandleButton
  <2> QED
    BY <1>1, <2>1, CancelSplitCalm, CalmSelf DEF SameViews
<1>2. CASE button = "left" /\ pressed
  <2>1. r = [st EXCEPT !.split_pressed = (in.on = "item")]
    BY <1>2 DEF SplitHandleButton
  <2> QED
    BY <1>2, <2>1, SplitPressCalm, Zenon
<1>3. CASE button = "left" /\ ~pressed
  <2>1. r = IF st.split_pressed /\ in.on = "item" THEN CancelSplit(st)
            ELSE [st EXCEPT !.split_pressed = FALSE, !.split = "outside"]
    BY <1>3 DEF SplitHandleButton
  <2>2. CASE r = CancelSplit(st)
    BY <1>3, <2>2, CancelSplitCalm
  <2> DEFINE v == [st EXCEPT !.split_pressed = FALSE, !.split = "outside"]
  <2>3. CASE r = v
    <3>1. Calm(st, v) /\ SameViews(v, st) /\ v.buttons = st.buttons
      BY SplitPressedCalm, Zenon
    <3> HIDE DEF r, v
    <3> QED
      BY <1>3, <2>3, <3>1 DEF r
  <2> QED
    BY <2>1, <2>2, <2>3
<1> QED
  BY <1>1, <1>2, <1>3

LEMMA MultitaskingHandleButtonCalm ==
  ASSUME NEW st, PtrGood(st), NEW button, NEW pressed \in BOOLEAN, NEW in
  PROVE  LET r == MultitaskingHandleButton(st, button, pressed, in) IN
         Calm(st, r) /\ r.buttons = st.buttons /\ (pressed => r = st)
BY CancelMultitaskingCalm, CalmSelf DEF MultitaskingHandleButton

LEMMA PreviewsHandleButtonCalm ==
  ASSUME NEW st, PtrGood(st), NEW button, NEW pressed \in BOOLEAN, NEW in
  PROVE  LET r == PreviewsHandleButton(st, button, pressed, in) IN
         Calm(st, r) /\ (pressed => r = st)
<1> DEFINE r == PreviewsHandleButton(st, button, pressed, in)
           away == IF in.away THEN SwitchWorkspace(st) ELSE st
<1>1. r \in {st, CancelPreviews(st), CancelPreviews(away)} /\ (pressed => r = st)
  BY DEF PreviewsHandleButton
<1>2. Calm(st, away)
  BY SwitchWorkspaceCalm, CalmSelf
<1> HIDE DEF r, away
<1>3. Calm(st, CancelPreviews(away))
  BY <1>2, CancelPreviewsCalm, CalmTrans DEF Calm
<1> QED
  BY <1>1, <1>3, CancelPreviewsCalm, CalmSelf DEF r

LEMMA SelectorPhaseCalm ==
  ASSUME NEW st, PtrGood(st), NEW x \in {"off", "up", "down"}
  PROVE  LET r == [st EXCEPT !.selector = x] IN
         /\ Calm(st, r) /\ r.selector = x /\ r.menu = st.menu /\ r.multitasking = st.multitasking
         /\ r.previews = st.previews /\ r.split = st.split /\ r.buttons = st.buttons
<1> DEFINE r == [st EXCEPT !.selector = x]
<1> HIDE DEF NoWindow, Windows, Surfaces
<1>1. st \in PtrType
  BY DEF PtrGood
<1>2. r \in PtrType
  BY <1>1 DEF PtrType
<1>3. /\ SameOutside(r, st) /\ SameClick(r, st) /\ SameSeat(r, st) /\ r.menu = st.menu
      /\ r.selector = x /\ r.multitasking = st.multitasking /\ r.previews = st.previews
      /\ r.split = st.split /\ r.split_window = st.split_window
  BY <1>1 DEF PtrType, SameOutside, SameClick, SameSeat
<1> HIDE DEF r
<1>4. Calm(st, r)
  BY <1>2, <1>3, ViewCalm DEF PtrGood, SameOutside
<1> QED
  BY <1>3, <1>4 DEF r, SameSeat

LEMMA SelectorHandleButtonCalm ==
  ASSUME NEW st, PtrGood(st), NEW button, NEW pressed \in BOOLEAN, NEW in
  PROVE  LET r == SelectorHandleButton(st, button, pressed, in) IN
         /\ Calm(st, r) /\ r.buttons = st.buttons
         /\ pressed => /\ Receiver(r) = Receiver(st) /\ TakesAll(r) = TakesAll(st)
                       /\ r.selector # "off" <=> st.selector # "off"
<1> DEFINE r == SelectorHandleButton(st, button, pressed, in)
<1>1. \/ r = st
      \/ ~pressed /\ r = CancelSelector(st)
      \/ ~pressed /\ r = [st EXCEPT !.selector = "up"]
      \/ pressed /\ st.selector # "off" /\ r = [st EXCEPT !.selector = "down"]
  BY DEF SelectorHandleButton
<1>2. CASE r = st
  BY <1>2, CalmSelf
<1>3. CASE ~pressed /\ r = CancelSelector(st)
  BY <1>3, CancelSelectorCalm
<1>4. CASE ~pressed /\ r = [st EXCEPT !.selector = "up"]
  <2> DEFINE v == [st EXCEPT !.selector = "up"]
  <2>1. Calm(st, v) /\ v.buttons = st.buttons
    BY SelectorPhaseCalm, Zenon
  <2> HIDE DEF r, v
  <2>2. r = v
    BY <1>4 DEF v
  <2> QED
    BY <1>4, <2>1, <2>2 DEF r
<1>5. CASE pressed /\ st.selector # "off" /\ r = [st EXCEPT !.selector = "down"]
  <2>1. /\ Calm(st, r) /\ r.selector = "down" /\ r.menu = st.menu
        /\ r.multitasking = st.multitasking /\ r.previews = st.previews /\ r.split = st.split
        /\ r.buttons = st.buttons
    <3> DEFINE v == [st EXCEPT !.selector = "down"]
    <3>1. /\ Calm(st, v) /\ v.selector = "down" /\ v.menu = st.menu
          /\ v.multitasking = st.multitasking /\ v.previews = st.previews /\ v.split = st.split
          /\ v.buttons = st.buttons
      BY SelectorPhaseCalm, Zenon
    <3>2. r = v
      BY <1>5, Zenon
    <3> HIDE DEF r, v
    <3> QED
      BY <3>1, <3>2
  <2> HIDE DEF r
  <2>2. Receiver(r) = Receiver(st)
    <3>1. (r.selector # "off") = (st.selector # "off") /\ r.locked = st.locked
      BY <1>5, <2>1 DEF Calm, SameOutside
    <3> QED
      BY <2>1, <3>1, Zenon DEF Receiver
  <2>3. TakesAll(r) = TakesAll(st)
    BY <1>5, <2>1 DEF TakesAll
  <2> QED
    BY <1>5, <2>1, <2>2, <2>3, Zenon DEF r
<1> QED
  BY <1>1, <1>2, <1>3, <1>4, <1>5

LEMMA HoverWindowsCalm ==
  ASSUME NEW st, PtrGood(st), NEW in, InputGood(st, in)
  PROVE  LET r == HoverWindows(st, in.hit) IN
         Calm(st, r) /\ SameViews(r, st) /\ (st.split = "inside" \/ r.split # "inside")
<1> DEFINE hit == in.hit
           r == HoverWindows(st, hit)
           c == CancelSplit(st)
           h == HoverMaximize(st, hit.window)
<1> HIDE DEF NoWindow, Windows, Surfaces
<1>1. \/ r = ClearFocus(c)
      \/ hit.part = "maximize" /\ r = ClearFocus(h)
      \/ SurfaceOf(hit) # NoWindow /\ r = NotifyEnter(c, SurfaceOf(hit))
  BY DEF HoverWindows
<1>2. Calm(st, c) /\ SameViews(c, st) /\ c.split = "off"
  BY CancelSplitCalm
<1> HIDE DEF r, c
<1>3. CASE r = ClearFocus(c)
  BY <1>2, <1>3, ClearFocusCalm, CalmTrans DEF Calm, SameViews, r
<1>4. CASE hit.part = "maximize" /\ r = ClearFocus(h)
  <2>1. hit.window \in st.mapped
    BY <1>4 DEF InputGood, SsdParts
  <2>2. Calm(st, h) /\ SameViews(h, st) /\ (st.split = "inside" \/ h.split # "inside")
    BY <2>1, HoverMaximizeCalm
  <2> HIDE DEF h
  <2> QED
    BY <1>4, <2>2, ClearFocusCalm, CalmTrans DEF Calm, SameViews, r
<1>5. CASE SurfaceOf(hit) # NoWindow /\ r = NotifyEnter(c, SurfaceOf(hit))
  <2>1. SurfaceOf(hit) = hit.window /\ hit.window \in Surfaces /\ (st.locked => hit.window \notin Windows)
    BY <1>5, Windowed DEF SurfaceOf, InputGood, PtrGood, PtrType
  <2>2. c.locked = st.locked /\ PtrGood(c)
    BY <1>2 DEF Calm, SameOutside
  <2>3. Calm(c, r) /\ SameViews(r, c) /\ r.split = c.split
    BY <1>5, <2>1, <2>2, NotifyEnterCalm
  <2> QED
    BY <1>2, <2>3, CalmTrans DEF SameViews, r
<1> QED
  BY <1>1, <1>3, <1>4, <1>5

LEMMA MotionCalm ==
  ASSUME NEW st, PtrGood(st), NEW in, InputGood(st, in)
  PROVE  LET r == ProcessCursorMotion(st, in) IN
         Calm(st, r) /\ SameViews(r, st) /\ (st.menu # NoWindow => r.split = st.split)
<1> DEFINE r == ProcessCursorMotion(st, in)
           p == SplitHandleMotion(st, in)
<1>1. \/ r = ClearFocus(st)
      \/ st.menu = NoWindow /\ r \in {ClearFocus(p), CancelSplit(p), HoverWindows(p, in.hit)}
  BY DEF ProcessCursorMotion
<1>2. Calm(st, p) /\ SameViews(p, st) /\ InputGood(p, in)
  BY SplitHandleMotionCalm, InputKept
<1> HIDE DEF r, p
<1>3. CASE r = ClearFocus(st)
  BY <1>3, ClearFocusCalm DEF r
<1>4. CASE st.menu = NoWindow /\ r \in {ClearFocus(p), CancelSplit(p), HoverWindows(p, in.hit)}
  <2>1. Calm(p, r) /\ SameViews(r, p)
    BY <1>2, <1>4, ClearFocusCalm, CancelSplitCalm, HoverWindowsCalm DEF Calm
  <2> QED
    BY <1>2, <1>4, <2>1, CalmTrans DEF SameViews, r
<1> QED
  BY <1>1, <1>3, <1>4

LEMMA MenuActivateCalm ==
  ASSUME NEW st, PtrGood(st), NEW in, InputGood(st, in)
  PROVE  LET r == MenuActivate(st, in) IN Calm(st, r) /\ r.menu = NoWindow
<1> DEFINE c == CancelMenu(st)
           b == BeginInteractive(c, st.menu, in.action)
           r == MenuActivate(st, in)
<1>1. \/ r = c
      \/ r = ClearFocus(c)
      \/ in.action \in {"move", "resize", "refused"} /\ r = ProcessCursorMotion(b, in)
  BY DEF MenuActivate, HandleWindowMenuAction, Minimize
<1>2. Calm(st, c) /\ c.menu = NoWindow /\ InputGood(c, in) /\ PtrGood(c)
  BY CancelMenuCalm, InputKept DEF Calm
<1> HIDE DEF r, c
<1>3. CASE r = c
  BY <1>2, <1>3 DEF r
<1>4. CASE r = ClearFocus(c)
  BY <1>2, <1>4, ClearFocusCalm, CalmTrans DEF SameViews, r
<1>5. CASE in.action \in {"move", "resize", "refused"} /\ r = ProcessCursorMotion(b, in)
  <2>1. Calm(c, b) /\ SameViews(b, c)
    BY <1>2, <1>5, BeginInteractiveCalm
  <2> HIDE DEF b
  <2>2. Calm(b, r) /\ SameViews(r, b)
    BY <1>2, <1>5, <2>1, MotionCalm, InputKept DEF Calm
  <2> QED
    BY <1>2, <2>1, <2>2, CalmTrans DEF SameViews, r
<1> QED
  BY <1>1, <1>3, <1>4, <1>5

\* A press leaves the menu as it is, or dismisses it.
LEMMA MenuHandleButtonCalm ==
  ASSUME NEW st, PtrGood(st), NEW button, NEW pressed \in BOOLEAN, NEW in, InputGood(st, in)
  PROVE  LET r == MenuHandleButton(st, button, pressed, in) IN
         /\ Calm(st, r)
         /\ pressed => /\ r.menu \in {st.menu, NoWindow} /\ r.multitasking = st.multitasking
                       /\ r.previews = st.previews /\ r.selector = st.selector
                       /\ r.split = st.split /\ r.buttons = st.buttons
<1> DEFINE r == MenuHandleButton(st, button, pressed, in)
           p == st.menu_pressed \/ in.on = "item"
<1>1. \/ r = CancelMenu(st)
      \/ r = st
      \/ r = [st EXCEPT !.menu_pressed = p]
      \/ ~pressed /\ r = MenuActivate(st, in)
      \/ r = [st EXCEPT !.menu_pressed = FALSE]
  BY DEF MenuHandleButton, PtrGood, PtrType
<1>2. CASE r = CancelMenu(st)
  BY <1>2, CancelMenuCalm
<1>3. CASE r = st
  BY <1>3, CalmSelf
<1>4. CASE r = [st EXCEPT !.menu_pressed = p]
  <2> DEFINE v == [st EXCEPT !.menu_pressed = p]
  <2>1. p \in BOOLEAN
    OBVIOUS
  <2> HIDE DEF p
  <2>2. Calm(st, v) /\ SameViews(v, st) /\ v.split = st.split /\ v.buttons = st.buttons
    BY <2>1, MenuPressedCalm, Zenon
  <2> HIDE DEF r, v
  <2>3. r = v
    BY <1>4 DEF v
  <2> QED
    BY <2>2, <2>3 DEF SameViews, r
<1>5. CASE ~pressed /\ r = MenuActivate(st, in)
  BY <1>5, MenuActivateCalm
<1>6. CASE r = [st EXCEPT !.menu_pressed = FALSE]
  BY <1>6, MenuPressedCalm, Zenon DEF SameViews
<1> QED
  BY <1>1, <1>2, <1>3, <1>4, <1>5, <1>6

(***************************************************************************)
(* What the seat is told of a button, and what the compositor keeps.       *)
(***************************************************************************)
\* The seat is told: a press is counted at the surface with the pointer.
Told(st, r, button, pressed) ==
  /\ PtrGood(r) /\ SameOutside(r, st) /\ SameViews(r, st) /\ r.split = st.split
  /\ r.suppress = st.suppress /\ r.pending_menu = st.pending_menu
  /\ r.kept = st.kept \ {button}
  /\ r.stray => st.stray \/ (~pressed /\ button \in st.kept)
  /\ \A b \in Buttons \ {button} : r.buttons[b] = st.buttons[b]
  /\ pressed => r.buttons[button] <= st.buttons[button] + 1
  /\ ~pressed /\ st.buttons[button] <= 1 => r.buttons[button] = 0

LEMMA NotifyButtonGood ==
  ASSUME NEW st, PtrGood(st), NEW button \in Buttons, NEW pressed \in BOOLEAN,
         pressed => st.buttons[button] < MaxPressed
  PROVE  Told(st, NotifyButton(st, button, pressed), button, pressed)
<1> DEFINE r == NotifyButton(st, button, pressed)
           n == IF pressed THEN st.buttons[button] + 1
                ELSE IF st.buttons[button] > 0 THEN st.buttons[button] - 1 ELSE 0
           u == [st.buttons EXCEPT ![button] = n]
           f == ~pressed /\ button \in st.kept
<1> HIDE DEF NoWindow, Windows, Surfaces
<1>1. /\ st \in PtrType /\ st.buttons \in [Buttons -> 0 .. MaxPressed]
      /\ st.kept \ {button} \in SUBSET Buttons /\ MaxPressed \in Nat
      /\ st.buttons[button] \in 0 .. MaxPressed
  BY PointerAssumption DEF PtrGood, PtrType
<1>2. /\ n \in 0 .. MaxPressed /\ (pressed => n = st.buttons[button] + 1)
      /\ (~pressed /\ st.buttons[button] <= 1 => n = 0)
  BY <1>1
<1> HIDE DEF n
<1>3. /\ u \in [Buttons -> 0 .. MaxPressed] /\ u[button] = n
      /\ \A b \in Buttons \ {button} : u[b] = st.buttons[b]
  BY <1>1, <1>2
<1>4. CASE st.focus = NoWindow
  <2>1. r = [st EXCEPT !.kept = st.kept \ {button}]
    BY <1>4 DEF NotifyButton
  <2> HIDE DEF r
  <2>2. r \in PtrType
    BY <1>1, <2>1 DEF PtrType
  <2>3. /\ SameOutside(r, st) /\ SameViews(r, st) /\ SameSeat(r, st) /\ r.split = st.split
        /\ r.suppress = st.suppress /\ r.pending_menu = st.pending_menu
        /\ r.kept = st.kept \ {button} /\ r.stray = st.stray /\ r.split_window = st.split_window
    BY <1>1, <2>1 DEF PtrType, SameOutside, SameViews, SameSeat
  <2>4. PtrGood(r) /\ r.buttons[button] = 0 /\ st.buttons[button] = 0
    BY <1>4, <2>2, <2>3 DEF PtrGood, SameOutside, SameViews, SameSeat
  <2> QED
    BY <2>3, <2>4 DEF r, SameSeat, Told
<1>5. CASE st.focus # NoWindow
  <2>0. f \in BOOLEAN
    OBVIOUS
  <2>1. r = [st EXCEPT !.buttons = u, !.stray = f, !.kept = st.kept \ {button}]
    BY <1>5, Zenon DEF NotifyButton, n
  <2> HIDE DEF r, u, f
  <2>2. r \in PtrType
    BY <1>1, <1>3, <2>0, <2>1, ZenonT(30) DEF PtrType
  <2>3. /\ SameOutside(r, st) /\ SameViews(r, st) /\ r.split = st.split
        /\ r.cursor_mode_ = st.cursor_mode_ /\ r.grabbed = st.grabbed
        /\ r.focus = st.focus /\ r.buttons = u
        /\ r.suppress = st.suppress /\ r.pending_menu = st.pending_menu
        /\ r.kept = st.kept \ {button} /\ r.stray = f /\ r.split_window = st.split_window
    BY <1>1, <2>1 DEF PtrType, SameOutside, SameViews
  <2>4. PtrGood(r)
    BY <1>5, <2>2, <2>3 DEF PtrGood, SameOutside, SameViews
  <2>5. /\ pressed => r.buttons[button] <= st.buttons[button] + 1
        /\ ~pressed /\ st.buttons[button] <= 1 => r.buttons[button] = 0
        /\ \A b \in Buttons \ {button} : r.buttons[b] = st.buttons[b]
    BY <1>1, <1>2, <1>3, <2>3
  <2>6. r.stray => ~pressed /\ button \in st.kept
    BY <2>3, Zenon DEF f
  <2> QED
    BY <2>3, <2>4, <2>5, <2>6 DEF r, Told
<1> QED
  BY <1>4, <1>5

LEMMA KeepGood ==
  ASSUME NEW st, PtrGood(st), NEW button \in Buttons, NEW pressed \in BOOLEAN
  PROVE  LET r == Keep(st, button, pressed) IN
         /\ PtrGood(r) /\ SameOutside(r, st) /\ SameViews(r, st) /\ SameSeat(r, st)
         /\ r.split = st.split /\ r.stray = st.stray
         /\ r.suppress = st.suppress /\ r.pending_menu = st.pending_menu
         /\ r.kept = IF pressed THEN st.kept \cup {button} ELSE st.kept \ {button}
<1> DEFINE k == IF pressed THEN st.kept \cup {button} ELSE st.kept \ {button}
           r == [st EXCEPT !.kept = k]
<1> HIDE DEF NoWindow, Windows, Surfaces
<1>1. st \in PtrType /\ k \in SUBSET Buttons
  BY DEF PtrGood, PtrType
<1>2. Keep(st, button, pressed) = r
  BY DEF Keep
<1> HIDE DEF k
<1>3. r \in PtrType
  BY <1>1 DEF PtrType
<1>4. /\ SameOutside(r, st) /\ SameViews(r, st) /\ SameSeat(r, st)
      /\ r.split = st.split /\ r.split_window = st.split_window /\ r.stray = st.stray
      /\ r.suppress = st.suppress /\ r.pending_menu = st.pending_menu /\ r.kept = k
  BY <1>1 DEF PtrType, SameOutside, SameViews, SameSeat
<1> HIDE DEF r
<1>5. PtrGood(r)
  BY <1>3, <1>4 DEF PtrGood, SameOutside, SameViews, SameSeat
<1> QED
  BY <1>2, <1>4, <1>5 DEF k

\* A release that is to come is suppressed.
LEMMA SuppressGood ==
  ASSUME NEW st, PtrGood(st), NEW x \in BOOLEAN
  PROVE  LET r == [st EXCEPT !.suppress = x] IN
         /\ PtrGood(r) /\ SameOutside(r, st) /\ SameViews(r, st) /\ SameSeat(r, st)
         /\ r.split = st.split /\ r.stray = st.stray /\ r.kept = st.kept
         /\ r.suppress = x /\ r.pending_menu = st.pending_menu
<1> DEFINE r == [st EXCEPT !.suppress = x]
<1> HIDE DEF NoWindow, Windows, Surfaces
<1>1. st \in PtrType
  BY DEF PtrGood, PtrType
<1>2. r \in PtrType
  BY <1>1 DEF PtrType
<1>3. /\ SameOutside(r, st) /\ SameViews(r, st) /\ SameSeat(r, st)
      /\ r.split = st.split /\ r.split_window = st.split_window /\ r.stray = st.stray
      /\ r.suppress = x /\ r.pending_menu = st.pending_menu /\ r.kept = st.kept
  BY <1>1 DEF PtrType, SameOutside, SameViews, SameSeat
<1> HIDE DEF r
<1>4. PtrGood(r)
  BY <1>2, <1>3 DEF PtrGood, SameOutside, SameViews, SameSeat
<1> QED
  BY <1>3, <1>4 DEF r

\* A release that is to come opens the menu of a window.
LEMMA PendingGood ==
  ASSUME NEW st, PtrGood(st), NEW w \in st.mapped \cup {NoWindow}
  PROVE  LET r == [st EXCEPT !.pending_menu = w] IN
         /\ PtrGood(r) /\ SameOutside(r, st) /\ SameViews(r, st) /\ SameSeat(r, st)
         /\ r.split = st.split /\ r.stray = st.stray /\ r.kept = st.kept
         /\ r.suppress = st.suppress /\ r.pending_menu = w
<1> DEFINE r == [st EXCEPT !.pending_menu = w]
<1> HIDE DEF NoWindow, Windows, Surfaces
<1>1. st \in PtrType /\ w \in Windows \cup {NoWindow}
  BY DEF PtrGood, PtrType
<1>2. r \in PtrType
  BY <1>1 DEF PtrType
<1>3. /\ SameOutside(r, st) /\ SameViews(r, st) /\ SameSeat(r, st)
      /\ r.split = st.split /\ r.split_window = st.split_window /\ r.stray = st.stray
      /\ r.suppress = st.suppress /\ r.pending_menu = w /\ r.kept = st.kept
  BY <1>1 DEF PtrType, SameOutside, SameViews, SameSeat
<1> HIDE DEF r
<1>4. PtrGood(r)
  BY <1>2, <1>3 DEF PtrGood, SameOutside, SameViews, SameSeat
<1> QED
  BY <1>3, <1>4 DEF r

\* Nothing more is expected of a release.
LEMMA ForgetPressGood ==
  ASSUME NEW st, PtrGood(st)
  PROVE  LET r == [st EXCEPT !.pending_menu = NoWindow, !.suppress = FALSE] IN
         /\ PtrGood(r) /\ SameOutside(r, st) /\ SameViews(r, st) /\ SameSeat(r, st)
         /\ r.split = st.split /\ r.stray = st.stray /\ r.kept = st.kept
         /\ r.suppress = FALSE /\ r.pending_menu = NoWindow
<1> DEFINE r == [st EXCEPT !.pending_menu = NoWindow, !.suppress = FALSE]
<1> HIDE DEF NoWindow, Windows, Surfaces
<1>1. st \in PtrType
  BY DEF PtrGood, PtrType
<1>2. r \in PtrType
  BY <1>1, Zenon DEF PtrType
<1>3. /\ SameOutside(r, st) /\ SameViews(r, st) /\ SameSeat(r, st)
      /\ r.split = st.split /\ r.split_window = st.split_window /\ r.stray = st.stray
      /\ r.suppress = FALSE /\ r.pending_menu = NoWindow /\ r.kept = st.kept
  BY <1>1 DEF PtrType, SameOutside, SameViews, SameSeat
<1> HIDE DEF r
<1>4. PtrGood(r)
  BY <1>2, <1>3 DEF PtrGood, SameOutside, SameViews, SameSeat
<1> QED
  BY <1>3, <1>4 DEF r

\* A press that the compositor kept, with its release to be suppressed.
Suppressed(st, r, button) ==
  /\ PtrGood(r) /\ SameOutside(r, st) /\ SameViews(r, st) /\ r.split \in {st.split, "off"}
  /\ r.suppress /\ r.kept = st.kept /\ r.stray = st.stray
  /\ r.buttons = st.buttons \/ r.buttons = NoButtons
  /\ r.pending_menu \in {st.pending_menu, NoWindow} \/ button = "right"

LEMMA SuppressedCalm ==
  ASSUME NEW st, NEW a, NEW r, NEW button, Suppressed(st, a, button), Calm(a, r), SameViews(r, a),
         r.split \in {a.split, "off"}
  PROVE  Suppressed(st, r, button)
BY DEF Suppressed, Calm, SameOutside, SameClick, SameViews

LEMMA SsdPressGood ==
  ASSUME NEW st, PtrGood(st), NEW button \in Buttons, NEW in, InputGood(st, in),
         in.hit.part \in SsdParts
  PROVE  Suppressed(st, SsdPress(st, button, in), button)
<1> DEFINE r == SsdPress(st, button, in)
           w == in.hit.window
           h == [st EXCEPT !.suppress = TRUE]
           m == IF button = "right" /\ in.hit.part = "titlebar" THEN w ELSE NoWindow
<1> HIDE DEF NoWindow, Windows, Surfaces
<1>1. \/ button # "left" /\ r = [h EXCEPT !.pending_menu = m]
      \/ r \in {h, ClearFocus(h), CancelSplit(h), ResetCursorMode(h), BeginInteractive(h, w, "move"),
                BeginInteractive(h, w, in.resize)}
  BY DEF SsdPress, SsdParts, Minimize, EndInteractive
<1>2. /\ PtrGood(h) /\ SameOutside(h, st) /\ SameViews(h, st) /\ SameSeat(h, st)
      /\ h.split = st.split /\ h.stray = st.stray /\ h.kept = st.kept
      /\ h.suppress = TRUE /\ h.pending_menu = st.pending_menu
  BY SuppressGood, Zenon
<1> HIDE DEF h
<1>3. Suppressed(st, h, button)
  BY <1>2 DEF Suppressed, SameSeat
<1>4. CASE button # "left" /\ r = [h EXCEPT !.pending_menu = m]
  <2>1. m \in h.mapped \cup {NoWindow} /\ (m = NoWindow \/ button = "right")
    BY <1>2 DEF InputGood, SameOutside
  <2> HIDE DEF m
  <2>2. /\ PtrGood(r) /\ SameOutside(r, h) /\ SameViews(r, h) /\ SameSeat(r, h)
        /\ r.split = h.split /\ r.stray = h.stray /\ r.kept = h.kept
        /\ r.suppress = h.suppress /\ r.pending_menu = m
    <3> DEFINE v == [h EXCEPT !.pending_menu = m]
    <3>1. /\ PtrGood(v) /\ SameOutside(v, h) /\ SameViews(v, h) /\ SameSeat(v, h)
          /\ v.split = h.split /\ v.stray = h.stray /\ v.kept = h.kept
          /\ v.suppress = h.suppress /\ v.pending_menu = m
      BY <1>2, <2>1, PendingGood, Zenon
    <3>2. r = v
      BY <1>4
    <3> HIDE DEF v, r
    <3> QED
      BY <3>1, <3>2
  <2> HIDE DEF r
  <2> QED
    BY <1>3, <2>1, <2>2 DEF Suppressed, SameOutside, SameViews, SameSeat, r
<1>5. CASE r \in {h, ClearFocus(h), CancelSplit(h), ResetCursorMode(h),
                  BeginInteractive(h, w, "move"), BeginInteractive(h, w, in.resize)}
  <2>1. Calm(h, r) /\ SameViews(r, h) /\ r.split \in {h.split, "off"}
    <3>1. Calm(h, h) /\ SameViews(h, h)
      BY <1>2, CalmSelf DEF SameViews
    <3>2. in.resize \in {"move", "resize", "refused"}
      BY DEF InputGood
    <3> HIDE DEF r
    <3> QED
      BY <1>2, <1>5, <3>1, <3>2, ClearFocusCalm, CancelSplitCalm, ResetCalm, BeginInteractiveCalm
  <2> HIDE DEF r
  <2> QED
    BY <1>3, <2>1, SuppressedCalm DEF r
<1> QED
  BY <1>1, <1>4, <1>5

\* A press on the windows is suppressed, or told to the seat.
LEMMA OnPressGood ==
  ASSUME NEW st, PtrGood(st), NEW button \in Buttons, NEW in, InputGood(st, in)
  PROVE  \/ OnPress(st, button, in) = NotifyButton(st, button, TRUE)
         \/ \E a : Suppressed(st, a, button) /\ OnPress(st, button, in) = Keep(a, button, TRUE)
<1> DEFINE r == OnPress(st, button, in)
           h == [st EXCEPT !.suppress = TRUE]
           e == ResetCursorMode(st)
           eh == [e EXCEPT !.suppress = TRUE]
           b == BeginInteractive(h, in.hit.csd, in.resize)
<1> HIDE DEF NoWindow, Windows, Surfaces
<1>1. \/ r = Keep(eh, button, TRUE)
      \/ r = Keep(b, button, TRUE)
      \/ in.hit.part \in SsdParts /\ r = Keep(SsdPress(st, button, in), button, TRUE)
      \/ r = Keep(ResetCursorMode(h), button, TRUE)
      \/ r = NotifyButton(st, button, TRUE)
  BY Zenon DEF OnPress, SurfacePress, EndInteractive
<1>2. Suppressed(st, h, button) /\ PtrGood(h)
  <2>1. /\ PtrGood(h) /\ SameOutside(h, st) /\ SameViews(h, st) /\ SameSeat(h, st)
        /\ h.split = st.split /\ h.stray = st.stray /\ h.kept = st.kept
        /\ h.suppress = TRUE /\ h.pending_menu = st.pending_menu
    BY SuppressGood, Zenon
  <2> HIDE DEF h
  <2> QED
    BY <2>1 DEF Suppressed, SameSeat
<1>3. Suppressed(st, eh, button)
  <2>1. Calm(st, e) /\ SameViews(e, st) /\ e.split = st.split
    BY ResetCalm
  <2> HIDE DEF e
  <2>2. /\ PtrGood(eh) /\ SameOutside(eh, e) /\ SameViews(eh, e) /\ SameSeat(eh, e)
        /\ eh.split = e.split /\ eh.stray = e.stray /\ eh.kept = e.kept
        /\ eh.suppress = TRUE /\ eh.pending_menu = e.pending_menu
    <3>1. PtrGood(e)
      BY <2>1 DEF Calm
    <3> QED
      BY <3>1, SuppressGood, Zenon
  <2> HIDE DEF eh
  <2> QED
    BY <2>1, <2>2 DEF Suppressed, SameSeat, Calm, SameOutside, SameClick, SameViews
<1> HIDE DEF h, eh
<1>4. Suppressed(st, b, button)
  <2>1. in.resize \in {"move", "resize", "refused"}
    BY DEF InputGood
  <2>2. Calm(h, b) /\ SameViews(b, h) /\ b.split = h.split
    BY <1>2, <2>1, BeginInteractiveCalm
  <2> HIDE DEF b
  <2> QED
    BY <1>2, <2>2, SuppressedCalm
<1>5. Suppressed(st, ResetCursorMode(h), button)
  BY <1>2, ResetCalm, SuppressedCalm
<1> HIDE DEF r, b
<1> QED
  BY <1>1, <1>3, <1>4, <1>5, SsdPressGood, Zenon DEF r

(***************************************************************************)
(* The button events.                                                      *)
(***************************************************************************)
\* What a release may do, and what it does after a clean press.
Released(st, r, button) ==
  /\ PtrGood(r) /\ SameOutside(r, st) /\ r.kept = st.kept \ {button}
  /\ r.stray => st.stray \/ button \in st.kept
  /\ \A c \in Buttons \ {button} : r.buttons[c] \in {0, st.buttons[c]}

Over(r, button) ==
  ~r.stray /\ ~r.suppress /\ r.pending_menu = NoWindow /\ r.buttons[button] = 0

LEMMA ReleasedCalm ==
  ASSUME NEW st, NEW a, NEW r, NEW button \in Buttons, Released(st, a, button), Calm(a, r)
  PROVE  /\ Released(st, r, button)
         /\ Over(a, button) => Over(r, button)
<1>1. \A c \in Buttons : r.buttons[c] \in {0, a.buttons[c]}
  BY Windowed DEF Calm, SameClick
<1> QED
  BY <1>1 DEF Released, Over, Calm, SameOutside, SameClick

\* A release that a view takes.
LEMMA ReleaseKept ==
  ASSUME NEW st, PtrGood(st), NEW a, Calm(st, a), NEW button \in Buttons
  PROVE  LET r == Keep(a, button, FALSE) IN
         /\ Released(st, r, button)
         /\ ~st.stray /\ ~st.suppress /\ st.pending_menu = NoWindow /\ st.buttons[button] = 0
              => Over(r, button)
<1> DEFINE r == Keep(a, button, FALSE)
<1>1. /\ PtrGood(r) /\ SameOutside(r, a) /\ SameSeat(r, a) /\ r.stray = a.stray
      /\ r.suppress = a.suppress /\ r.pending_menu = a.pending_menu
      /\ r.kept = a.kept \ {button}
  BY KeepGood, Zenon DEF Calm
<1> HIDE DEF r
<1>2. \A c \in Buttons : r.buttons[c] \in {0, st.buttons[c]}
  BY <1>1, Windowed DEF Calm, SameClick, SameSeat
<1> QED
  BY <1>1, <1>2, Zenon DEF Released, Over, Calm, SameOutside, SameClick, r

\* A release on the windows.
LEMMA OnReleaseGood ==
  ASSUME NEW st, PtrGood(st), ~st.stray, NEW button \in Buttons
  PROVE  LET r == OnRelease(st, button) IN
         /\ Released(st, r, button)
         /\ \/ /\ ~st.suppress /\ st.pending_menu = NoWindow /\ st.buttons[button] <= 1
               /\ button \notin st.kept
            \/ /\ st.suppress /\ st.buttons[button] = 0
               /\ st.pending_menu # NoWindow => button = "right"
            => Over(r, button)
<1> DEFINE r == OnRelease(st, button)
           f == [st EXCEPT !.pending_menu = NoWindow, !.suppress = FALSE]
           h == [st EXCEPT !.suppress = FALSE]
<1> HIDE DEF NoWindow, Windows, Surfaces
<1>1. \/ /\ button = "right" /\ st.pending_menu # NoWindow
         /\ r = ShowWindowMenu(ResetCursorMode(Keep(f, button, FALSE)), st.pending_menu)
      \/ /\ ~(button = "right" /\ st.pending_menu # NoWindow) /\ st.suppress
         /\ r = ResetCursorMode(Keep(h, button, FALSE))
      \/ /\ ~(button = "right" /\ st.pending_menu # NoWindow) /\ ~st.suppress
         /\ r = ResetCursorMode(NotifyButton(st, button, FALSE))
  BY Zenon DEF OnRelease, EndInteractive
<1> HIDE DEF r
<1>2. CASE /\ button = "right" /\ st.pending_menu # NoWindow
           /\ r = ShowWindowMenu(ResetCursorMode(Keep(f, button, FALSE)), st.pending_menu)
  <2> DEFINE k == Keep(f, button, FALSE)
             e == ResetCursorMode(k)
  <2>1. /\ PtrGood(f) /\ SameOutside(f, st) /\ SameViews(f, st) /\ SameSeat(f, st)
        /\ f.split = st.split /\ f.stray = st.stray /\ f.kept = st.kept
        /\ f.suppress = FALSE /\ f.pending_menu = NoWindow
    BY ForgetPressGood, Zenon
  <2> HIDE DEF f
  <2>2. /\ Released(f, k, button)
        /\ ~f.stray /\ ~f.suppress /\ f.pending_menu = NoWindow /\ f.buttons[button] = 0 => Over(k, button)
    BY <2>1, ReleaseKept, CalmSelf, Zenon
  <2>3. Released(st, k, button) /\ (st.buttons[button] = 0 => Over(k, button))
    BY <2>1, <2>2, Zenon DEF Released, SameOutside, SameSeat
  <2> HIDE DEF k
  <2>4. Calm(k, e)
    BY <2>3, ResetCalm DEF Released
  <2> HIDE DEF e
  <2>5. Calm(e, r)
    BY <1>2, <2>4, ShowWindowMenuCalm, Zenon DEF Calm, k, e
  <2>6. Released(st, r, button) /\ (Over(k, button) => Over(r, button))
    BY <2>3, <2>4, <2>5, CalmTrans, ReleasedCalm
  <2>7. st.buttons[button] = 0 => Over(r, button)
    BY <2>3, <2>6
  <2> QED
    BY <1>2, <2>6, <2>7, Zenon DEF r
<1>3. CASE /\ ~(button = "right" /\ st.pending_menu # NoWindow) /\ st.suppress
           /\ r = ResetCursorMode(Keep(h, button, FALSE))
  <2> DEFINE k == Keep(h, button, FALSE)
  <2>1. /\ PtrGood(h) /\ SameOutside(h, st) /\ SameViews(h, st) /\ SameSeat(h, st)
        /\ h.split = st.split /\ h.stray = st.stray /\ h.kept = st.kept
        /\ h.suppress = FALSE /\ h.pending_menu = st.pending_menu
    BY SuppressGood, Zenon
  <2> HIDE DEF h
  <2>2. /\ Released(h, k, button)
        /\ ~h.stray /\ ~h.suppress /\ h.pending_menu = NoWindow /\ h.buttons[button] = 0 => Over(k, button)
    BY <2>1, ReleaseKept, CalmSelf, Zenon
  <2>3. /\ Released(st, k, button)
        /\ st.pending_menu = NoWindow /\ st.buttons[button] = 0 => Over(k, button)
    BY <2>1, <2>2, Zenon DEF Released, SameOutside, SameSeat
  <2> HIDE DEF k
  <2>4. Calm(k, r)
    BY <1>3, <2>3, ResetCalm, Zenon DEF Released, k
  <2>5. Released(st, r, button) /\ (Over(k, button) => Over(r, button))
    BY <2>3, <2>4, ReleasedCalm
  <2> QED
    BY <1>3, <2>3, <2>5, Zenon DEF r
<1>4. CASE /\ ~(button = "right" /\ st.pending_menu # NoWindow) /\ ~st.suppress
           /\ r = ResetCursorMode(NotifyButton(st, button, FALSE))
  <2> DEFINE n == NotifyButton(st, button, FALSE)
  <2>1. Told(st, n, button, FALSE)
    BY NotifyButtonGood, Zenon
  <2> HIDE DEF n
  <2>2. /\ Released(st, n, button)
        /\ st.pending_menu = NoWindow /\ st.buttons[button] <= 1 /\ button \notin st.kept
             => Over(n, button)
    BY <1>4, <2>1 DEF Released, Over, Told
  <2>3. Calm(n, r)
    BY <1>4, <2>1, ResetCalm, Zenon DEF n, Told
  <2>4. Released(st, r, button) /\ (Over(n, button) => Over(r, button))
    BY <2>2, <2>3, ReleasedCalm
  <2> QED
    BY <1>4, <2>2, <2>4, Zenon DEF r
<1> QED
  BY <1>1, <1>2, <1>3, <1>4, Zenon

LEMMA InputSame ==
  ASSUME NEW st, NEW r, NEW in, SameOutside(r, st), InputGood(st, in) PROVE InputGood(r, in)
BY DEF SameOutside, InputGood

\* A release goes where its press went.
LEMMA ReleaseGood ==
  ASSUME NEW st, PtrGood(st), ~st.stray, NEW button \in Buttons, NEW in, InputGood(st, in)
  PROVE  LET r == OnCursorButton(st, button, FALSE, in) IN
         Released(st, r, button) /\ (Clean(st, button) => Over(r, button))
<1> DEFINE r == OnCursorButton(st, button, FALSE, in)
           views == ~st.locked /\ TakesAll(st)
<1> HIDE DEF NoWindow, Windows, Surfaces
<1>1. views /\ Clean(st, button) =>
        ~st.suppress /\ st.pending_menu = NoWindow /\ st.buttons[button] = 0
  BY Zenon DEF Clean
<1>2. CASE st.locked
  <2>1. r = NotifyButton(st, button, FALSE)
    BY <1>2 DEF OnCursorButton
  <2>2. Told(st, r, button, FALSE)
    BY <2>1, NotifyButtonGood, Zenon
  <2> HIDE DEF r
  <2>3. Clean(st, button) =>
          /\ ~st.suppress /\ st.pending_menu = NoWindow /\ st.buttons[button] <= 1
          /\ button \notin st.kept
    BY <1>2, Zenon DEF Clean
  <2> QED
    BY <2>2, <2>3, Zenon DEF Told, Released, Over, r
<1>3. CASE ~st.locked /\ st.menu # NoWindow
  <2> DEFINE m == MenuHandleButton(st, button, FALSE, in)
             k == Keep(m, button, FALSE)
             x == k.suppress \/ FALSE
             s == [k EXCEPT !.suppress = x]
  <2>1. r = IF k.menu # NoWindow THEN k ELSE ProcessCursorMotion([k EXCEPT !.suppress = @ \/ FALSE], in)
    BY <1>3 DEF OnCursorButton
  <2>2. Calm(st, m)
    BY MenuHandleButtonCalm, Zenon
  <2> HIDE DEF m
  <2>3. Released(st, k, button) /\ (Clean(st, button) => Over(k, button))
    BY <1>1, <1>3, <2>2, ReleaseKept, Zenon DEF TakesAll
  <2> HIDE DEF k
  <2>4. k \in PtrType /\ PtrGood(k) /\ x \in BOOLEAN /\ x = k.suppress
    BY <2>3 DEF Released, PtrGood, PtrType
  <2>5. r = k \/ r = ProcessCursorMotion(s, in)
    BY <2>1, <2>4, Zenon DEF PtrType
  <2>6. /\ PtrGood(s) /\ SameOutside(s, k) /\ SameViews(s, k) /\ SameSeat(s, k)
        /\ s.split = k.split /\ s.stray = k.stray /\ s.kept = k.kept
        /\ s.suppress = x /\ s.pending_menu = k.pending_menu
    <3> HIDE DEF x
    <3> QED
      BY <2>4, SuppressGood, Zenon
  <2> HIDE DEF s, x, r
  <2>7. Released(st, s, button) /\ (Over(k, button) => Over(s, button))
    BY <2>3, <2>4, <2>6 DEF Released, Over, SameOutside, SameSeat
  <2>8. Calm(s, ProcessCursorMotion(s, in))
    <3>1. SameOutside(s, st)
      BY <2>7 DEF Released
    <3> QED
      BY <2>6, <3>1, InputSame, MotionCalm
  <2>9. /\ Released(st, ProcessCursorMotion(s, in), button)
        /\ Over(s, button) => Over(ProcessCursorMotion(s, in), button)
    BY <2>7, <2>8, ReleasedCalm
  <2> QED
    BY <2>3, <2>5, <2>7, <2>9, Zenon DEF r
<1>4. CASE ~st.locked /\ st.menu = NoWindow /\ TakesAll(st)
  <2>1. \/ st.split = "inside" /\ r = Keep(SplitHandleButton(st, button, FALSE, in), button, FALSE)
        \/ r = Keep(MultitaskingHandleButton(st, button, FALSE, in), button, FALSE)
        \/ r = Keep(PreviewsHandleButton(st, button, FALSE, in), button, FALSE)
        \/ r = Keep(SelectorHandleButton(st, button, FALSE, in), button, FALSE)
        \/ r = ProcessCursorMotion(Keep(SelectorHandleButton(st, button, FALSE, in), button, FALSE), in)
    BY <1>4, Zenon DEF OnCursorButton, TakesAll
  <2>2. PICK a : Calm(st, a) /\ (\/ r = Keep(a, button, FALSE)
                                 \/ r = ProcessCursorMotion(Keep(a, button, FALSE), in))
    <3> HIDE DEF r
    <3> QED
      BY <2>1, SplitHandleButtonCalm, MultitaskingHandleButtonCalm, PreviewsHandleButtonCalm,
         SelectorHandleButtonCalm, Zenon
  <2> DEFINE k == Keep(a, button, FALSE)
  <2>3. Released(st, k, button) /\ (Clean(st, button) => Over(k, button))
    BY <1>1, <1>4, <2>2, ReleaseKept, Zenon
  <2>4. r = k \/ r = ProcessCursorMotion(k, in)
    BY <2>2, Zenon
  <2> HIDE DEF k, r
  <2>5. Calm(k, ProcessCursorMotion(k, in))
    BY <2>3, InputSame, MotionCalm DEF Released
  <2>6. /\ Released(st, ProcessCursorMotion(k, in), button)
        /\ Over(k, button) => Over(ProcessCursorMotion(k, in), button)
    BY <2>3, <2>5, ReleasedCalm
  <2> QED
    BY <2>3, <2>4, <2>6, Zenon DEF r
<1>5. CASE ~st.locked /\ ~TakesAll(st)
  <2>1. r = OnRelease(st, button)
    BY <1>5, Zenon DEF OnCursorButton, TakesAll
  <2> DEFINE due == \/ /\ ~st.suppress /\ st.pending_menu = NoWindow /\ st.buttons[button] <= 1
                       /\ button \notin st.kept
                    \/ /\ st.suppress /\ st.buttons[button] = 0
                       /\ st.pending_menu # NoWindow => button = "right"
  <2>2. Clean(st, button) => due
    <3>1. st.suppress \in BOOLEAN
      BY DEF PtrGood, PtrType
    <3> QED
      BY <1>5, <3>1, Zenon DEF Clean
  <2> HIDE DEF r
  <2>3. Released(st, r, button) /\ (due => Over(r, button))
    BY <2>1, OnReleaseGood, Zenon
  <2> HIDE DEF due
  <2> QED
    BY <2>2, <2>3, Zenon DEF r
<1> QED
  BY <1>2, <1>3, <1>4, <1>5, Zenon

\* What a press may do, and what one does in a state where none is down: it is
\* clean, unless it changes what receives the buttons.
Dismissed(old, new) ==
  old.menu # NoWindow /\ Receiver(new) = Receiver(CancelMenu(old)) /\ ~TakesAll(new)

Turned(st, r, button) ==
  Receiver(r) # Receiver(st) /\ ~Dismissed(st, r) /\ (st.menu # NoWindow \/ button # "left")

Pressed(st, r, button) ==
  /\ PtrGood(r) /\ SameOutside(r, st)
  /\ r.kept \subseteq st.kept \cup {button} /\ (r.stray => st.stray)
  /\ Fresh(st) => /\ \A c \in Buttons \ {button} : r.buttons[c] = 0
                  /\ Clean(r, button) \/ Turned(st, r, button)

LEMMA TakesAllSame ==
  ASSUME NEW st, NEW r, SameViews(r, st), r.split = st.split PROVE TakesAll(r) = TakesAll(st)
BY DEF TakesAll, SameViews

LEMMA FreshCalm ==
  ASSUME NEW st, NEW r, Calm(st, r), Fresh(st) PROVE Fresh(r)
BY Windowed DEF Calm, SameClick, Fresh

\* A press that a view takes.
LEMMA PressKept ==
  ASSUME NEW st, PtrGood(st), NEW a, Calm(st, a), NEW button \in Buttons, ~st.locked,
         TakesAll(a) \/ Turned(st, Keep(a, button, TRUE), button)
  PROVE  Pressed(st, Keep(a, button, TRUE), button)
<1> DEFINE r == Keep(a, button, TRUE)
<1>1. /\ PtrGood(r) /\ SameOutside(r, a) /\ SameViews(r, a) /\ SameSeat(r, a)
      /\ r.split = a.split /\ r.stray = a.stray
      /\ r.suppress = a.suppress /\ r.pending_menu = a.pending_menu
      /\ r.kept = a.kept \cup {button}
  BY KeepGood, Zenon DEF Calm
<1> HIDE DEF r
<1>2. TakesAll(r) = TakesAll(a)
  BY <1>1, TakesAllSame
<1>3. ASSUME Fresh(st)
      PROVE  /\ \A c \in Buttons \ {button} : r.buttons[c] = 0
             /\ TakesAll(a) => Clean(r, button)
  <2>1. Fresh(a)
    BY <1>3, FreshCalm
  <2>2. /\ \A c \in Buttons : r.buttons[c] = 0
        /\ button \in r.kept /\ ~r.suppress /\ r.pending_menu = NoWindow /\ ~r.locked
    BY <1>1, <2>1 DEF Fresh, SameSeat, SameOutside, Calm
  <2>3. r.buttons[button] <= 1
    BY <2>2
  <2> QED
    BY <1>2, <2>2, <2>3, Zenon DEF Clean
<1>4. SameOutside(r, st) /\ r.kept \subseteq st.kept \cup {button} /\ (r.stray => st.stray)
  BY <1>1 DEF Calm, SameOutside, SameClick
<1> QED
  BY <1>1, <1>3, <1>4, Zenon DEF Pressed, r

\* A press on the windows.
LEMMA PressWindows ==
  ASSUME NEW st, PtrGood(st), NEW button \in Buttons, NEW in, InputGood(st, in),
         ~st.locked, ~TakesAll(st), st.buttons[button] < MaxPressed
  PROVE  Pressed(st, OnPress(st, button, in), button)
<1> DEFINE r == OnPress(st, button, in)
<1> HIDE DEF NoWindow
<1>1. CASE r = NotifyButton(st, button, TRUE)
  <2>1. Told(st, r, button, TRUE)
    BY <1>1, NotifyButtonGood, Zenon
  <2> HIDE DEF r
  <2>2. TakesAll(r) = TakesAll(st)
    BY <2>1, TakesAllSame DEF Told
  <2>3. ASSUME Fresh(st)
        PROVE  (\A c \in Buttons \ {button} : r.buttons[c] = 0) /\ Clean(r, button)
    <3>1. /\ \A c \in Buttons \ {button} : r.buttons[c] = 0
          /\ r.buttons[button] <= 1 /\ button \notin r.kept /\ ~r.suppress
          /\ r.pending_menu = NoWindow
      BY <2>1, <2>3 DEF Told, Fresh
    <3> QED
      BY <2>2, <3>1 DEF Clean
  <2> QED
    BY <2>1, <2>3 DEF Pressed, Told, r
<1>2. ASSUME NEW a, Suppressed(st, a, button), r = Keep(a, button, TRUE)
      PROVE  Pressed(st, r, button)
  <2>1. /\ PtrGood(r) /\ SameOutside(r, a) /\ SameViews(r, a) /\ SameSeat(r, a)
        /\ r.split = a.split /\ r.stray = a.stray
        /\ r.suppress = a.suppress /\ r.pending_menu = a.pending_menu
        /\ r.kept = a.kept \cup {button}
    <3>1. PtrGood(a) /\ TRUE \in BOOLEAN
      BY <1>2 DEF Suppressed
    <3> HIDE DEF r
    <3> QED
      BY <1>2, <3>1, KeepGood, Zenon
  <2> HIDE DEF r
  <2>2. ~TakesAll(r)
    BY <1>2, <2>1, Zenon DEF TakesAll, Suppressed, SameViews
  <2>3. ASSUME Fresh(st)
        PROVE  (\A c \in Buttons \ {button} : r.buttons[c] = 0) /\ Clean(r, button)
    <3>1. (\A c \in Buttons : r.buttons[c] = 0) /\ r.buttons[button] <= 1
      <4>1. r.buttons = st.buttons \/ r.buttons = NoButtons
        BY <1>2, <2>1, Zenon DEF Suppressed, SameSeat
      <4> QED
        BY <4>1, <2>3, Windowed DEF Fresh
    <3>2. /\ button \in r.kept /\ r.suppress /\ ~r.locked
          /\ r.pending_menu # NoWindow => button = "right"
      BY <1>2, <2>1, <2>3, Zenon DEF Suppressed, SameOutside, Fresh
    <3> QED
      BY <2>2, <3>1, <3>2, Zenon DEF Clean
  <2>4. SameOutside(r, st) /\ r.kept \subseteq st.kept \cup {button} /\ (r.stray => st.stray)
    BY <1>2, <2>1, Zenon DEF Suppressed, SameOutside
  <2> QED
    BY <2>1, <2>3, <2>4 DEF Pressed
<1> HIDE DEF r
<1>3. \/ r = NotifyButton(st, button, TRUE)
      \/ \E a : Suppressed(st, a, button) /\ r = Keep(a, button, TRUE)
  BY OnPressGood, Zenon DEF r
<1> QED
  BY <1>1, <1>2, <1>3, Zenon DEF r

LEMMA ReceiverFields ==
  ASSUME NEW a, NEW b, Receiver(a) = Receiver(b)
  PROVE  /\ a.locked = b.locked /\ a.menu = b.menu
         /\ a.split = "inside" <=> b.split = "inside"
         /\ a.multitasking = b.multitasking /\ a.previews = b.previews
         /\ a.selector # "off" <=> b.selector # "off"
<1>1. /\ Receiver(a).locked = Receiver(b).locked /\ Receiver(a).menu = Receiver(b).menu
      /\ Receiver(a).split = Receiver(b).split
      /\ Receiver(a).multitasking = Receiver(b).multitasking
      /\ Receiver(a).previews = Receiver(b).previews /\ Receiver(a).selector = Receiver(b).selector
  OBVIOUS
<1> QED
  BY <1>1 DEF Receiver

LEMMA ReceiverEqual ==
  ASSUME NEW a, NEW b, a.locked = b.locked, a.menu = b.menu,
         (a.split = "inside") = (b.split = "inside"),
         a.multitasking = b.multitasking, a.previews = b.previews,
         (a.selector # "off") = (b.selector # "off")
  PROVE  Receiver(a) = Receiver(b)
BY Zenon DEF Receiver

\* A press: to the client of a locked session, to the menu or another view, or
\* to the windows.
LEMMA PressGood ==
  ASSUME NEW st, PtrGood(st), NEW button \in Buttons, NEW in, InputGood(st, in),
         st.buttons[button] < MaxPressed
  PROVE  Pressed(st, OnCursorButton(st, button, TRUE, in), button)
<1> DEFINE r == OnCursorButton(st, button, TRUE, in)
<1> HIDE DEF NoWindow, Windows, Surfaces
<1>1. CASE st.locked
  <2>1. r = NotifyButton(st, button, TRUE)
    BY <1>1 DEF OnCursorButton
  <2>2. Told(st, r, button, TRUE)
    BY <2>1, NotifyButtonGood, Zenon
  <2> HIDE DEF r
  <2>3. ASSUME Fresh(st)
        PROVE  (\A c \in Buttons \ {button} : r.buttons[c] = 0) /\ Clean(r, button)
    <3>1. /\ \A c \in Buttons \ {button} : r.buttons[c] = 0
          /\ r.buttons[button] <= 1 /\ button \notin r.kept /\ ~r.suppress /\ r.locked
          /\ r.pending_menu = NoWindow
      BY <1>1, <2>2, <2>3 DEF Told, Fresh, SameOutside
    <3> QED
      BY <3>1, Zenon DEF Clean
  <2> QED
    BY <2>2, <2>3, Zenon DEF Pressed, Told, r
<1>2. CASE ~st.locked /\ st.menu # NoWindow
  <2> DEFINE m == MenuHandleButton(st, button, TRUE, in)
             k == Keep(m, button, TRUE)
             x == k.suppress \/ TRUE
             s == [k EXCEPT !.suppress = x]
             p == ProcessCursorMotion(s, in)
  <2>1. r = IF k.menu # NoWindow THEN k ELSE ProcessCursorMotion([k EXCEPT !.suppress = @ \/ TRUE], in)
    BY <1>2 DEF OnCursorButton
  <2>2. Calm(st, m)
    BY MenuHandleButtonCalm, Zenon
  <2> HIDE DEF m
  <2>3. /\ PtrGood(k) /\ SameOutside(k, m) /\ SameViews(k, m) /\ SameSeat(k, m)
        /\ k.split = m.split /\ k.stray = m.stray
        /\ k.suppress = m.suppress /\ k.pending_menu = m.pending_menu
        /\ k.kept = m.kept \cup {button}
    BY <2>2, KeepGood, Zenon DEF Calm
  <2>4. CASE k.menu # NoWindow
    <3>1. TakesAll(m)
      BY <2>3, <2>4, Zenon DEF TakesAll, SameViews
    <3> QED
      BY <1>2, <2>1, <2>2, <2>4, <3>1, PressKept, Zenon
  <2>5. CASE k.menu = NoWindow
    <3>1. k \in PtrType /\ x = TRUE
      BY <2>3, Zenon DEF PtrGood
    <3>2. r = p
      BY <2>1, <2>5, <3>1, Zenon DEF PtrType
    <3> HIDE DEF k
    <3>3. /\ PtrGood(s) /\ SameOutside(s, k) /\ SameViews(s, k) /\ SameSeat(s, k)
          /\ s.split = k.split /\ s.stray = k.stray /\ s.kept = k.kept
          /\ s.suppress = x /\ s.pending_menu = k.pending_menu
      <4>1. x \in BOOLEAN
        BY <3>1
      <4> HIDE DEF x
      <4> QED
        BY <2>3, <4>1, SuppressGood, Zenon
    <3> HIDE DEF s, x, r
    <3>4. SameOutside(s, st)
      BY <2>2, <2>3, <3>3 DEF Calm, SameOutside
    <3>5. Calm(s, p) /\ SameViews(p, s)
      BY <3>3, <3>4, InputSame, MotionCalm
    <3> HIDE DEF p
    <3>6. /\ SameOutside(p, st) /\ p.kept = st.kept \cup {button} /\ p.stray = st.stray
          /\ p.suppress = TRUE /\ p.pending_menu = st.pending_menu /\ p.menu = NoWindow
          /\ p.buttons = st.buttons \/ p.buttons = NoButtons
      BY <2>2, <2>3, <2>5, <3>1, <3>3, <3>4, <3>5
         DEF Calm, SameOutside, SameClick, SameViews, SameSeat
    <3>7. ASSUME Fresh(st)
          PROVE  /\ \A c \in Buttons \ {button} : p.buttons[c] = 0
                 /\ Clean(p, button) \/ Turned(st, p, button)
      <4>1. (\A c \in Buttons : p.buttons[c] = 0) /\ p.buttons[button] <= 1
        BY <3>6, <3>7, Windowed DEF Fresh
      <4>2. ~TakesAll(p) => Clean(p, button)
        <5>1. button \in p.kept /\ p.suppress /\ ~p.locked /\ p.pending_menu = NoWindow
          BY <1>2, <3>6, <3>7 DEF SameOutside, Fresh
        <5> QED
          BY <4>1, <5>1, Zenon DEF Clean
      <4>3. Receiver(p) # Receiver(st)
        BY <1>2, <3>6, ReceiverFields
      <4> QED
        BY <1>2, <4>1, <4>2, <4>3 DEF Turned, Dismissed
    <3> QED
      BY <3>2, <3>5, <3>6, <3>7, Zenon DEF Pressed, Calm, r
  <2> QED
    BY <2>4, <2>5, Zenon
<1>3. CASE ~st.locked /\ st.menu = NoWindow /\ st.split = "inside"
  <2> DEFINE a == SplitHandleButton(st, button, TRUE, in)
             k == Keep(a, button, TRUE)
  <2>1. r = k
    BY <1>3 DEF OnCursorButton
  <2>2. Calm(st, a) /\ a.split = IF button = "left" THEN "inside" ELSE "off"
    BY <1>3, SplitHandleButtonCalm, ZenonT(60)
  <2> HIDE DEF a
  <2>3. TakesAll(a) \/ Turned(st, k, button)
    <3>1. k.split = a.split
      BY <2>2, KeepGood, Zenon DEF Calm
    <3> HIDE DEF k
    <3>2. CASE button = "left"
      BY <2>2, <3>2 DEF TakesAll
    <3>3. CASE button # "left"
      <4>1. Receiver(k) # Receiver(st)
        BY <1>3, <2>2, <3>1, <3>3, ReceiverFields
      <4> QED
        BY <1>3, <3>3, <4>1 DEF Turned, Dismissed
    <3> QED
      BY <3>2, <3>3
  <2> QED
    BY <1>3, <2>1, <2>2, <2>3, PressKept, Zenon
<1>4. CASE ~st.locked /\ st.menu = NoWindow /\ st.split # "inside" /\ TakesAll(st)
  <2> DEFINE a == SelectorHandleButton(st, button, TRUE, in)
             k == Keep(a, button, TRUE)
  <2>1. \/ r = Keep(st, button, TRUE)
        \/ r = k /\ k.selector # "off"
        \/ st.selector # "off" /\ k.selector = "off"
    <3>1. /\ MultitaskingHandleButton(st, button, TRUE, in) = st
          /\ PreviewsHandleButton(st, button, TRUE, in) = st
      BY MultitaskingHandleButtonCalm, PreviewsHandleButtonCalm, Zenon
    <3> QED
      BY <1>4, <3>1, Zenon DEF OnCursorButton, TakesAll
  <2>2. /\ Calm(st, a) /\ TakesAll(a) = TakesAll(st)
        /\ a.selector # "off" <=> st.selector # "off"
    BY SelectorHandleButtonCalm, Zenon
  <2> HIDE DEF a
  <2>3. k.selector = a.selector
    BY <2>2, KeepGood, Zenon DEF Calm, SameViews
  <2>4. r = Keep(st, button, TRUE) \/ r = k
    BY <2>1, <2>2, <2>3, Zenon
  <2>5. TakesAll(a)
    BY <1>4, <2>2
  <2> HIDE DEF r
  <2>6. Pressed(st, Keep(st, button, TRUE), button)
    BY <1>4, CalmSelf, PressKept, Zenon
  <2>7. Pressed(st, k, button)
    BY <1>4, <2>2, <2>5, PressKept, Zenon
  <2> QED
    BY <2>4, <2>6, <2>7, Zenon DEF r
<1>5. CASE ~st.locked /\ ~TakesAll(st)
  <2>1. r = OnPress(st, button, in)
    BY <1>5, Zenon DEF OnCursorButton, TakesAll
  <2> QED
    BY <1>5, <2>1, PressWindows, Zenon
<1> QED
  BY <1>1, <1>2, <1>3, <1>4, <1>5, Zenon DEF TakesAll

(***************************************************************************)
(* Between the events.                                                     *)
(***************************************************************************)
\* What a click is made of.
SameDown(r, st) == r.held = st.held /\ PointerTouches(r) = PointerTouches(st)

LooseClick(r, st) ==
  /\ r.suppress = st.suppress /\ r.pending_menu \in {st.pending_menu, NoWindow}
  /\ r.kept = st.kept /\ ~r.stray
  /\ r.buttons = st.buttons \/ r.buttons = NoButtons

LEMMA QuietSame == ASSUME NEW st, Good(st) PROVE Quiet(st) = st
<1>1. st \in PtrType /\ st.stray = FALSE
  BY DEF Good, PtrGood, ClickGood, PtrType
<1> QED
  BY <1>1 DEF Quiet, PtrType

\* A change of one of the fields that the methods leave alone.
LEMMA OutsideGood ==
  ASSUME NEW st, PtrGood(st), NEW r \in PtrType, SameViews(r, st), SameSeat(r, st),
         r.mapped = st.mapped, r.locked = st.locked,
         r.pending_menu = st.pending_menu, r.split_window = st.split_window
  PROVE  PtrGood(r)
BY DEF PtrGood, SameViews, SameSeat

LEMMA DownSame == ASSUME NEW st, NEW r, SameDown(r, st) PROVE Down(r) = Down(st)
BY DEF SameDown, Down

\* A click stays what it is while what receives the buttons stays the same.
LEMMA ClickKept ==
  ASSUME NEW st, st.held \subseteq Buttons, ClickGood(st), NEW r, LooseClick(r, st), SameDown(r, st),
         r.disturbed = st.disturbed,
         st.disturbed \/ Down(st) = {} \/ Receiver(r) = Receiver(st)
  PROVE  ClickGood(r)
<1>1. Down(r) = Down(st) /\ ~r.stray /\ (r.disturbed => r.kept = {})
  BY DownSame DEF ClickGood, LooseClick
<1>2. \A b \in Buttons : r.buttons[b] \in {st.buttons[b], 0}
  BY Windowed DEF LooseClick
<1>3. CASE st.disturbed
  BY <1>1, <1>3 DEF ClickGood
<1>4. CASE ~st.disturbed /\ Down(st) = {}
  <2>1. Fresh(st)
    BY <1>4 DEF ClickGood
  <2>2. Fresh(r)
    BY <1>2, <2>1 DEF Fresh, LooseClick
  <2> QED
    BY <1>1, <1>4, <2>2 DEF ClickGood, SameDown
<1>5. CASE ~st.disturbed /\ Receiver(r) = Receiver(st)
  <2>1. r.locked = st.locked /\ (TakesAll(r) <=> TakesAll(st))
    BY <1>5, ReceiverFields DEF TakesAll
  <2>2. ASSUME NEW b \in Down(st), b \in Buttons PROVE Clean(r, b)
    <3>1. Clean(st, b)
      BY <1>5, <2>2 DEF ClickGood
    <3>2. r.buttons[b] <= 1 /\ (st.buttons[b] = 0 => r.buttons[b] = 0)
      BY <1>2, <2>2, <3>1 DEF Clean
    <3>3. /\ r.kept = st.kept /\ r.suppress = st.suppress
          /\ r.pending_menu # NoWindow => r.pending_menu = st.pending_menu
      BY DEF LooseClick
    <3> QED
      BY <2>1, <3>1, <3>2, <3>3, Zenon DEF Clean
  <2>3. ASSUME NEW b \in Down(st), b \notin Buttons PROVE FALSE
    BY <2>3, PointerAssumption DEF Down
  <2>4. Down(r) = {} => Fresh(r)
    <3>1. Down(st) = {} => Fresh(st)
      BY <1>5 DEF ClickGood
    <3> QED
      BY <1>1, <1>2, <3>1 DEF Fresh, LooseClick
  <2>5. \A b \in Down(r) : /\ Clean(r, b) /\ Down(r) = {b} /\ r.kept \subseteq {b}
                           /\ \A c \in Buttons \ {b} : r.buttons[c] = 0
    BY <1>1, <1>2, <1>5, <2>2, <2>3 DEF ClickGood, LooseClick
  <2> QED
    BY <1>1, <1>5, <2>4, <2>5 DEF ClickGood, SameDown
<1> QED
  BY <1>3, <1>4, <1>5

\* Whatever happens to a click that is disturbed.
LEMMA DisturbGood ==
  ASSUME NEW st, PtrGood(st), TouchGood(st), NEW d \in BOOLEAN,
         ~(st.disturbed \/ d) => ClickGood(st)
  PROVE  Good(Disturb(st, d))
<1> DEFINE r == [st EXCEPT !.disturbed = TRUE, !.kept = {}, !.stray = FALSE]
<1> HIDE DEF NoWindow, Windows, Surfaces
<1>1. CASE ~(st.disturbed \/ d)
  BY <1>1 DEF Disturb, Good
<1>2. CASE st.disturbed \/ d
  <2>1. Disturb(st, d) = r
    BY <1>2 DEF Disturb
  <2>2. st \in PtrType /\ {} \in SUBSET Buttons
    BY DEF PtrGood
  <2>3. r \in PtrType
    BY <2>2, Zenon DEF PtrType
  <2>4. /\ SameViews(r, st) /\ SameSeat(r, st) /\ r.mapped = st.mapped /\ r.locked = st.locked
        /\ r.pending_menu = st.pending_menu /\ r.split_window = st.split_window
        /\ r.touch = st.touch /\ r.seat_touch = st.seat_touch /\ r.feedback = st.feedback
        /\ r.disturbed = TRUE /\ r.kept = {} /\ r.stray = FALSE
    BY <2>2 DEF PtrType, SameViews, SameSeat
  <2> HIDE DEF r
  <2>5. PtrGood(r)
    BY <2>3, <2>4, OutsideGood
  <2>6. TouchGood(r)
    BY <2>4 DEF TouchGood, PointerTouches
  <2>7. ClickGood(r)
    BY <2>4 DEF ClickGood
  <2> QED
    BY <2>1, <2>5, <2>6, <2>7 DEF Good
<1> QED
  BY <1>1, <1>2

LEMMA DuringGood ==
  ASSUME NEW st, Good(st), NEW r, PtrGood(r), TouchGood(r), LooseClick(r, st),
         SameDown(r, st), r.disturbed = st.disturbed
  PROVE  Good(During(st, r))
<1> DEFINE d == Down(st) # {} /\ Receiver(st) # Receiver(r)
<1>1. During(st, r) = Disturb(r, d)
  BY DEF During
<1>2. ~(r.disturbed \/ d) => ClickGood(r)
  <2>1. st.held \subseteq Buttons
    BY DEF Good, PtrGood, PtrType
  <2> QED
    BY <2>1, ClickKept DEF Good
<1>3. d \in BOOLEAN
  OBVIOUS
<1> HIDE DEF d
<1> QED
  BY <1>1, <1>2, <1>3, DisturbGood

\* Once everything is released, the next click is a new one.
LEMMA SettleGood == ASSUME NEW st, Good(st) PROVE Good(Settle(st))
<1> DEFINE pressed == {b \in Buttons : st.buttons[b] > 0} \cup Down(st)
           d == st.disturbed /\ (pressed # {} \/ st.suppress \/ st.pending_menu # NoWindow)
           r == [st EXCEPT !.disturbed = d]
<1> HIDE DEF NoWindow, Windows, Surfaces
<1>1. st \in PtrType /\ d \in BOOLEAN
  BY DEF Good, PtrGood
<1>2. Settle(st) = r
  BY <1>1 DEF Settle, PtrType
<1> HIDE DEF d
<1>3. r \in PtrType
  BY <1>1 DEF PtrType
<1>4. /\ SameViews(r, st) /\ SameSeat(r, st) /\ r.mapped = st.mapped /\ r.locked = st.locked
      /\ r.pending_menu = st.pending_menu /\ r.split_window = st.split_window
      /\ r.split = st.split /\ r.suppress = st.suppress /\ r.held = st.held
      /\ r.touch = st.touch /\ r.seat_touch = st.seat_touch /\ r.feedback = st.feedback
      /\ r.disturbed = d /\ r.kept = st.kept /\ r.stray = st.stray
  BY <1>1 DEF PtrType, SameViews, SameSeat
<1> HIDE DEF r
<1>5. PtrGood(r)
  BY <1>3, <1>4, OutsideGood DEF Good
<1>6. TouchGood(r)
  BY <1>4 DEF TouchGood, PointerTouches, Good
<1>7. SameDown(r, st)
  BY <1>4 DEF SameDown, PointerTouches
<1>8. ClickGood(r)
  <2>1. CASE r.disturbed = st.disturbed
    <3>1. Receiver(r) = Receiver(st)
      BY <1>4, ReceiverEqual DEF SameViews
    <3>2. LooseClick(r, st)
      BY <1>4 DEF LooseClick, SameSeat, Good, ClickGood
    <3>3. st.held \subseteq Buttons
      BY <1>1 DEF PtrType
    <3> QED
      BY <1>7, <2>1, <3>1, <3>2, <3>3, ClickKept DEF Good
  <2>2. CASE r.disturbed # st.disturbed
    <3>1. /\ ~r.disturbed /\ st.disturbed /\ pressed = {} /\ ~st.suppress
          /\ st.pending_menu = NoWindow
      BY <1>1, <1>4, <2>2 DEF d, PtrType
    <3>2. \A b \in Buttons : st.buttons[b] = 0
      <4>1. \A b \in Buttons : st.buttons[b] \in Nat /\ ~(st.buttons[b] > 0)
        BY <1>1, <3>1, PointerAssumption DEF PtrType
      <4> QED
        BY <4>1
    <3>3. Down(r) = {} /\ r.held = {}
      BY <1>7, <3>1, DownSame DEF Down
    <3>4. Fresh(r) /\ ~r.stray
      BY <1>4, <3>1, <3>2 DEF Fresh, Good, ClickGood, SameSeat
    <3> QED
      BY <3>1, <3>3, <3>4 DEF ClickGood
  <2> QED
    BY <2>1, <2>2
<1> QED
  BY <1>2, <1>5, <1>6, <1>8 DEF Good

LEMMA BecomeGood == ASSUME NEW st, Good(st), Become(st) PROVE PointerGood'
<1>1. ptr' = Settle(st) /\ Good(Settle(st))
  BY SettleGood DEF Become
<1> QED
  BY <1>1 DEF PointerGood

\* A method that is called by no button, and keeps the fingers.
LEMMA CalmGood ==
  ASSUME NEW st, Good(st), NEW r, Calm(st, r)
  PROVE  Good(During(st, r)) /\ (Receiver(r) = Receiver(st) => Good(r))
<1>1. PtrGood(r) /\ TouchGood(r) /\ SameDown(r, st) /\ r.disturbed = st.disturbed
  BY DEF Calm, SameOutside, SameDown, TouchGood, PointerTouches, Good
<1>2. LooseClick(r, st)
  BY DEF Calm, SameClick, LooseClick, Good, ClickGood
<1>3. st.held \subseteq Buttons
  BY DEF Good, PtrGood, PtrType
<1>4. ClickGood(st)
  BY DEF Good
<1>5. Receiver(r) = Receiver(st) => ClickGood(r)
  BY <1>1, <1>2, <1>3, <1>4, ClickKept
<1> QED
  BY <1>1, <1>2, <1>5, DuringGood DEF Good

LEMMA HitGood ==
  ASSUME NEW st, PtrGood(st), NEW hit \in Hits(st)
  PROVE  /\ hit.window \in st.mapped \cup {NoWindow, LockSurface}
         /\ hit.csd \in st.mapped \cup {NoWindow}
         /\ st.locked => hit.window \notin Windows
         /\ hit.part \in SsdParts => hit.window \in st.mapped
<1> HIDE DEF NoWindow, Windows, Surfaces, LockSurface
<1>1. ASSUME NEW h \in ToplevelHits(st)
      PROVE  /\ h.window \in st.mapped \cup {NoWindow, LockSurface}
             /\ st.locked => h.window \notin Windows
             /\ h.part \in SsdParts => h.window \in st.mapped
  <2>1. CASE h = [window |-> NoWindow, part |-> "desktop"]
    BY <2>1, Windowed DEF SsdParts
  <2>2. CASE st.locked /\ h = [window |-> LockSurface, part |-> "client"]
    BY <2>2, Windowed DEF SsdParts
  <2>3. CASE ~st.locked /\ h \in UNION {[window : {w}, part : PartsOf(w)] : w \in st.mapped}
    BY <2>3
  <2> QED
    BY <2>1, <2>2, <2>3 DEF ToplevelHits
<1>2. CASE TakesAll(st)
  <2>1. CASE hit = Nothing
    BY <2>1, Windowed DEF Nothing, SsdParts
  <2>2. CASE hit \in [window : {h.window : h \in ToplevelHits(st)} \ {NoWindow},
                      part : {"client"}, csd : {NoWindow}]
    <3>1. hit.part = "client" /\ hit.csd = NoWindow
          /\ \E h \in ToplevelHits(st) : hit.window = h.window
      BY <2>2
    <3> QED
      BY <1>1, <3>1 DEF SsdParts
  <2> QED
    BY <1>2, <2>1, <2>2 DEF Hits
<1>3. CASE ~TakesAll(st)
  <2>1. PICK h \in ToplevelHits(st), w \in CsdResizeHits(st) :
          hit = [window |-> h.window, part |-> h.part, csd |-> w]
    BY <1>3 DEF Hits
  <2>2. hit.window = h.window /\ hit.part = h.part /\ hit.csd = w
    BY <2>1
  <2>3. w \in st.mapped \cup {NoWindow}
    BY DEF CsdResizeHits
  <2> QED
    BY <1>1, <2>2, <2>3
<1> QED
  BY <1>2, <1>3

LEMMA NothingGood ==
  ASSUME NEW st, NEW in, in.hit = Nothing, in.resize \in {"resize", "refused"}
  PROVE  InputGood(st, in)
BY Windowed DEF InputGood, Nothing, SsdParts

\* The events bring what the methods expect.
LEMMA InputsGood ==
  ASSUME NEW st, PtrGood(st), NEW in,
         in \in PressInputs(st) \/ in \in MotionInputs(st) \/ in \in ReleaseInputs(st)
  PROVE  InputGood(st, in)
<1>1. in.hit \in Hits(st) \/ in.hit = Nothing
  BY Zenon DEF PressInputs, MotionInputs, ReleaseInputs, InputsWith
<1>2. in.resize \in {"resize", "refused"}
  BY Zenon DEF PressInputs, MotionInputs, ReleaseInputs, InputsWith
<1>3. CASE in.hit \in Hits(st)
  BY <1>2, <1>3, HitGood DEF InputGood
<1>4. CASE in.hit = Nothing
  BY <1>2, <1>4, NothingGood
<1> QED
  BY <1>1, <1>3, <1>4

LEMMA NoInputGood == ASSUME NEW st PROVE InputGood(st, NoInput)
<1>1. NoInput.hit = Nothing /\ NoInput.resize \in {"resize", "refused"}
  BY DEF NoInput
<1> QED
  BY <1>1, NothingGood
==============================================================================
