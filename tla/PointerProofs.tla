---------------------------- MODULE PointerProofs ----------------------------
(***************************************************************************)
(* Buttons, fingers and grabs, for any number of windows and fingers: no   *)
(* grab or menu outlives its window, an undisturbed click is not torn      *)
(* apart, and a locked session keeps the pointer from the windows.  There  *)
(* is a lemma for each event, from the lemmas of the methods it calls.     *)
(***************************************************************************)
EXTENDS PointerMethodProofs

(***************************************************************************)
(* The events that leave the buttons and the fingers alone.                *)
(***************************************************************************)
LEMMA MotionGood == ASSUME PointerGood, Motion PROVE PointerGood'
<1>1. Good(ptr) /\ PtrGood(ptr) /\ Quiet(ptr) = ptr
  BY QuietSame DEF PointerGood, Good
<1>2. PICK in \in MotionInputs(ptr) : Become(During(ptr, ProcessCursorMotion(ptr, in)))
  BY <1>1 DEF Motion
<1>3. Calm(ptr, ProcessCursorMotion(ptr, in))
  BY <1>1, InputsGood, MotionCalm
<1> QED
  BY <1>1, <1>2, <1>3, CalmGood, BecomeGood

LEMMA TouchMotionGood ==
  ASSUME PointerGood, NEW i \in TouchIds, TouchMotion(i) PROVE PointerGood'
<1>1. Good(ptr) /\ PtrGood(ptr) /\ Quiet(ptr) = ptr
  BY QuietSame DEF PointerGood, Good
<1>2. PICK in \in MotionInputs(ptr) : Become(During(ptr, ProcessCursorMotion(ptr, in)))
  BY <1>1 DEF TouchMotion
<1>3. Calm(ptr, ProcessCursorMotion(ptr, in))
  BY <1>1, InputsGood, MotionCalm
<1> QED
  BY <1>1, <1>2, <1>3, CalmGood, BecomeGood

LEMMA RequestGood ==
  ASSUME PointerGood, NEW w \in Windows,
         RequestMove(w) \/ RequestResize(w) \/ RequestShowWindowMenu(w)
  PROVE  PointerGood'
<1>1. Good(ptr) /\ PtrGood(ptr) /\ Quiet(ptr) = ptr
  BY QuietSame DEF PointerGood, Good
<1>2. ASSUME NEW mode \in {"move", "resize", "refused"}, Become(BeginInteractive(ptr, w, mode))
      PROVE  PointerGood'
  <2>1. /\ Calm(ptr, BeginInteractive(ptr, w, mode))
        /\ SameViews(BeginInteractive(ptr, w, mode), ptr)
        /\ BeginInteractive(ptr, w, mode).split = ptr.split
    BY <1>1, BeginInteractiveCalm
  <2>2. Receiver(BeginInteractive(ptr, w, mode)) = Receiver(ptr)
    BY <2>1, ReceiverEqual DEF Calm, SameOutside, SameViews
  <2> QED
    BY <1>1, <1>2, <2>1, <2>2, CalmGood, BecomeGood
<1>3. CASE RequestShowWindowMenu(w)
  <2>1. Become(During(ptr, ShowWindowMenu(ptr, w)))
    BY <1>1, <1>3 DEF RequestShowWindowMenu
  <2>2. Calm(ptr, ShowWindowMenu(ptr, w))
    BY <1>1, ShowWindowMenuCalm
  <2> QED
    BY <1>1, <2>1, <2>2, CalmGood, BecomeGood
<1> QED
  BY <1>1, <1>2, <1>3 DEF RequestMove, RequestResize

LEMMA MinimizeGood == ASSUME PointerGood, MinimizeWindow PROVE PointerGood'
<1>1. Good(ptr) /\ PtrGood(ptr) /\ Quiet(ptr) = ptr
  BY QuietSame DEF PointerGood, Good
<1>2. Become(ClearFocus(ptr))
  BY <1>1 DEF MinimizeWindow, Minimize
<1>3. Calm(ptr, ClearFocus(ptr)) /\ SameViews(ClearFocus(ptr), ptr)
      /\ ClearFocus(ptr).split = ptr.split
  BY <1>1, ClearFocusCalm
<1>4. Receiver(ClearFocus(ptr)) = Receiver(ptr)
  BY <1>3, ReceiverEqual DEF Calm, SameOutside, SameViews
<1> QED
  BY <1>1, <1>2, <1>3, <1>4, CalmGood, BecomeGood

(***************************************************************************)
(* The views, opened and closed by keys and clients.                       *)
(***************************************************************************)
LEMMA PhaseCalm ==
  ASSUME NEW st, PtrGood(st), NEW x \in Phases
  PROVE  Calm(st, [st EXCEPT !.multitasking = x]) /\ Calm(st, [st EXCEPT !.previews = x])
<1> DEFINE m == [st EXCEPT !.multitasking = x]
           p == [st EXCEPT !.previews = x]
<1> HIDE DEF NoWindow, Windows, Surfaces
<1>1. st \in PtrType
  BY DEF PtrGood
<1>2. m \in PtrType /\ p \in PtrType
  BY <1>1 DEF PtrType
<1>3. /\ SameOutside(m, st) /\ SameClick(m, st) /\ SameSeat(m, st)
      /\ m.menu = st.menu /\ m.split_window = st.split_window
  BY <1>1 DEF PtrType, SameOutside, SameClick, SameSeat
<1>4. /\ SameOutside(p, st) /\ SameClick(p, st) /\ SameSeat(p, st)
      /\ p.menu = st.menu /\ p.split_window = st.split_window
  BY <1>1 DEF PtrType, SameOutside, SameClick, SameSeat
<1> HIDE DEF m, p
<1>5. /\ {m.menu, m.split_window} \subseteq m.mapped \cup {NoWindow}
      /\ {p.menu, p.split_window} \subseteq p.mapped \cup {NoWindow}
  BY <1>3, <1>4 DEF PtrGood, SameOutside
<1>6. Calm(st, m) /\ Calm(st, p)
  BY <1>2, <1>3, <1>4, <1>5, ViewCalm
<1> QED
  BY <1>6 DEF m, p

LEMMA ShowSplitCalm ==
  ASSUME NEW st, PtrGood(st), NEW x \in {"inside", "outside"}
  PROVE  Calm(st, [st EXCEPT !.split = x, !.split_pressed = FALSE])
<1> DEFINE r == [st EXCEPT !.split = x, !.split_pressed = FALSE]
<1> HIDE DEF NoWindow, Windows, Surfaces
<1>1. st \in PtrType
  BY DEF PtrGood
<1>2. r \in PtrType
  BY <1>1, Zenon DEF PtrType
<1>3. /\ SameOutside(r, st) /\ SameClick(r, st) /\ SameSeat(r, st)
      /\ r.menu = st.menu /\ r.split_window = st.split_window
  BY <1>1 DEF PtrType, SameOutside, SameClick, SameSeat
<1> HIDE DEF r
<1>4. {r.menu, r.split_window} \subseteq r.mapped \cup {NoWindow}
  BY <1>3 DEF PtrGood, SameOutside
<1>5. Calm(st, r)
  BY <1>2, <1>3, <1>4, ViewCalm
<1> QED
  BY <1>5 DEF r

LEMMA CalmGoodPtr == ASSUME NEW st, NEW r, Calm(st, r) PROVE PtrGood(r)
BY DEF Calm

LEMMA ShowSplitGood == ASSUME PointerGood, ShowSplit PROVE PointerGood'
<1>1. Good(ptr) /\ PtrGood(ptr) /\ Quiet(ptr) = ptr
  BY QuietSame DEF PointerGood, Good
<1>2. PICK x \in {"inside", "outside"} :
        Become(During(ptr, [ptr EXCEPT !.split = x, !.split_pressed = FALSE]))
  BY <1>1, Zenon DEF ShowSplit
<1> DEFINE r == [ptr EXCEPT !.split = x, !.split_pressed = FALSE]
<1>3. Calm(ptr, r)
  BY <1>1, ShowSplitCalm, Zenon
<1>4. Become(During(ptr, r))
  BY <1>2
<1> HIDE DEF r
<1> QED
  BY <1>1, <1>3, <1>4, CalmGood, BecomeGood

LEMMA MenuKeyGood == ASSUME PointerGood, MenuKey PROVE PointerGood'
<1>1. Good(ptr) /\ PtrGood(ptr) /\ Quiet(ptr) = ptr
  BY QuietSame DEF PointerGood, Good
<1>2. CASE Become(During(ptr, CancelMenu(ptr)))
  <2>1. Calm(ptr, CancelMenu(ptr))
    BY <1>1, CancelMenuCalm
  <2> QED
    BY <1>1, <1>2, <2>1, CalmGood, BecomeGood
<1> DEFINE pressed == [ptr EXCEPT !.menu_pressed = TRUE]
<1>3. CASE \E in \in ReleaseInputs(pressed) : Become(During(ptr, MenuActivate(ptr, in)))
  <2>1. Calm(ptr, pressed)
    BY <1>1, MenuPressedCalm, Zenon
  <2> HIDE DEF pressed
  <2>2. PICK in \in ReleaseInputs(pressed) : Become(During(ptr, MenuActivate(ptr, in)))
    BY <1>3
  <2>3. InputGood(pressed, in)
    BY <2>1, InputsGood, CalmGoodPtr
  <2>4. SameOutside(ptr, pressed)
    BY <2>1 DEF Calm, SameOutside
  <2>5. InputGood(ptr, in)
    BY <2>3, <2>4, InputSame
  <2>6. Calm(ptr, MenuActivate(ptr, in))
    BY <1>1, <2>5, MenuActivateCalm
  <2> QED
    BY <1>1, <2>2, <2>6, CalmGood, BecomeGood
<1> QED
  BY <1>1, <1>2, <1>3, Zenon DEF MenuKey

LEMMA OverviewKeyGood == ASSUME PointerGood, OverviewKey PROVE PointerGood'
<1>1. Good(ptr) /\ PtrGood(ptr) /\ Quiet(ptr) = ptr
  BY QuietSame DEF PointerGood, Good
<1>2. CASE Become(During(ptr, CancelMultitasking(ptr)))
  <2>1. Calm(ptr, CancelMultitasking(ptr))
    BY <1>1, CancelMultitaskingCalm
  <2> QED
    BY <1>1, <1>2, <2>1, CalmGood, BecomeGood
<1>3. ASSUME NEW after \in {ptr, SwitchWorkspace(ptr)}, Become(During(ptr, CancelPreviews(after)))
      PROVE  PointerGood'
  <2>1. Calm(ptr, after) /\ PtrGood(after)
    BY <1>1, CalmSelf, SwitchWorkspaceCalm, CalmGoodPtr
  <2>2. Calm(after, CancelPreviews(after))
    BY <2>1, CancelPreviewsCalm
  <2>3. Calm(ptr, CancelPreviews(after))
    BY <2>1, <2>2, CalmTrans
  <2> QED
    BY <1>1, <1>3, <2>3, CalmGood, BecomeGood
<1> QED
  BY <1>1, <1>2, <1>3 DEF OverviewKey

LEMMA ToggleMultitaskingGood == ASSUME PointerGood, ToggleMultitasking PROVE PointerGood'
<1>1. Good(ptr) /\ PtrGood(ptr) /\ Quiet(ptr) = ptr
  BY QuietSame DEF PointerGood, Good
<1> DEFINE a == CancelPreviews(ptr)
           b == CancelMenu(a)
           alone == CancelSelector(b)
           on == [alone EXCEPT !.multitasking = "active"]
           off == CancelMultitasking(alone)
           r == IF alone.multitasking = "off" THEN on ELSE off
<1>2. Calm(ptr, a) /\ PtrGood(a)
  BY <1>1, CancelPreviewsCalm, CalmGoodPtr
<1>3. Become(During(ptr, r))
  BY <1>1 DEF ToggleMultitasking
<1> HIDE DEF a
<1>4. Calm(a, b) /\ PtrGood(b)
  BY <1>2, CancelMenuCalm, CalmGoodPtr
<1> HIDE DEF b
<1>5. Calm(b, alone) /\ PtrGood(alone)
  BY <1>4, CancelSelectorCalm, CalmGoodPtr
<1>6. Calm(ptr, alone)
  BY <1>2, <1>4, <1>5, CalmTrans
<1> HIDE DEF alone
<1>7. Calm(alone, on)
  <2>1. "active" \in Phases
    BY DEF Phases
  <2> QED
    BY <1>5, <2>1, PhaseCalm, Zenon
<1>8. Calm(alone, off)
  BY <1>5, CancelMultitaskingCalm
<1> HIDE DEF on, off
<1>9. Calm(ptr, r)
  BY <1>6, <1>7, <1>8, CalmTrans
<1> HIDE DEF r
<1> QED
  BY <1>1, <1>3, <1>9, CalmGood, BecomeGood

LEMMA TogglePreviewsGood == ASSUME PointerGood, TogglePreviews PROVE PointerGood'
<1>1. Good(ptr) /\ PtrGood(ptr) /\ Quiet(ptr) = ptr
  BY QuietSame DEF PointerGood, Good
<1> DEFINE a == CancelMultitasking(ptr)
           b == CancelMenu(a)
           alone == CancelSelector(b)
           on == [alone EXCEPT !.previews = "active"]
           off == CancelPreviews(alone)
           r == CASE alone.previews = "active" -> off
                  [] alone.previews = "off" /\ alone.mapped = {} -> alone
                  [] OTHER -> on
<1>2. Calm(ptr, a) /\ PtrGood(a)
  BY <1>1, CancelMultitaskingCalm, CalmGoodPtr
<1>3. Become(During(ptr, r))
  BY <1>1, Zenon DEF TogglePreviews
<1> HIDE DEF a
<1>4. Calm(a, b) /\ PtrGood(b)
  BY <1>2, CancelMenuCalm, CalmGoodPtr
<1> HIDE DEF b
<1>5. Calm(b, alone) /\ PtrGood(alone)
  BY <1>4, CancelSelectorCalm, CalmGoodPtr
<1>6. Calm(ptr, alone)
  BY <1>2, <1>4, <1>5, CalmTrans
<1> HIDE DEF alone
<1>7. Calm(alone, on)
  <2>1. "active" \in Phases
    BY DEF Phases
  <2> QED
    BY <1>5, <2>1, PhaseCalm, Zenon
<1>8. Calm(alone, off)
  BY <1>5, CancelPreviewsCalm
<1> HIDE DEF on, off
<1>9. r \in {off, alone, on}
  OBVIOUS
<1> HIDE DEF r
<1>10. Calm(ptr, r)
  BY <1>6, <1>7, <1>8, <1>9, CalmTrans
<1> QED
  BY <1>1, <1>3, <1>10, CalmGood, BecomeGood

LEMMA CompleteGood ==
  ASSUME PointerGood, CompleteMultitasking \/ CompletePreviews PROVE PointerGood'
<1>1. Good(ptr) /\ PtrGood(ptr) /\ Quiet(ptr) = ptr
  BY QuietSame DEF PointerGood, Good
<1>2. "off" \in Phases
  BY DEF Phases
<1> DEFINE closed == [ptr EXCEPT !.multitasking = "off"]
           gone == [ptr EXCEPT !.previews = "off"]
<1>3. Calm(ptr, closed) /\ Calm(ptr, gone)
  BY <1>1, <1>2, PhaseCalm, Zenon
<1>4. CompleteMultitasking =>
        Become(During(ptr, closed)) \/ Become(During(ptr, SwitchWorkspace(closed)))
  BY <1>1, Zenon DEF CompleteMultitasking
<1>5. CompletePreviews => Become(During(ptr, gone))
  BY <1>1, Zenon DEF CompletePreviews
<1> HIDE DEF closed, gone
<1>6. Calm(ptr, SwitchWorkspace(closed))
  BY <1>3, SwitchWorkspaceCalm, CalmTrans, CalmGoodPtr
<1> QED
  BY <1>1, <1>3, <1>4, <1>5, <1>6, CalmGood, BecomeGood

LEMMA SelectorGood == ASSUME PointerGood, StartSelector \/ StopSelector PROVE PointerGood'
<1>1. Good(ptr) /\ PtrGood(ptr) /\ Quiet(ptr) = ptr
  BY QuietSame DEF PointerGood, Good
<1> DEFINE up == [ptr EXCEPT !.selector = "up"]
<1>2. Calm(ptr, up)
  BY <1>1, SelectorPhaseCalm, Zenon
<1>3. StartSelector => Become(During(ptr, ClearFocus(up)))
  BY <1>1, Zenon DEF StartSelector
<1> HIDE DEF up
<1>4. Calm(ptr, ClearFocus(up))
  BY <1>2, ClearFocusCalm, CalmTrans, CalmGoodPtr
<1>5. Calm(ptr, CancelSelector(ptr))
  BY <1>1, CancelSelectorCalm
<1>6. StopSelector => Become(During(ptr, CancelSelector(ptr)))
  BY <1>1 DEF StopSelector
<1> QED
  BY <1>1, <1>3, <1>4, <1>5, <1>6, CalmGood, BecomeGood

LEMMA ChangeWorkspaceGood == ASSUME PointerGood, ChangeWorkspace PROVE PointerGood'
<1>1. Good(ptr) /\ PtrGood(ptr) /\ Quiet(ptr) = ptr
  BY QuietSame DEF PointerGood, Good
<1>2. Become(During(ptr, SwitchWorkspace(ptr))) /\ Calm(ptr, SwitchWorkspace(ptr))
  BY <1>1, SwitchWorkspaceCalm DEF ChangeWorkspace
<1> QED
  BY <1>1, <1>2, CalmGood, BecomeGood

(***************************************************************************)
(* The buttons of the mouse.                                               *)
(***************************************************************************)
\* A state that differs in the fingers and the held buttons only.
Alike(r, st) ==
  /\ SameViews(r, st) /\ SameSeat(r, st) /\ r.mapped = st.mapped /\ r.locked = st.locked
  /\ r.suppress = st.suppress /\ r.pending_menu = st.pending_menu
  /\ r.split = st.split /\ r.split_window = st.split_window
  /\ r.kept = st.kept /\ r.stray = st.stray /\ r.disturbed = st.disturbed

LEMMA AlikeGood ==
  ASSUME NEW st, NEW r, Alike(r, st)
  PROVE  /\ PtrGood(st) /\ r \in PtrType => PtrGood(r)
         /\ Fresh(st) => Fresh(r)
         /\ \A b : Clean(st, b) => Clean(r, b)
         /\ Receiver(r) = Receiver(st)
<1>1. PtrGood(st) /\ r \in PtrType => PtrGood(r)
  BY OutsideGood DEF Alike
<1>2. r.buttons = st.buttons
  BY DEF Alike, SameSeat
<1>3. Fresh(st) => Fresh(r)
  BY <1>2 DEF Alike, Fresh
<1>4. TakesAll(r) = TakesAll(st)
  BY TakesAllSame DEF Alike
<1>5. \A b : Clean(st, b) => Clean(r, b)
  BY <1>2, <1>4 DEF Alike, Clean
<1>6. Receiver(r) = Receiver(st)
  BY ReceiverEqual DEF Alike, SameViews
<1> QED
  BY <1>1, <1>3, <1>5, <1>6

LEMMA HeldAlike ==
  ASSUME NEW st, PtrGood(st), TouchGood(st), NEW h \in SUBSET Buttons
  PROVE  LET r == [st EXCEPT !.held = h] IN
         /\ Alike(r, st) /\ PtrGood(r) /\ TouchGood(r)
         /\ r.held = h /\ PointerTouches(r) = PointerTouches(st)
<1> DEFINE r == [st EXCEPT !.held = h]
<1> HIDE DEF NoWindow, Windows, Surfaces
<1>1. st \in PtrType
  BY DEF PtrGood
<1>2. r \in PtrType
  BY <1>1 DEF PtrType
<1>3. /\ Alike(r, st) /\ r.held = h /\ r.touch = st.touch /\ r.seat_touch = st.seat_touch
      /\ r.feedback = st.feedback
  BY <1>1 DEF PtrType, Alike, SameViews, SameSeat
<1> HIDE DEF r
<1>4. PtrGood(r)
  BY <1>2, <1>3, AlikeGood
<1>5. TouchGood(r) /\ PointerTouches(r) = PointerTouches(st)
  BY <1>3 DEF TouchGood, PointerTouches, Alike
<1> QED
  BY <1>3, <1>4, <1>5 DEF r

\* A button, or the finger that plays it, goes up: the click is over.
LEMMA ClickOver ==
  ASSUME NEW st, PtrGood(st), ClickGood(st), NEW b \in Down(st), NEW r,
         r.disturbed = st.disturbed, r.kept = st.kept \ {b},
         r.stray => b \in st.kept,
         \A c \in Buttons \ {b} : r.buttons[c] \in {0, st.buttons[c]},
         Clean(st, b) => Over(r, b),
         ~st.disturbed => Down(r) = {} /\ r.held = {}
  PROVE  ClickGood(r)
<1>1. CASE st.disturbed
  BY <1>1 DEF ClickGood
<1>2. CASE ~st.disturbed
  <2>1. /\ Clean(st, b) /\ st.kept \subseteq {b}
        /\ \A c \in Buttons \ {b} : st.buttons[c] = 0
    BY <1>2 DEF ClickGood
  <2>2. Over(r, b)
    BY <2>1
  <2>3. \A c \in Buttons : r.buttons[c] = 0
    BY <2>1, <2>2 DEF Over
  <2>4. Fresh(r) /\ ~r.stray
    BY <2>1, <2>2, <2>3 DEF Fresh, Over
  <2> QED
    BY <1>2, <2>4 DEF ClickGood
<1> QED
  BY <1>1, <1>2

LEMMA ReleaseEvent ==
  ASSUME PointerGood, NEW button \in Buttons, Release(button) PROVE PointerGood'
<1>1. Good(ptr) /\ PtrGood(ptr) /\ TouchGood(ptr) /\ ClickGood(ptr) /\ Quiet(ptr) = ptr
  BY QuietSame DEF PointerGood, Good
<1>2. PICK in \in ReleaseInputs(ptr) :
        LET after == OnCursorButton(ptr, button, FALSE, in) IN
          Become([after EXCEPT !.held = @ \ {button}])
  BY <1>1, Zenon DEF Release
<1> DEFINE a == OnCursorButton(ptr, button, FALSE, in)
           h == a.held \ {button}
           r == [a EXCEPT !.held = h]
<1>3. Become(r)
  BY <1>2
<1>4. Released(ptr, a, button) /\ (Clean(ptr, button) => Over(a, button))
  <2>1. ~ptr.stray /\ InputGood(ptr, in)
    BY <1>1, InputsGood DEF ClickGood
  <2> QED
    BY <1>1, <2>1, ReleaseGood, Zenon
<1> HIDE DEF a
<1>5. PtrGood(a) /\ TouchGood(a) /\ SameOutside(a, ptr)
  BY <1>1, <1>4 DEF Released, SameOutside, TouchGood, PointerTouches
<1>6. h = ptr.held \ {button} /\ h \in SUBSET Buttons
  BY <1>1, <1>5 DEF SameOutside, PtrGood, PtrType
<1> HIDE DEF h
<1>7. /\ Alike(r, a) /\ PtrGood(r) /\ TouchGood(r)
      /\ r.held = h /\ PointerTouches(r) = PointerTouches(a)
  BY <1>5, <1>6, HeldAlike, Zenon
<1> HIDE DEF r
<1>8. ClickGood(r)
  <2>1. button \in Down(ptr)
    BY DEF Release, Down
  <2>2. r.disturbed = ptr.disturbed /\ r.kept = ptr.kept \ {button}
    BY <1>4, <1>5, <1>7 DEF Released, Alike, SameOutside
  <2>3. r.stray => button \in ptr.kept
    BY <1>1, <1>4, <1>7 DEF Released, Alike, ClickGood
  <2>4. \A c \in Buttons \ {button} : r.buttons[c] \in {0, ptr.buttons[c]}
    BY <1>4, <1>7 DEF Released, Alike, SameSeat
  <2>5. Clean(ptr, button) => Over(r, button)
    BY <1>4, <1>7 DEF Over, Alike, SameSeat
  <2>6. ~ptr.disturbed => Down(r) = {} /\ r.held = {}
    <3>1. ~ptr.disturbed => Down(ptr) = {button} /\ PointerTouches(ptr) = {}
      BY <1>1, <2>1 DEF ClickGood, Release
    <3>2. PointerTouches(r) = PointerTouches(ptr)
      BY <1>5, <1>7 DEF SameOutside, PointerTouches
    <3> QED
      BY <1>6, <1>7, <3>1, <3>2 DEF Down
  <2> QED
    BY <1>1, <2>1, <2>2, <2>3, <2>4, <2>5, <2>6, ClickOver
<1> QED
  BY <1>3, <1>7, <1>8, BecomeGood DEF Good

\* What AtPress makes of a press that a handler has dealt with.
LEMMA PressDisturbs ==
  ASSUME NEW st, NEW r
  PROVE  AtPress(st, r) = Disturb(r, Down(st) # {} \/ (Receiver(st) # Receiver(r)
                                                       /\ ~Dismissed(st, r)))
BY DEF AtPress, Dismissed

\* A click begins: n is what the handler has made of st, and r has the button
\* down too.
LEMMA ClickBegins ==
  ASSUME NEW st, ClickGood(st), ~st.disturbed, Down(st) = {}, NEW n, NEW b \in Buttons,
         n.kept \subseteq st.kept \cup {b}, ~n.stray, ~n.disturbed,
         \A c \in Buttons \ {b} : n.buttons[c] = 0, Clean(n, b),
         NEW r, Alike(r, n), Down(r) = {b}, r.held = {} \/ PointerTouches(r) = {}
  PROVE  ClickGood(r)
<1>1. Fresh(st)
  BY DEF ClickGood
<1>2. /\ r.kept \subseteq {b} /\ ~r.stray /\ ~r.disturbed
      /\ \A c \in Buttons \ {b} : r.buttons[c] = 0
  BY <1>1 DEF Fresh, Alike, SameSeat
<1>3. Clean(r, b)
  BY AlikeGood
<1> QED
  BY <1>2, <1>3 DEF ClickGood

LEMMA PressEvent ==
  ASSUME PointerGood, NEW button \in Buttons, Press(button) PROVE PointerGood'
<1>1. Good(ptr) /\ PtrGood(ptr) /\ TouchGood(ptr) /\ ClickGood(ptr) /\ Quiet(ptr) = ptr
  BY QuietSame DEF PointerGood, Good
<1>2. PICK in \in PressInputs(ptr) :
        LET after == AtPress(ptr, OnCursorButton(ptr, button, TRUE, in)) IN
          Become([after EXCEPT !.held = @ \cup {button}])
  BY <1>1, Zenon DEF Press
<1> DEFINE n == OnCursorButton(ptr, button, TRUE, in)
           d == Down(ptr) # {} \/ (Receiver(ptr) # Receiver(n) /\ ~Dismissed(ptr, n))
           a == Disturb(n, d)
           h == a.held \cup {button}
           r == [a EXCEPT !.held = h]
<1>3. AtPress(ptr, n) = a
  BY PressDisturbs, Zenon
<1>4. Become(r)
  BY <1>2, <1>3, Zenon
<1>5. Pressed(ptr, n, button)
  <2>1. InputGood(ptr, in) /\ ptr.buttons[button] < MaxPressed
    BY <1>1, InputsGood DEF Press
  <2> QED
    BY <1>1, <2>1, PressGood, Zenon
<1>6. d \in BOOLEAN
  OBVIOUS
<1> HIDE DEF n
<1>7. PtrGood(n) /\ TouchGood(n) /\ SameOutside(n, ptr) /\ ~n.stray
  BY <1>1, <1>5 DEF Pressed, SameOutside, TouchGood, PointerTouches, ClickGood
<1>8. CASE n.disturbed \/ d
  <2>1. Good(a)
    BY <1>6, <1>7, <1>8, DisturbGood, Zenon
  <2>2. a.disturbed
    BY <1>7, <1>8 DEF Disturb, PtrGood, PtrType
  <2> HIDE DEF d, a
  <2>3. h \in SUBSET Buttons /\ PtrGood(a) /\ TouchGood(a)
    BY <2>1 DEF Good, PtrGood, PtrType
  <2> HIDE DEF h
  <2>4. Alike(r, a) /\ PtrGood(r) /\ TouchGood(r)
    BY <2>3, HeldAlike, Zenon
  <2> HIDE DEF r
  <2>5. ClickGood(r)
    BY <2>1, <2>2, <2>4 DEF Good, ClickGood, Alike
  <2> QED
    BY <1>4, <2>4, <2>5, BecomeGood DEF Good
<1>9. CASE ~(n.disturbed \/ d)
  <2>1. a = n
    BY <1>9 DEF Disturb
  <2>2. Down(ptr) = {} /\ ~Turned(ptr, n, button) /\ ~n.disturbed /\ ~ptr.disturbed
    BY <1>7, <1>9 DEF Turned, SameOutside
  <2> HIDE DEF d, a
  <2>3. h = ptr.held \cup {button} /\ h \in SUBSET Buttons
    BY <1>1, <1>7, <2>1 DEF SameOutside, PtrGood, PtrType
  <2> HIDE DEF h
  <2>4. /\ Alike(r, a) /\ PtrGood(r) /\ TouchGood(r)
        /\ r.held = h /\ PointerTouches(r) = PointerTouches(a)
    BY <1>7, <2>1, <2>3, HeldAlike, Zenon
  <2> HIDE DEF r
  <2>5. Fresh(ptr)
    BY <1>1, <2>2 DEF ClickGood
  <2>6. /\ Clean(n, button) /\ n.kept \subseteq ptr.kept \cup {button}
        /\ \A c \in Buttons \ {button} : n.buttons[c] = 0
    BY <1>5, <2>2, <2>5 DEF Pressed
  <2>7. PointerTouches(r) = {} /\ Down(r) = {button}
    <3>1. PointerTouches(ptr) = {} /\ ptr.held = {}
      BY <2>2 DEF Down
    <3>2. PointerTouches(r) = {}
      BY <1>7, <2>1, <2>4, <3>1 DEF SameOutside, PointerTouches
    <3> QED
      BY <2>3, <2>4, <3>1, <3>2 DEF Down
  <2>8. ClickGood(r)
    BY <1>1, <1>7, <2>1, <2>2, <2>4, <2>6, <2>7, ClickBegins
  <2> QED
    BY <1>4, <2>4, <2>8, BecomeGood DEF Good
<1> QED
  BY <1>8, <1>9

(***************************************************************************)
(* Windows and surfaces come and go, and the session is unlocked.          *)
(***************************************************************************)
LEMMA AlikeClick ==
  ASSUME NEW st, Good(st), NEW r, Alike(r, st), SameDown(r, st) PROVE ClickGood(r)
<1>1. ClickGood(st) /\ st.held \subseteq Buttons /\ ~st.stray
  BY DEF Good, PtrGood, PtrType, ClickGood
<1>2. LooseClick(r, st) /\ r.disturbed = st.disturbed
  BY <1>1 DEF Alike, SameSeat, LooseClick
<1>3. Receiver(r) = Receiver(st)
  BY AlikeGood
<1> QED
  BY <1>1, <1>2, <1>3, ClickKept

\* No finger is at the clients of S any more.
Untouched(r, st, S) ==
  \A i \in TouchIds :
    r.seat_touch[i] = IF st.seat_touch[i] \in S THEN NoWindow ELSE st.seat_touch[i]

LEMMA NotifyTouchCancelAlike ==
  ASSUME NEW st, PtrGood(st), TouchGood(st), NEW S
  PROVE  LET r == NotifyTouchCancel(st, S) IN
         /\ Alike(r, st) /\ PtrGood(r) /\ TouchGood(r) /\ SameDown(r, st)
         /\ r.touch = st.touch /\ r.feedback = st.feedback
         /\ Untouched(r, st, S)
<1> DEFINE r == NotifyTouchCancel(st, S)
           t == [i \in TouchIds |-> IF st.seat_touch[i] \in S THEN NoWindow ELSE st.seat_touch[i]]
<1> HIDE DEF NoWindow, Windows, Surfaces
<1>1. st \in PtrType
  BY DEF PtrGood
<1>2. t \in [TouchIds -> Surfaces \cup {NoWindow}]
  BY <1>1 DEF PtrType
<1>3. r = [st EXCEPT !.seat_touch = t]
  BY <1>1 DEF NotifyTouchCancel, PtrType
<1>4. \A i \in TouchIds : t[i] = IF st.seat_touch[i] \in S THEN NoWindow ELSE st.seat_touch[i]
  OBVIOUS
<1> HIDE DEF t
<1>5. r \in PtrType
  BY <1>1, <1>2, <1>3 DEF PtrType
<1>6. /\ Alike(r, st) /\ r.held = st.held /\ r.touch = st.touch /\ r.seat_touch = t
      /\ r.feedback = st.feedback
  BY <1>1, <1>3 DEF PtrType, Alike, SameViews, SameSeat
<1> HIDE DEF r
<1>7. PtrGood(r)
  BY <1>5, <1>6, AlikeGood
<1>8. SameDown(r, st)
  BY <1>6 DEF SameDown, PointerTouches
<1>9. TouchGood(r)
  BY <1>4, <1>6, Windowed DEF TouchGood, PointerTouches, Alike
<1> QED
  BY <1>4, <1>6, <1>7, <1>8, <1>9 DEF r, Untouched

LEMMA SurfaceGoneGood ==
  ASSUME NEW st, Good(st), NEW s
  PROVE  /\ Good(IF st.focus = s THEN ClearFocus(st) ELSE st)
         /\ Good(NotifyTouchCancel(IF st.focus = s THEN ClearFocus(st) ELSE st, {s}))
<1> DEFINE left == IF st.focus = s THEN ClearFocus(st) ELSE st
<1>1. Good(left)
  <2>1. Calm(st, ClearFocus(st)) /\ SameViews(ClearFocus(st), st) /\ ClearFocus(st).split = st.split
    BY ClearFocusCalm DEF Good
  <2>2. Receiver(ClearFocus(st)) = Receiver(st)
    BY <2>1, ReceiverEqual DEF Calm, SameOutside, SameViews
  <2> QED
    BY <2>1, <2>2, CalmGood
<1> HIDE DEF left
<1> DEFINE r == NotifyTouchCancel(left, {s})
<1>2. Alike(r, left) /\ PtrGood(r) /\ TouchGood(r) /\ SameDown(r, left)
  BY <1>1, NotifyTouchCancelAlike DEF Good
<1> HIDE DEF r
<1>3. Good(r)
  BY <1>1, <1>2, AlikeClick DEF Good
<1> QED
  BY <1>1, <1>3 DEF r, left

LEMMA DestroyGood ==
  ASSUME PointerGood, (\E w \in Windows : Destroy(w)) \/ DestroyLockSurface PROVE PointerGood'
<1>1. Good(ptr) /\ Quiet(ptr) = ptr
  BY QuietSame DEF PointerGood
<1>2. PICK s : \/ Become(IF ptr.focus = s THEN ClearFocus(ptr) ELSE ptr)
               \/ Become(NotifyTouchCancel(IF ptr.focus = s THEN ClearFocus(ptr) ELSE ptr, {s}))
  BY <1>1 DEF Destroy, DestroyLockSurface, SurfaceGoes
<1> QED
  BY <1>1, <1>2, SurfaceGoneGood, BecomeGood, Zenon

LEMMA MapGood == ASSUME PointerGood, NEW w \in Windows, Map(w) PROVE PointerGood'
<1> DEFINE m == ptr.mapped \cup {w}
           r == [ptr EXCEPT !.mapped = m]
<1> HIDE DEF NoWindow, Windows, Surfaces
<1>1. Good(ptr) /\ PtrGood(ptr) /\ TouchGood(ptr) /\ Quiet(ptr) = ptr /\ ptr \in PtrType
  BY QuietSame DEF PointerGood, Good, PtrGood
<1>2. Become(r) /\ m \in SUBSET Windows /\ ptr.mapped \subseteq m
  BY <1>1 DEF Map, PtrType
<1> HIDE DEF m
<1>3. r \in PtrType
  BY <1>1, <1>2 DEF PtrType
<1>4. /\ SameViews(r, ptr) /\ SameSeat(r, ptr) /\ r.mapped = m /\ r.locked = ptr.locked
      /\ r.suppress = ptr.suppress /\ r.pending_menu = ptr.pending_menu
      /\ r.split = ptr.split /\ r.split_window = ptr.split_window
      /\ r.kept = ptr.kept /\ r.stray = ptr.stray /\ r.disturbed = ptr.disturbed
      /\ r.held = ptr.held /\ r.touch = ptr.touch /\ r.seat_touch = ptr.seat_touch
      /\ r.feedback = ptr.feedback
  BY <1>1 DEF PtrType, SameViews, SameSeat
<1> HIDE DEF r
<1>5. PtrGood(r)
  BY <1>1, <1>2, <1>3, <1>4 DEF PtrGood, SameViews, SameSeat
<1>6. TouchGood(r) /\ SameDown(r, ptr)
  BY <1>1, <1>4 DEF TouchGood, PointerTouches, SameDown
<1>7. ClickGood(r)
  <2>1. ClickGood(ptr) /\ ptr.held \subseteq Buttons /\ ~ptr.stray
    BY <1>1 DEF Good, PtrType, ClickGood
  <2>2. LooseClick(r, ptr)
    BY <1>4, <2>1 DEF LooseClick, SameSeat
  <2>3. Receiver(r) = Receiver(ptr)
    BY <1>4, ReceiverEqual DEF SameViews
  <2> QED
    BY <1>4, <1>6, <2>1, <2>2, <2>3, ClickKept
<1> QED
  BY <1>2, <1>5, <1>6, <1>7, BecomeGood DEF Good

LEMMA UnlockSessionGood == ASSUME PointerGood, UnlockSession PROVE PointerGood'
<1> DEFINE r == [ptr EXCEPT !.locked = FALSE]
<1> HIDE DEF NoWindow, Windows, Surfaces
<1>1. Good(ptr) /\ PtrGood(ptr) /\ TouchGood(ptr) /\ Quiet(ptr) = ptr /\ ptr \in PtrType
  BY QuietSame DEF PointerGood, Good, PtrGood
<1>2. Become(During(ptr, r))
  BY <1>1 DEF UnlockSession
<1>3. r \in PtrType
  BY <1>1, Zenon DEF PtrType
<1>4. /\ SameViews(r, ptr) /\ SameSeat(r, ptr) /\ r.mapped = ptr.mapped /\ r.locked = FALSE
      /\ r.suppress = ptr.suppress /\ r.pending_menu = ptr.pending_menu
      /\ r.split_window = ptr.split_window
      /\ r.kept = ptr.kept /\ r.stray = ptr.stray /\ r.disturbed = ptr.disturbed
      /\ r.held = ptr.held /\ r.touch = ptr.touch /\ r.seat_touch = ptr.seat_touch
      /\ r.feedback = ptr.feedback
  BY <1>1 DEF PtrType, SameViews, SameSeat
<1> HIDE DEF r
<1>5. PtrGood(r)
  BY <1>1, <1>3, <1>4 DEF PtrGood, SameViews, SameSeat
<1>6. TouchGood(r) /\ SameDown(r, ptr)
  BY <1>1, <1>4 DEF TouchGood, PointerTouches, SameDown
<1>7. LooseClick(r, ptr)
  BY <1>1, <1>4 DEF LooseClick, SameSeat, Good, ClickGood
<1> QED
  BY <1>1, <1>2, <1>4, <1>5, <1>6, <1>7, DuringGood, BecomeGood

\* The window leaves mapped, after the views on it were closed.
LeftBy(st, r) ==
  /\ PtrGood(r) /\ r.pending_menu \in {st.pending_menu, NoWindow}
  /\ r.locked = st.locked /\ r.held = st.held /\ r.touch = st.touch
  /\ r.seat_touch = st.seat_touch /\ r.feedback = st.feedback
  /\ r.disturbed = st.disturbed /\ r.suppress = st.suppress
  /\ r.kept = st.kept /\ r.stray = st.stray /\ r.buttons = st.buttons

LEMMA WindowGone ==
  ASSUME NEW st, PtrGood(st), NEW w \in Windows, st.menu # w, st.split_window # w
  PROVE  LET gone == [st EXCEPT !.pending_menu = IF @ = w THEN NoWindow ELSE @,
                                !.mapped = @ \ {w}]
         IN  LeftBy(st, IF gone.grabbed = w THEN ResetCursorMode(gone) ELSE gone)
<1> DEFINE gone == [st EXCEPT !.pending_menu = IF @ = w THEN NoWindow ELSE @,
                              !.mapped = @ \ {w}]
           r == IF gone.grabbed = w THEN ResetCursorMode(gone) ELSE gone
<1> HIDE DEF NoWindow, Windows, Surfaces
<1> DEFINE p == IF st.pending_menu = w THEN NoWindow ELSE st.pending_menu
           m == st.mapped \ {w}
<1>1. st \in PtrType
  BY DEF PtrGood
<1>2. gone \in PtrType
  <2>1. gone = [st EXCEPT !.pending_menu = p, !.mapped = m]
    BY <1>1 DEF PtrType
  <2>2. p \in Windows \cup {NoWindow} /\ m \in SUBSET Windows
    BY <1>1 DEF PtrType
  <2> HIDE DEF p, m, gone
  <2> QED
    BY <1>1, <2>1, <2>2, Zenon DEF PtrType
<1>3. /\ gone.pending_menu = IF st.pending_menu = w THEN NoWindow ELSE st.pending_menu
      /\ gone.mapped = st.mapped \ {w}
      /\ SameViews(gone, st) /\ SameSeat(gone, st) /\ gone.split_window = st.split_window
      /\ gone.locked = st.locked /\ gone.held = st.held /\ gone.touch = st.touch
      /\ gone.seat_touch = st.seat_touch /\ gone.feedback = st.feedback
      /\ gone.disturbed = st.disturbed /\ gone.suppress = st.suppress
      /\ gone.kept = st.kept /\ gone.stray = st.stray
  BY <1>1 DEF PtrType, SameViews, SameSeat
<1> HIDE DEF gone
<1>4. r \in PtrType
  <2>1. ResetCursorMode(gone) \in PtrType
    BY <1>2, Zenon DEF ResetCursorMode, PtrType
  <2> QED
    BY <1>2, <2>1
<1>5. /\ r.grabbed = IF gone.grabbed = w THEN NoWindow ELSE gone.grabbed
      /\ r.cursor_mode_ = IF gone.grabbed = w THEN "passthrough" ELSE gone.cursor_mode_
      /\ r.focus = gone.focus /\ r.buttons = gone.buttons /\ r.menu = gone.menu
      /\ r.split_window = gone.split_window /\ r.mapped = gone.mapped
      /\ r.pending_menu = gone.pending_menu
      /\ r.locked = gone.locked /\ r.held = gone.held /\ r.touch = gone.touch
      /\ r.seat_touch = gone.seat_touch /\ r.feedback = gone.feedback
      /\ r.disturbed = gone.disturbed /\ r.suppress = gone.suppress
      /\ r.kept = gone.kept /\ r.stray = gone.stray
  BY <1>2 DEF ResetCursorMode, PtrType
<1> HIDE DEF r
<1>6. {r.grabbed, r.menu, r.pending_menu, r.split_window} \subseteq r.mapped \cup {NoWindow}
  BY <1>3, <1>5 DEF PtrGood, SameViews, SameSeat
<1>7. (r.cursor_mode_ = "passthrough") = (r.grabbed = NoWindow)
  BY <1>3, <1>5, Windowed DEF PtrGood, SameSeat
<1>8. PtrGood(r)
  BY <1>3, <1>4, <1>5, <1>6, <1>7 DEF PtrGood, SameSeat
<1>9. LeftBy(st, r)
  BY <1>3, <1>5, <1>8 DEF LeftBy, SameSeat
<1> QED
  BY <1>9 DEF r, gone

LEMMA OnUnmapGood ==
  ASSUME NEW st, Good(st), NEW w \in Windows
  PROVE  LET r == OnUnmap(st, w) IN
         /\ PtrGood(r) /\ TouchGood(r) /\ LooseClick(r, st) /\ SameDown(r, st)
         /\ r.disturbed = st.disturbed
<1> DEFINE menu == IF st.menu = w THEN CancelMenu(st) ELSE st
           split == IF menu.split_window = w THEN CancelSplit(menu) ELSE menu
           shown == IF st.mapped = {w} THEN CancelPreviews(split) ELSE split
           gone == [shown EXCEPT !.pending_menu = IF @ = w THEN NoWindow ELSE @,
                                 !.mapped = @ \ {w}]
           r == IF gone.grabbed = w THEN ResetCursorMode(gone) ELSE gone
<1>0. OnUnmap(st, w) = r
  BY Zenon DEF OnUnmap
<1> HIDE DEF NoWindow, Windows, Surfaces
<1>1. PtrGood(st) /\ TouchGood(st) /\ ~st.stray
  BY DEF Good, ClickGood
<1>2. Calm(st, menu) /\ PtrGood(menu) /\ menu.menu # w
  BY <1>1, CancelMenuCalm, CalmSelf, CalmGoodPtr, Windowed
<1> HIDE DEF menu
<1>3. Calm(menu, split) /\ PtrGood(split) /\ split.menu # w
  BY <1>2, CancelSplitCalm, CalmSelf, CalmGoodPtr DEF SameViews
<1>4. split.split_window # w
  BY <1>2, Windowed DEF PtrGood, PtrType, CancelSplit
<1> HIDE DEF split
<1>5. Calm(split, shown) /\ PtrGood(shown) /\ shown.menu # w
  BY <1>3, CancelPreviewsCalm, CalmSelf, CalmGoodPtr
<1>6. shown.split_window # w
  BY <1>3, <1>4 DEF PtrGood, PtrType, CancelPreviews
<1> HIDE DEF shown
<1>7. Calm(st, shown)
  BY <1>2, <1>3, <1>5, CalmTrans
<1>8. LeftBy(shown, r)
  BY <1>5, <1>6, WindowGone, Zenon
<1> HIDE DEF gone, r
<1>9. TouchGood(r) /\ SameDown(r, st) /\ r.disturbed = st.disturbed
  BY <1>1, <1>7, <1>8 DEF LeftBy, Calm, SameOutside, TouchGood, PointerTouches, SameDown
<1>10. LooseClick(r, st)
  BY <1>1, <1>7, <1>8 DEF LeftBy, Calm, SameClick, LooseClick
<1> QED
  BY <1>0, <1>8, <1>9, <1>10 DEF LeftBy

LEMMA UnmapGood == ASSUME PointerGood, NEW w \in Windows, Unmap(w) PROVE PointerGood'
<1>1. Good(ptr) /\ PtrGood(ptr) /\ Quiet(ptr) = ptr /\ ptr \in PtrType
  BY QuietSame DEF PointerGood, Good, PtrGood
<1>2. PICK x \in {"off", "up", "down"} :
        Become(During(ptr, [OnUnmap(ptr, w) EXCEPT !.selector = x]))
  BY <1>1 DEF Unmap, PtrType
<1> DEFINE u == OnUnmap(ptr, w)
           r == [u EXCEPT !.selector = x]
<1>3. /\ PtrGood(u) /\ TouchGood(u) /\ LooseClick(u, ptr) /\ SameDown(u, ptr)
      /\ u.disturbed = ptr.disturbed
  BY <1>1, OnUnmapGood
<1> HIDE DEF u
<1>4. Calm(u, r)
  BY <1>3, SelectorPhaseCalm, Zenon
<1>5. Become(During(ptr, r))
  BY <1>2 DEF u
<1> HIDE DEF r
<1>6. PtrGood(r) /\ TouchGood(r) /\ SameDown(r, ptr) /\ r.disturbed = ptr.disturbed
  BY <1>3, <1>4 DEF Calm, SameOutside, TouchGood, PointerTouches, SameDown
<1>7. LooseClick(r, ptr)
  BY <1>3, <1>4 DEF Calm, SameClick, LooseClick
<1> QED
  BY <1>1, <1>5, <1>6, <1>7, DuringGood, BecomeGood

(***************************************************************************)
(* Fingers.                                                                *)
(***************************************************************************)
\* The touch points, the seat's and the marks of r; the rest is as in st.
Fingers(st, r, t, s, f) ==
  /\ Alike(r, st) /\ PtrGood(r) /\ r.held = st.held
  /\ r.touch = t /\ r.seat_touch = s /\ r.feedback = f

LEMMA FingersSet ==
  ASSUME NEW st, PtrGood(st), NEW t \in [TouchIds -> TouchModes \cup {"none"}],
         NEW s \in [TouchIds -> Surfaces \cup {NoWindow}], NEW f \in SUBSET TouchIds
  PROVE  Fingers(st, [st EXCEPT !.touch = t, !.seat_touch = s, !.feedback = f], t, s, f)
<1> DEFINE r == [st EXCEPT !.touch = t, !.seat_touch = s, !.feedback = f]
<1> HIDE DEF NoWindow, Windows, Surfaces
<1>1. st \in PtrType
  BY DEF PtrGood
<1>2. r \in PtrType
  BY <1>1, Zenon DEF PtrType
<1>3. /\ Alike(r, st) /\ r.held = st.held /\ r.touch = t /\ r.seat_touch = s /\ r.feedback = f
  BY <1>1 DEF PtrType, Alike, SameViews, SameSeat
<1> HIDE DEF r
<1>4. Fingers(st, r, t, s, f)
  BY <1>2, <1>3, AlikeGood DEF Fingers
<1> QED
  BY <1>4 DEF r

LEMMA FingersTrans ==
  ASSUME NEW a, NEW b, NEW c, NEW t, NEW s, NEW f, NEW u, NEW v, NEW g,
         Fingers(a, b, t, s, f), Fingers(b, c, u, v, g)
  PROVE  Fingers(a, c, u, v, g)
BY DEF Fingers, Alike, SameViews, SameSeat

\* The ways in which the handlers write them.
LEMMA AddTouchPointFingers ==
  ASSUME NEW st, PtrGood(st), NEW i \in TouchIds, NEW mode \in TouchModes \cup {"none"}
  PROVE  Fingers(st, AddTouchPoint(st, i, mode),
                 [st.touch EXCEPT ![i] = mode], st.seat_touch, st.feedback)
<1> DEFINE t == [st.touch EXCEPT ![i] = mode]
           r == [st EXCEPT !.touch = t, !.seat_touch = st.seat_touch, !.feedback = st.feedback]
<1>1. st \in PtrType
  BY DEF PtrGood
<1>2. /\ t \in [TouchIds -> TouchModes \cup {"none"}]
      /\ st.seat_touch \in [TouchIds -> Surfaces \cup {NoWindow}] /\ st.feedback \in SUBSET TouchIds
  BY <1>1 DEF PtrType
<1>3. AddTouchPoint(st, i, mode) = r
  BY <1>1, Zenon DEF AddTouchPoint, PtrType
<1> HIDE DEF t
<1>4. Fingers(st, r, t, st.seat_touch, st.feedback)
  BY <1>2, FingersSet, Zenon
<1> HIDE DEF r
<1> QED
  BY <1>3, <1>4 DEF t

LEMMA ShowFingers ==
  ASSUME NEW st, PtrGood(st), NEW i \in TouchIds
  PROVE  Fingers(st, [st EXCEPT !.feedback = @ \cup {i}],
                 st.touch, st.seat_touch, st.feedback \cup {i})
<1> DEFINE f == st.feedback \cup {i}
           r == [st EXCEPT !.touch = st.touch, !.seat_touch = st.seat_touch, !.feedback = f]
<1>1. st \in PtrType
  BY DEF PtrGood
<1>2. /\ st.touch \in [TouchIds -> TouchModes \cup {"none"}]
      /\ st.seat_touch \in [TouchIds -> Surfaces \cup {NoWindow}] /\ f \in SUBSET TouchIds
  BY <1>1 DEF PtrType
<1>3. [st EXCEPT !.feedback = @ \cup {i}] = r
  BY <1>1, Zenon DEF PtrType
<1> HIDE DEF f
<1>4. Fingers(st, r, st.touch, st.seat_touch, f)
  BY <1>2, FingersSet, Zenon
<1> HIDE DEF r
<1> QED
  BY <1>3, <1>4 DEF f

LEMMA SeatTouchFingers ==
  ASSUME NEW st, PtrGood(st), NEW i \in TouchIds, NEW x \in Surfaces \cup {NoWindow}
  PROVE  Fingers(st, [st EXCEPT !.seat_touch[i] = x],
                 st.touch, [st.seat_touch EXCEPT ![i] = x], st.feedback)
<1> DEFINE s == [st.seat_touch EXCEPT ![i] = x]
           r == [st EXCEPT !.touch = st.touch, !.seat_touch = s, !.feedback = st.feedback]
<1>1. st \in PtrType
  BY DEF PtrGood
<1>2. /\ st.touch \in [TouchIds -> TouchModes \cup {"none"}]
      /\ s \in [TouchIds -> Surfaces \cup {NoWindow}] /\ st.feedback \in SUBSET TouchIds
  BY <1>1 DEF PtrType
<1>3. [st EXCEPT !.seat_touch[i] = x] = r
  BY <1>1, Zenon DEF PtrType
<1> HIDE DEF s
<1>4. Fingers(st, r, st.touch, s, st.feedback)
  BY <1>2, FingersSet, Zenon
<1> HIDE DEF r
<1> QED
  BY <1>3, <1>4 DEF s

\* An event that leaves the finger that plays the left button alone.
LEMMA FingersDuring ==
  ASSUME NEW st, Good(st), NEW a, Calm(st, a), NEW r, NEW t, NEW s, NEW f, Fingers(a, r, t, s, f),
         TouchGood(r), PointerTouches(r) = PointerTouches(st)
  PROVE  Good(During(st, r))
<1>1. PtrGood(r) /\ SameDown(r, st) /\ r.disturbed = st.disturbed
  BY DEF Fingers, Alike, Calm, SameOutside, SameDown
<1>2. LooseClick(r, st)
  BY DEF Fingers, Alike, SameSeat, Calm, SameClick, LooseClick, Good, ClickGood
<1> QED
  BY <1>1, <1>2, DuringGood

\* A finger that is tracked from now on, and does not play the left button.
LEMMA AddedFinger ==
  ASSUME NEW st, TouchGood(st), NEW i \in TouchIds, st.touch[i] = "none",
         st.touch \in [TouchIds -> TouchModes \cup {"none"}],
         NEW mode \in TouchModes \ {"pointer"}, NEW r, r.locked = st.locked,
         r.touch = [st.touch EXCEPT ![i] = mode],
         \A j \in TouchIds \ {i} : r.seat_touch[j] = st.seat_touch[j],
         r.seat_touch[i] # NoWindow => mode = "native",
         r.locked => r.seat_touch[i] \notin Windows,
         r.feedback \subseteq st.feedback \cup {i}
  PROVE  TouchGood(r) /\ PointerTouches(r) = PointerTouches(st)
<1>1. /\ r.touch[i] = mode /\ mode # "none" /\ mode # "pointer"
      /\ \A j \in TouchIds \ {i} : r.touch[j] = st.touch[j]
  BY DEF TouchModes
<1>2. PointerTouches(r) = PointerTouches(st)
  BY <1>1 DEF PointerTouches
<1> QED
  BY <1>1, <1>2 DEF TouchGood

\* A view takes the finger.
LEMMA ViewFinger ==
  ASSUME NEW st, Good(st), NEW i \in TouchIds, st.touch[i] = "none", NEW a, Calm(st, a),
         NEW mode \in TouchModes \ {"pointer"}
  PROVE  Good(During(st, AddTouchPoint(a, i, mode)))
<1> DEFINE r == AddTouchPoint(a, i, mode)
<1>1. PtrGood(a) /\ PtrGood(st) /\ TouchGood(st) /\ SameOutside(a, st) /\ st \in PtrType
  BY DEF Calm, Good, PtrGood
<1>2. Fingers(a, r, [a.touch EXCEPT ![i] = mode], a.seat_touch, a.feedback)
  BY <1>1, AddTouchPointFingers
<1> HIDE DEF r
<1>3. /\ st.touch \in [TouchIds -> TouchModes \cup {"none"}] /\ r.locked = st.locked
      /\ r.touch = [st.touch EXCEPT ![i] = mode] /\ r.seat_touch = st.seat_touch
      /\ r.feedback = st.feedback
  BY <1>1, <1>2 DEF Fingers, Alike, SameOutside, PtrType
<1>4. st.seat_touch[i] = NoWindow /\ NoWindow \notin Windows
  BY <1>1, Windowed DEF TouchGood
<1>5. TouchGood(r) /\ PointerTouches(r) = PointerTouches(st)
  BY <1>1, <1>3, <1>4, AddedFinger
<1> QED
  BY <1>2, <1>5, FingersDuring DEF r

\* The seat, or nobody, takes the finger.
LEMMA SurfaceFinger ==
  ASSUME NEW st, Good(st), NEW i \in TouchIds, st.touch[i] = "none", NEW in, InputGood(st, in),
         NEW shown, Fingers(st, shown, st.touch, st.seat_touch, st.feedback \cup {i})
  PROVE  /\ Good(During(st, AddTouchPoint(shown, i, "ignored")))
         /\ SurfaceOf(in.hit) \in TakesTouch =>
              Good(During(st, AddTouchPoint([shown EXCEPT !.seat_touch[i] = SurfaceOf(in.hit)],
                                            i, "native")))
<1> HIDE DEF NoWindow, Windows, Surfaces, LockSurface
<1>1. PtrGood(st) /\ TouchGood(st) /\ Calm(st, st) /\ PtrGood(shown) /\ st \in PtrType
  BY CalmSelf DEF Good, PtrGood, Fingers
<1>2. st.seat_touch[i] = NoWindow /\ NoWindow \notin Windows
  BY <1>1, Windowed DEF TouchGood
<1>3. st.touch \in [TouchIds -> TouchModes \cup {"none"}]
      /\ st.seat_touch \in [TouchIds -> Surfaces \cup {NoWindow}]
  BY <1>1 DEF PtrType
<1>4. Good(During(st, AddTouchPoint(shown, i, "ignored")))
  <2> DEFINE r == AddTouchPoint(shown, i, "ignored")
  <2>1. "ignored" \in TouchModes \ {"pointer"}
    BY DEF TouchModes
  <2>2. Fingers(shown, r, [shown.touch EXCEPT ![i] = "ignored"], shown.seat_touch, shown.feedback)
    BY <1>1, <2>1, AddTouchPointFingers
  <2> HIDE DEF r
  <2>3. Fingers(st, r, r.touch, r.seat_touch, r.feedback) /\ r.locked = st.locked
        /\ r.touch = [st.touch EXCEPT ![i] = "ignored"] /\ r.seat_touch = st.seat_touch
        /\ r.feedback = st.feedback \cup {i}
    BY <2>2 DEF Fingers, Alike, SameViews, SameSeat
  <2>4. TouchGood(r) /\ PointerTouches(r) = PointerTouches(st)
    BY <1>1, <1>2, <1>3, <2>1, <2>3, AddedFinger
  <2> QED
    BY <1>1, <2>3, <2>4, FingersDuring DEF r
<1>5. ASSUME SurfaceOf(in.hit) \in TakesTouch
      PROVE  Good(During(st, AddTouchPoint([shown EXCEPT !.seat_touch[i] = SurfaceOf(in.hit)],
                                           i, "native")))
  <2> DEFINE x == SurfaceOf(in.hit)
             n == [shown EXCEPT !.seat_touch[i] = x]
             r == AddTouchPoint(n, i, "native")
  <2>1. "native" \in TouchModes \ {"pointer"}
    BY DEF TouchModes
  <2>2. x \in Surfaces /\ (st.locked => x \notin Windows)
    BY <1>5, Windowed, PointerAssumption DEF SurfaceOf, InputGood
  <2> HIDE DEF x
  <2>3. Fingers(shown, n, shown.touch, [shown.seat_touch EXCEPT ![i] = x], shown.feedback)
    BY <1>1, <2>2, SeatTouchFingers
  <2> HIDE DEF n
  <2>4. PtrGood(n)
    BY <2>3 DEF Fingers
  <2>5. Fingers(n, r, [n.touch EXCEPT ![i] = "native"], n.seat_touch, n.feedback)
    BY <2>1, <2>4, AddTouchPointFingers
  <2> HIDE DEF r
  <2>6. Fingers(st, r, r.touch, r.seat_touch, r.feedback) /\ r.locked = st.locked
        /\ r.touch = [st.touch EXCEPT ![i] = "native"]
        /\ r.seat_touch = [st.seat_touch EXCEPT ![i] = x]
        /\ r.feedback = st.feedback \cup {i}
    BY <2>3, <2>5 DEF Fingers, Alike, SameViews, SameSeat
  <2>7. r.seat_touch[i] = x /\ \A j \in TouchIds \ {i} : r.seat_touch[j] = st.seat_touch[j]
    BY <1>3, <2>6
  <2>8. TouchGood(r) /\ PointerTouches(r) = PointerTouches(st)
    BY <1>1, <1>3, <2>1, <2>2, <2>6, <2>7, AddedFinger
  <2> QED
    BY <1>1, <2>6, <2>8, FingersDuring DEF r, n, x
<1> QED
  BY <1>4, <1>5

\* Dismissing the menu means the same before and after a motion over it.
LEMMA DismissedSame ==
  ASSUME NEW st, PtrGood(st), NEW p, PtrGood(p), Receiver(p) = Receiver(st),
         NEW n, NEW r, Receiver(r) = Receiver(n)
  PROVE  Dismissed(p, n) <=> Dismissed(st, r)
<1>1. p.menu = st.menu
  BY ReceiverFields
<1>2. Receiver(CancelMenu(p)) = Receiver(CancelMenu(st))
  <2>1. /\ Calm(p, CancelMenu(p)) /\ CancelMenu(p).menu = NoWindow
        /\ CancelMenu(p).multitasking = p.multitasking /\ CancelMenu(p).previews = p.previews
        /\ CancelMenu(p).selector = p.selector /\ CancelMenu(p).split = p.split
    BY CancelMenuCalm
  <2>2. /\ Calm(st, CancelMenu(st)) /\ CancelMenu(st).menu = NoWindow
        /\ CancelMenu(st).multitasking = st.multitasking /\ CancelMenu(st).previews = st.previews
        /\ CancelMenu(st).selector = st.selector /\ CancelMenu(st).split = st.split
    BY CancelMenuCalm
  <2>3. CancelMenu(p).locked = p.locked /\ CancelMenu(st).locked = st.locked
    BY <2>1, <2>2 DEF Calm, SameOutside
  <2> QED
    BY <2>1, <2>2, <2>3, ReceiverFields, ReceiverEqual
<1>3. TakesAll(n) <=> TakesAll(r)
  BY ReceiverFields DEF TakesAll
<1> QED
  BY <1>1, <1>2, <1>3 DEF Dismissed

\* The finger plays the left button.
LEMMA PointerFinger ==
  ASSUME NEW st, Good(st), NEW i \in TouchIds, st.touch[i] = "none", PointerTouches(st) = {},
         st.buttons["left"] < MaxPressed, NEW in, InputGood(st, in),
         NEW shown, Fingers(st, shown, st.touch, st.seat_touch, st.feedback \cup {i})
  PROVE  LET n == OnCursorButton(ProcessCursorMotion(shown, in), "left", TRUE, in) IN
         Good(AtPress(st, AddTouchPoint(n, i, "pointer")))
<1> DEFINE p == ProcessCursorMotion(shown, in)
           n == OnCursorButton(p, "left", TRUE, in)
           r == AddTouchPoint(n, i, "pointer")
           d == Down(st) # {} \/ (Receiver(st) # Receiver(r) /\ ~Dismissed(st, r))
<1>0. "left" \in Buttons /\ "pointer" \in TouchModes /\ d \in BOOLEAN
  BY PointerAssumption DEF TouchModes
<1>1. PtrGood(st) /\ TouchGood(st) /\ ClickGood(st) /\ PtrGood(shown) /\ st \in PtrType
  BY DEF Good, PtrGood, Fingers
<1>2. InputGood(shown, in)
  BY DEF Fingers, Alike, InputGood
<1>3. Calm(shown, p) /\ SameViews(p, shown) /\ (shown.menu # NoWindow => p.split = shown.split)
  BY <1>1, <1>2, MotionCalm
<1> HIDE DEF p
<1>4. PtrGood(p) /\ InputGood(p, in) /\ p.buttons["left"] < MaxPressed
  <2>1. p.buttons["left"] \in {st.buttons["left"], 0}
    BY <1>0, <1>3, Windowed DEF Calm, SameClick, Fingers, Alike, SameSeat
  <2>2. 0 < MaxPressed
    BY PointerAssumption
  <2> QED
    BY <1>2, <1>3, <2>1, <2>2, InputKept DEF Calm
<1>5. Pressed(p, n, "left")
  BY <1>0, <1>4, PressGood, Zenon
<1> HIDE DEF n
<1>6. PtrGood(n) /\ SameOutside(n, p)
  BY <1>5 DEF Pressed
<1>7. Fingers(n, r, [n.touch EXCEPT ![i] = "pointer"], n.seat_touch, n.feedback)
  BY <1>0, <1>6, AddTouchPointFingers
<1> HIDE DEF r
<1>8. /\ r.touch = [st.touch EXCEPT ![i] = "pointer"] /\ r.seat_touch = st.seat_touch
      /\ r.feedback = st.feedback \cup {i} /\ r.locked = st.locked /\ r.held = st.held
      /\ r.disturbed = st.disturbed
  BY <1>3, <1>6, <1>7, Zenon DEF Fingers, Alike, Calm, SameOutside
<1>9. r.touch[i] = "pointer" /\ \A j \in TouchIds \ {i} : r.touch[j] = st.touch[j]
  BY <1>1, <1>8 DEF PtrType
<1>10. PointerTouches(r) = {i}
  BY <1>9 DEF PointerTouches
<1>11. TouchGood(r)
  BY <1>1, <1>8, <1>9, <1>10 DEF TouchGood
<1>12. ~(r.disturbed \/ d) => ClickGood(r)
  <2> SUFFICES ASSUME ~(r.disturbed \/ d) PROVE ClickGood(r)
    OBVIOUS
  <2>1. Down(st) = {} /\ ~st.disturbed /\ st.held = {}
    BY <1>8 DEF Down
  <2>2. Fresh(st) /\ ~st.stray
    BY <1>1, <2>1 DEF ClickGood
  <2>3. Fresh(shown) /\ ~shown.stray
    BY <2>2, AlikeGood DEF Fingers, Alike
  <2>4. Fresh(p) /\ ~p.stray
    BY <1>3, <2>3, FreshCalm DEF Calm, SameClick
  <2>5. Receiver(r) = Receiver(n)
    BY <1>7, AlikeGood DEF Fingers
  <2>6. ~Turned(p, n, "left")
    <3> SUFFICES ASSUME Turned(p, n, "left") PROVE FALSE
      OBVIOUS
    <3>1. p.menu # NoWindow /\ Receiver(n) # Receiver(p) /\ ~Dismissed(p, n)
      BY DEF Turned
    <3>2. Receiver(p) = Receiver(shown)
      BY <1>3, <3>1, ReceiverEqual DEF Calm, SameOutside, SameViews
    <3>3. Receiver(shown) = Receiver(st)
      BY AlikeGood DEF Fingers
    <3>4. ~Dismissed(st, r)
      BY <1>1, <1>4, <2>5, <3>1, <3>2, <3>3, DismissedSame
    <3> QED
      BY <2>5, <3>1, <3>2, <3>3, <3>4
  <2>7. /\ Clean(n, "left") /\ n.kept \subseteq {"left"} /\ ~n.stray
        /\ \A c \in Buttons \ {"left"} : n.buttons[c] = 0
    BY <1>5, <2>4, <2>6 DEF Pressed, Fresh
  <2>8. Down(r) = {"left"} /\ r.held = {}
    BY <1>8, <1>10, <2>1 DEF Down
  <2>9. ~n.disturbed /\ Alike(r, n)
    BY <1>7, <1>8, <2>1 DEF Fingers, Alike
  <2> QED
    BY <1>0, <1>1, <2>1, <2>7, <2>8, <2>9, ClickBegins
<1>13. Good(Disturb(r, d))
  BY <1>0, <1>7, <1>11, <1>12, DisturbGood, Zenon DEF Fingers
<1> QED
  BY <1>13, PressDisturbs, Zenon DEF r, n, p

LEMMA TouchDownGood ==
  ASSUME PointerGood, NEW i \in TouchIds, TouchDown(i) PROVE PointerGood'
<1>1. Good(ptr) /\ PtrGood(ptr) /\ Quiet(ptr) = ptr /\ ptr.touch[i] = "none"
      /\ ptr.buttons["left"] < MaxPressed /\ Calm(ptr, ptr)
  BY QuietSame, CalmSelf DEF PointerGood, Good, TouchDown
<1>2. PICK in \in PressInputs(ptr) :
        LET after == OnTouchDown(ptr, i, in) IN
         Become(IF after.touch[i] = "pointer" THEN AtPress(ptr, after) ELSE During(ptr, after))
  BY <1>1 DEF TouchDown
<1>3. InputGood(ptr, in)
  BY <1>1, InputsGood
<1> DEFINE r == OnTouchDown(ptr, i, in)
           shown == [ptr EXCEPT !.feedback = @ \cup {i}]
<1>4. Become(IF r.touch[i] = "pointer" THEN AtPress(ptr, r) ELSE During(ptr, r))
  BY <1>2
<1>5. ASSUME NEW a, PtrGood(a), NEW mode \in TouchModes, r = AddTouchPoint(a, i, mode)
      PROVE  r.touch[i] = mode
  BY <1>5 DEF AddTouchPoint, PtrGood, PtrType
<1>6. ASSUME NEW a, Calm(ptr, a), NEW mode \in TouchModes \ {"pointer"},
             r = AddTouchPoint(a, i, mode)
      PROVE  PointerGood'
  <2>1. r.touch[i] = mode /\ mode # "pointer"
    BY <1>5, <1>6, CalmGoodPtr
  <2>2. Good(During(ptr, r))
    BY <1>1, <1>6, ViewFinger
  <2> HIDE DEF r
  <2> QED
    BY <1>4, <2>1, <2>2, BecomeGood
<1>7. CASE ptr.multitasking # "off"
  <2> DEFINE a == MultitaskingHandleButton(ptr, "left", TRUE, in)
  <2>1. Calm(ptr, a)
    BY <1>1, MultitaskingHandleButtonCalm, Zenon
  <2>2. r = AddTouchPoint(a, i, "multitasking")
    BY <1>7 DEF OnTouchDown
  <2> HIDE DEF a, r
  <2> QED
    BY <1>6, <2>1, <2>2 DEF TouchModes
<1>8. CASE ptr.multitasking = "off" /\ ptr.previews # "off"
  <2> DEFINE a == PreviewsHandleButton(ptr, "left", TRUE, in)
  <2>1. Calm(ptr, a)
    BY <1>1, PreviewsHandleButtonCalm, Zenon
  <2>2. r = AddTouchPoint(a, i, "previews")
    BY <1>8 DEF OnTouchDown
  <2> HIDE DEF a, r
  <2> QED
    BY <1>6, <2>1, <2>2 DEF TouchModes
<1>9. CASE ptr.multitasking = "off" /\ ptr.previews = "off" /\ ptr.selector # "off"
  <2> DEFINE a == SelectorHandleButton(ptr, "left", TRUE, in)
  <2>1. Calm(ptr, a)
    BY <1>1, SelectorHandleButtonCalm, Zenon
  <2>2. r = AddTouchPoint(a, i, "selector")
    BY <1>9 DEF OnTouchDown
  <2> HIDE DEF a, r
  <2> QED
    BY <1>6, <2>1, <2>2 DEF TouchModes
<1>10. CASE ptr.multitasking = "off" /\ ptr.previews = "off" /\ ptr.selector = "off"
  <2>1. Fingers(ptr, shown, ptr.touch, ptr.seat_touch, ptr.feedback \cup {i})
    BY <1>1, ShowFingers, Zenon
  <2> DEFINE s == SurfaceOf(in.hit)
             n == [shown EXCEPT !.seat_touch[i] = s]
             c == OnCursorButton(ProcessCursorMotion(shown, in), "left", TRUE, in)
  <2>2. r = IF s \in TakesTouch THEN AddTouchPoint(n, i, "native")
            ELSE IF PointerTouches(ptr) # {} THEN AddTouchPoint(shown, i, "ignored")
            ELSE AddTouchPoint(c, i, "pointer")
    BY <1>10 DEF OnTouchDown
  <2> HIDE DEF shown, r
  <2>3. CASE s \in TakesTouch
    <3>1. Good(During(ptr, AddTouchPoint(n, i, "native")))
      BY <1>1, <1>3, <2>1, <2>3, SurfaceFinger, Zenon
    <3>2. r = AddTouchPoint(n, i, "native")
      BY <2>2, <2>3
    <3>3. PtrGood(n)
      <4>1. s \in Surfaces \cup {NoWindow} /\ PtrGood(shown)
        BY <2>1, <2>3, PointerAssumption DEF Fingers
      <4> HIDE DEF s
      <4> QED
        BY <4>1, SeatTouchFingers, Zenon DEF Fingers
    <3> HIDE DEF n
    <3>4. r.touch[i] # "pointer"
      BY <1>5, <3>2, <3>3 DEF TouchModes
    <3> QED
      BY <1>4, <3>1, <3>2, <3>4, BecomeGood
  <2>4. CASE s \notin TakesTouch /\ PointerTouches(ptr) # {}
    <3>1. Good(During(ptr, AddTouchPoint(shown, i, "ignored")))
      BY <1>1, <1>3, <2>1, SurfaceFinger, Zenon
    <3>2. r = AddTouchPoint(shown, i, "ignored")
      BY <2>2, <2>4
    <3>3. r.touch[i] # "pointer"
      BY <1>5, <2>1, <3>2 DEF TouchModes, Fingers
    <3> QED
      BY <1>4, <3>1, <3>2, <3>3, BecomeGood
  <2>5. CASE s \notin TakesTouch /\ PointerTouches(ptr) = {}
    <3>1. Good(AtPress(ptr, AddTouchPoint(c, i, "pointer")))
      BY <1>1, <1>3, <2>1, <2>5, PointerFinger, Zenon
    <3>2. r = AddTouchPoint(c, i, "pointer")
      BY <2>2, <2>5
    <3>3. r.touch[i] = "pointer"
      <4>1. InputGood(shown, in) /\ PtrGood(shown) /\ shown.buttons = ptr.buttons
        BY <1>3, <2>1 DEF Fingers, Alike, SameSeat, InputGood
      <4>2. Calm(shown, ProcessCursorMotion(shown, in))
        BY <4>1, MotionCalm
      <4> DEFINE p == ProcessCursorMotion(shown, in)
      <4>3. PtrGood(p) /\ InputGood(p, in) /\ "left" \in Buttons
        BY <4>1, <4>2, InputKept, PointerAssumption DEF Calm
      <4>4. p.buttons["left"] < MaxPressed
        <5>1. p.buttons["left"] \in {ptr.buttons["left"], 0} /\ 0 < MaxPressed
          BY <4>1, <4>2, <4>3, Windowed, PointerAssumption DEF Calm, SameClick
        <5> QED
          BY <1>1, <5>1
      <4> HIDE DEF p
      <4>5. PtrGood(OnCursorButton(p, "left", TRUE, in))
        BY <4>3, <4>4, PressGood, Zenon DEF Pressed
      <4>6. PtrGood(c)
        BY <4>5, Zenon DEF p
      <4> HIDE DEF c
      <4> QED
        BY <1>5, <3>2, <4>6 DEF TouchModes
    <3> QED
      BY <1>4, <3>1, <3>2, <3>3, BecomeGood, Zenon
  <2> QED
    BY <2>3, <2>4, <2>5
<1> QED
  BY <1>7, <1>8, <1>9, <1>10

\* Fingers are no longer tracked, and have no touch point at the seat.
Lifted(st, r, S) ==
  /\ Fingers(st, r, r.touch, r.seat_touch, r.feedback) /\ TouchGood(r)
  /\ PointerTouches(r) = PointerTouches(st) \ S

LEMMA FingersLifted ==
  ASSUME NEW st, PtrGood(st), TouchGood(st), NEW S \in SUBSET TouchIds,
         \A j \in S : st.seat_touch[j] = NoWindow,
         NEW t \in [TouchIds -> TouchModes \cup {"none"}],
         \A j \in TouchIds : t[j] = IF j \in S THEN "none" ELSE st.touch[j]
  PROVE  Lifted(st, [st EXCEPT !.touch = t, !.feedback = @ \ S], S)
<1> DEFINE f == st.feedback \ S
           q == [st EXCEPT !.touch = t, !.seat_touch = st.seat_touch, !.feedback = f]
           r == [st EXCEPT !.touch = t, !.feedback = @ \ S]
<1>1. st \in PtrType
  BY DEF PtrGood
<1>2. /\ st.seat_touch \in [TouchIds -> Surfaces \cup {NoWindow}] /\ f \in SUBSET TouchIds
      /\ st.feedback \subseteq TouchIds
  BY <1>1 DEF PtrType
<1>3. r = q
  BY <1>1, Zenon DEF PtrType
<1> HIDE DEF f
<1>4. Fingers(st, q, t, st.seat_touch, f)
  BY <1>2, FingersSet, Zenon
<1> HIDE DEF q, r
<1>5. Fingers(st, r, t, st.seat_touch, f)
  BY <1>3, <1>4
<1>6. /\ r.touch = t /\ r.seat_touch = st.seat_touch /\ r.feedback = st.feedback \ S
      /\ r.locked = st.locked
  BY <1>5 DEF Fingers, Alike, f
<1>7. PointerTouches(r) = PointerTouches(st) \ S
  BY <1>6 DEF PointerTouches
<1>8. TouchGood(r)
  BY <1>2, <1>6, <1>7 DEF TouchGood
<1>9. Fingers(st, r, r.touch, r.seat_touch, r.feedback)
  BY <1>5 DEF Fingers
<1>10. Lifted(st, r, S)
  BY <1>7, <1>8, <1>9 DEF Lifted
<1> QED
  BY <1>10 DEF r

\* The finger that played the left button is up, and the button too.
LEMMA PointerLifted ==
  ASSUME NEW st, Good(st), PointerTouches(st) # {}, NEW a, Released(st, a, "left"),
         Clean(st, "left") => Over(a, "left"),
         NEW r, Fingers(a, r, r.touch, r.seat_touch, r.feedback),
         TouchGood(r), PointerTouches(r) = {}
  PROVE  Good(r)
<1>1. "left" \in Down(st) /\ PtrGood(st) /\ ClickGood(st) /\ ~st.stray /\ PtrGood(r)
  BY DEF Down, Good, ClickGood, Fingers
<1>2. /\ r.disturbed = st.disturbed /\ r.kept = st.kept \ {"left"} /\ r.held = st.held
      /\ r.stray => "left" \in st.kept
      /\ \A c \in Buttons \ {"left"} : r.buttons[c] \in {0, st.buttons[c]}
  BY <1>1 DEF Released, Fingers, Alike, SameSeat, SameOutside
<1>3. Clean(st, "left") => Over(r, "left")
  BY DEF Over, Fingers, Alike, SameSeat
<1>4. ~st.disturbed => Down(r) = {} /\ r.held = {}
  BY <1>1, <1>2 DEF ClickGood, Down
<1>5. ClickGood(r)
  BY <1>1, <1>2, <1>3, <1>4, ClickOver
<1> QED
  BY <1>1, <1>5 DEF Good

LEMMA ReleasedTouch ==
  ASSUME NEW st, TouchGood(st), NEW a, Released(st, a, "left")
  PROVE  /\ TouchGood(a) /\ PtrGood(a) /\ PointerTouches(a) = PointerTouches(st)
         /\ a.touch = st.touch /\ a.seat_touch = st.seat_touch
BY DEF Released, SameOutside, TouchGood, PointerTouches

LEMMA CalmTouch ==
  ASSUME NEW st, TouchGood(st), NEW a, Calm(st, a)
  PROVE  /\ TouchGood(a) /\ PtrGood(a) /\ PointerTouches(a) = PointerTouches(st)
         /\ a.touch = st.touch /\ a.seat_touch = st.seat_touch
BY DEF Calm, SameOutside, TouchGood, PointerTouches

\* The one finger that plays the left button.
LEMMA OnlyFinger ==
  ASSUME NEW st, TouchGood(st), NEW i \in TouchIds, st.touch[i] = "pointer"
  PROVE  PointerTouches(st) = {i} /\ st.seat_touch[i] = NoWindow
BY DEF TouchGood, PointerTouches

LEMMA TouchUpGood ==
  ASSUME PointerGood, NEW i \in TouchIds, TouchUp(i) PROVE PointerGood'
<1>1. /\ Good(ptr) /\ PtrGood(ptr) /\ TouchGood(ptr) /\ ClickGood(ptr) /\ Quiet(ptr) = ptr
      /\ ptr.touch[i] # "none" /\ Calm(ptr, ptr) /\ ptr \in PtrType
  BY QuietSame, CalmSelf DEF PointerGood, Good, TouchUp, PtrGood
<1>2. PICK in \in ReleaseInputs(ptr) :
        LET after == OnTouchUp(ptr, i, in) IN
         Become(IF ptr.touch[i] = "pointer" THEN after ELSE During(ptr, after))
  BY <1>1 DEF TouchUp
<1>3. InputGood(ptr, in) /\ ~ptr.stray /\ "left" \in Buttons
  BY <1>1, InputsGood, PointerAssumption DEF ClickGood
<1> DEFINE mode == ptr.touch[i]
           up == CASE mode = "native" -> [ptr EXCEPT !.seat_touch[i] = NoWindow]
                   [] mode = "pointer" -> OnCursorButton(ptr, "left", FALSE, in)
                   [] mode = "selector" -> SelectorHandleButton(ptr, "left", FALSE, in)
                   [] mode = "multitasking" -> MultitaskingHandleButton(ptr, "left", FALSE, in)
                   [] mode = "previews" -> PreviewsHandleButton(ptr, "left", FALSE, in)
                   [] OTHER -> ptr
           r == OnTouchUp(ptr, i, in)
<1>4. r = [up EXCEPT !.touch[i] = "none", !.feedback = @ \ {i}]
  BY Zenon DEF OnTouchUp
<1>5. Become(IF mode = "pointer" THEN r ELSE During(ptr, r))
  BY <1>2
<1> HIDE DEF r
<1>6. ASSUME PtrGood(up), TouchGood(up), up.seat_touch[i] = NoWindow
      PROVE  /\ Fingers(up, r, r.touch, r.seat_touch, r.feedback) /\ TouchGood(r)
             /\ PointerTouches(r) = PointerTouches(up) \ {i}
  <2> HIDE DEF up
  <2>1. up \in PtrType
    BY <1>6 DEF PtrGood
  <2> DEFINE t == [up.touch EXCEPT ![i] = "none"]
             q == [up EXCEPT !.touch = t, !.feedback = @ \ {i}]
  <2>2. t \in [TouchIds -> TouchModes \cup {"none"}]
        /\ \A j \in TouchIds : t[j] = IF j \in {i} THEN "none" ELSE up.touch[j]
    BY <2>1 DEF PtrType
  <2>3. r = q
    BY <1>4, <2>1 DEF PtrType
  <2> HIDE DEF t
  <2>4. {i} \in SUBSET TouchIds /\ \A j \in {i} : up.seat_touch[j] = NoWindow
    BY <1>6
  <2>5. Lifted(up, q, {i})
    BY <1>6, <2>2, <2>4, FingersLifted, Zenon
  <2> HIDE DEF q
  <2> QED
    BY <2>3, <2>5 DEF Lifted
<1>7. CASE mode = "pointer"
  <2>1. up = OnCursorButton(ptr, "left", FALSE, in)
    BY <1>7
  <2> HIDE DEF up
  <2>2. Released(ptr, up, "left") /\ (Clean(ptr, "left") => Over(up, "left"))
    BY <1>1, <1>3, <2>1, ReleaseGood, Zenon
  <2>3. PointerTouches(ptr) = {i} /\ ptr.seat_touch[i] = NoWindow
    BY <1>1, <1>7, OnlyFinger
  <2>4. /\ TouchGood(up) /\ PtrGood(up) /\ PointerTouches(up) = {i}
        /\ up.seat_touch[i] = NoWindow
    BY <1>1, <2>2, <2>3, ReleasedTouch
  <2>5. /\ Fingers(up, r, r.touch, r.seat_touch, r.feedback) /\ TouchGood(r)
        /\ PointerTouches(r) = {}
    BY <1>6, <2>4
  <2>6. Good(r)
    BY <1>1, <2>2, <2>3, <2>5, PointerLifted
  <2> QED
    BY <1>5, <1>7, <2>6, BecomeGood
<1>8. CASE mode = "native"
  <2>1. up = [ptr EXCEPT !.seat_touch[i] = NoWindow]
    BY <1>8
  <2> HIDE DEF up
  <2>2. Fingers(ptr, up, ptr.touch, [ptr.seat_touch EXCEPT ![i] = NoWindow], ptr.feedback)
    <3> DEFINE q == [ptr EXCEPT !.seat_touch[i] = NoWindow]
               s == [ptr.seat_touch EXCEPT ![i] = NoWindow]
    <3>1. NoWindow \in Surfaces \cup {NoWindow}
      OBVIOUS
    <3>2. Fingers(ptr, q, ptr.touch, s, ptr.feedback)
      BY <1>1, <3>1, SeatTouchFingers, Zenon
    <3> HIDE DEF q, s
    <3>3. up = q
      BY <2>1 DEF q
    <3>4. Fingers(ptr, up, ptr.touch, s, ptr.feedback)
      BY <3>2, <3>3
    <3> QED
      BY <3>4 DEF s
  <2>3. /\ PtrGood(up) /\ up.touch = ptr.touch /\ up.locked = ptr.locked
        /\ up.feedback = ptr.feedback /\ up.seat_touch[i] = NoWindow
        /\ \A j \in TouchIds \ {i} : up.seat_touch[j] = ptr.seat_touch[j]
    BY <1>1, <2>2 DEF Fingers, Alike, PtrType
  <2>4. TouchGood(up) /\ PointerTouches(up) = PointerTouches(ptr)
    BY <1>1, <2>3, Windowed DEF TouchGood, PointerTouches
  <2>5. /\ Fingers(up, r, r.touch, r.seat_touch, r.feedback) /\ TouchGood(r)
        /\ PointerTouches(r) = PointerTouches(ptr)
    BY <1>6, <1>8, <2>3, <2>4 DEF PointerTouches
  <2>6. Fingers(ptr, r, r.touch, r.seat_touch, r.feedback)
    BY <2>2, <2>5, FingersTrans
  <2>7. Good(During(ptr, r))
    BY <1>1, <2>5, <2>6, FingersDuring
  <2> QED
    BY <1>5, <1>8, <2>7, BecomeGood
<1>9. CASE mode \notin {"pointer", "native"}
  <2>1. Calm(ptr, up)
    <3>1. up \in {ptr, SelectorHandleButton(ptr, "left", FALSE, in),
                  MultitaskingHandleButton(ptr, "left", FALSE, in),
                  PreviewsHandleButton(ptr, "left", FALSE, in)}
      BY <1>9, Zenon
    <3> HIDE DEF up
    <3>2. /\ Calm(ptr, SelectorHandleButton(ptr, "left", FALSE, in))
          /\ Calm(ptr, MultitaskingHandleButton(ptr, "left", FALSE, in))
          /\ Calm(ptr, PreviewsHandleButton(ptr, "left", FALSE, in))
      BY <1>1, SelectorHandleButtonCalm, MultitaskingHandleButtonCalm, PreviewsHandleButtonCalm, Zenon
    <3> QED
      BY <1>1, <3>1, <3>2, Zenon
  <2> HIDE DEF up
  <2>2. ptr.seat_touch[i] = NoWindow
    BY <1>1, <1>9 DEF TouchGood
  <2>3. /\ TouchGood(up) /\ PtrGood(up) /\ PointerTouches(up) = PointerTouches(ptr)
        /\ up.seat_touch[i] = NoWindow
    BY <1>1, <2>1, <2>2, CalmTouch
  <2>4. /\ Fingers(up, r, r.touch, r.seat_touch, r.feedback) /\ TouchGood(r)
        /\ PointerTouches(r) = PointerTouches(ptr)
    BY <1>6, <1>9, <2>3 DEF PointerTouches
  <2>5. Good(During(ptr, r))
    BY <1>1, <2>1, <2>4, FingersDuring
  <2> QED
    BY <1>5, <1>9, <2>5, BecomeGood
<1> QED
  BY <1>7, <1>8, <1>9

LEMMA TouchCancelGood ==
  ASSUME PointerGood, NEW i \in TouchIds, TouchCancel(i) PROVE PointerGood'
<1>1. /\ Good(ptr) /\ PtrGood(ptr) /\ TouchGood(ptr) /\ ClickGood(ptr) /\ Quiet(ptr) = ptr
      /\ ptr.touch[i] # "none" /\ Calm(ptr, ptr) /\ ptr \in PtrType
  BY QuietSame, CalmSelf DEF PointerGood, Good, TouchCancel, PtrGood
<1>2. PICK in \in ReleaseInputs(ptr) :
        LET after == OnTouchCancel(ptr, i, in) IN
         Become(IF ptr.touch[i] = "pointer" THEN after ELSE During(ptr, after))
  BY <1>1 DEF TouchCancel
<1>3. InputGood(ptr, in) /\ ~ptr.stray /\ "left" \in Buttons
  BY <1>1, InputsGood, PointerAssumption DEF ClickGood
<1> DEFINE mode == ptr.touch[i]
           c == CASE mode = "native" -> NotifyTouchCancel(ptr, {ptr.seat_touch[i]} \ {NoWindow})
                  [] mode = "pointer" -> OnCursorButton(ptr, "left", FALSE, in)
                  [] mode = "selector" -> CancelSelector(ptr)
                  [] mode = "multitasking" -> CancelMultitasking(ptr)
                  [] mode = "previews" -> CancelPreviews(ptr)
                  [] OTHER -> ptr
           removed == {i} \cup {j \in TouchIds : c.touch[j] = "native"
                                                 /\ c.seat_touch[j] = NoWindow}
           r == OnTouchCancel(ptr, i, in)
<1>4. r = [c EXCEPT !.touch = [j \in TouchIds |-> IF j \in removed THEN "none" ELSE @[j]],
                    !.feedback = @ \ removed]
  BY Zenon DEF OnTouchCancel
<1>5. Become(IF mode = "pointer" THEN r ELSE During(ptr, r))
  BY <1>2
<1> HIDE DEF r
<1>6. ASSUME PtrGood(c), TouchGood(c), c.seat_touch[i] = NoWindow
      PROVE  /\ Fingers(c, r, r.touch, r.seat_touch, r.feedback) /\ TouchGood(r)
             /\ PointerTouches(r) = PointerTouches(c) \ {i}
  <2> HIDE DEF c
  <2>1. c \in PtrType
    BY <1>6 DEF PtrGood
  <2>2. /\ removed \in SUBSET TouchIds /\ \A j \in removed : c.seat_touch[j] = NoWindow
        /\ PointerTouches(c) \ removed = PointerTouches(c) \ {i}
    BY <1>6 DEF PointerTouches
  <2> HIDE DEF removed
  <2> DEFINE t == [j \in TouchIds |-> IF j \in removed THEN "none" ELSE c.touch[j]]
             q == [c EXCEPT !.touch = t, !.feedback = @ \ removed]
  <2>3. t \in [TouchIds -> TouchModes \cup {"none"}]
        /\ \A j \in TouchIds : t[j] = IF j \in removed THEN "none" ELSE c.touch[j]
    BY <2>1 DEF PtrType
  <2>4. r = q
    BY <1>4, <2>1 DEF PtrType
  <2> HIDE DEF t
  <2>5. Lifted(c, q, removed)
    BY <1>6, <2>2, <2>3, FingersLifted, Zenon
  <2> HIDE DEF q
  <2> QED
    BY <2>2, <2>4, <2>5 DEF Lifted
<1> HIDE DEF removed
<1>7. CASE mode = "pointer"
  <2>1. c = OnCursorButton(ptr, "left", FALSE, in)
    BY <1>7
  <2> HIDE DEF c
  <2>2. Released(ptr, c, "left") /\ (Clean(ptr, "left") => Over(c, "left"))
    BY <1>1, <1>3, <2>1, ReleaseGood
  <2>3. PointerTouches(ptr) = {i} /\ ptr.seat_touch[i] = NoWindow
    BY <1>1, <1>7, OnlyFinger
  <2>4. /\ TouchGood(c) /\ PtrGood(c) /\ PointerTouches(c) = {i} /\ c.seat_touch[i] = NoWindow
    BY <1>1, <2>2, <2>3, ReleasedTouch
  <2>5. /\ Fingers(c, r, r.touch, r.seat_touch, r.feedback) /\ TouchGood(r)
        /\ PointerTouches(r) = {}
    BY <1>6, <2>4
  <2>6. Good(r)
    BY <1>1, <2>2, <2>3, <2>5, PointerLifted
  <2> QED
    BY <1>5, <1>7, <2>6, BecomeGood
<1>8. CASE mode = "native"
  <2> DEFINE S == {ptr.seat_touch[i]} \ {NoWindow}
  <2>1. c = NotifyTouchCancel(ptr, S)
    BY <1>8
  <2> HIDE DEF c, S
  <2>2. /\ Alike(c, ptr) /\ PtrGood(c) /\ TouchGood(c) /\ SameDown(c, ptr)
        /\ c.touch = ptr.touch /\ c.feedback = ptr.feedback
        /\ Untouched(c, ptr, S)
    BY <1>1, <2>1, NotifyTouchCancelAlike, Zenon
  <2>3. c.seat_touch[i] = NoWindow
    BY <2>2 DEF S, Untouched
  <2>4. /\ Fingers(c, r, r.touch, r.seat_touch, r.feedback) /\ TouchGood(r)
        /\ PointerTouches(r) = PointerTouches(ptr)
    BY <1>6, <1>8, <2>2, <2>3 DEF PointerTouches, SameDown
  <2>5. Fingers(ptr, c, c.touch, c.seat_touch, c.feedback)
    BY <2>2 DEF Fingers, SameDown
  <2>6. Fingers(ptr, r, r.touch, r.seat_touch, r.feedback)
    BY <2>4, <2>5, FingersTrans
  <2>7. Good(During(ptr, r))
    BY <1>1, <2>4, <2>6, FingersDuring
  <2> QED
    BY <1>5, <1>8, <2>7, BecomeGood
<1>9. CASE mode \notin {"pointer", "native"}
  <2>1. Calm(ptr, c)
    <3>1. c \in {ptr, CancelSelector(ptr), CancelMultitasking(ptr), CancelPreviews(ptr)}
      BY <1>9, Zenon
    <3> HIDE DEF c
    <3>2. /\ Calm(ptr, CancelSelector(ptr)) /\ Calm(ptr, CancelMultitasking(ptr))
          /\ Calm(ptr, CancelPreviews(ptr))
      BY <1>1, CancelSelectorCalm, CancelMultitaskingCalm, CancelPreviewsCalm
    <3> QED
      BY <1>1, <3>1, <3>2
  <2> HIDE DEF c
  <2>2. ptr.seat_touch[i] = NoWindow
    BY <1>1, <1>9 DEF TouchGood
  <2>3. /\ TouchGood(c) /\ PtrGood(c) /\ PointerTouches(c) = PointerTouches(ptr)
        /\ c.seat_touch[i] = NoWindow
    BY <1>1, <2>1, <2>2, CalmTouch
  <2>4. /\ Fingers(c, r, r.touch, r.seat_touch, r.feedback) /\ TouchGood(r)
        /\ PointerTouches(r) = PointerTouches(ptr)
    BY <1>6, <1>9, <2>3 DEF PointerTouches
  <2>5. Good(During(ptr, r))
    BY <1>1, <2>1, <2>4, FingersDuring
  <2> QED
    BY <1>5, <1>9, <2>5, BecomeGood
<1> QED
  BY <1>7, <1>8, <1>9

LEMMA UnplugGood == ASSUME PointerGood, Unplug PROVE PointerGood'
<1>1. Good(ptr) /\ PtrGood(ptr) /\ TouchGood(ptr) /\ ClickGood(ptr) /\ Quiet(ptr) = ptr
  BY QuietSame DEF PointerGood, Good
<1>2. PICK in \in ReleaseInputs(ptr) : Become(CancelTouchDevice(ptr, in))
  BY <1>1 DEF Unplug
<1>3. InputGood(ptr, in) /\ "left" \in Buttons
  BY <1>1, InputsGood, PointerAssumption
<1> DEFINE native == {i \in TouchIds : ptr.touch[i] = "native"}
           S == {ptr.seat_touch[i] : i \in native} \ {NoWindow}
           ended == NotifyTouchCancel(ptr, S)
           rel == IF PointerTouches(ptr) = {} THEN ended ELSE OnCursorButton(ended, "left", FALSE, in)
           r == CancelTouchDevice(ptr, in)
<1>4. r = [rel EXCEPT !.touch = [i \in TouchIds |-> "none"], !.feedback = {}]
  BY Zenon DEF CancelTouchDevice
<1> HIDE DEF r, native, S
<1>5. /\ Alike(ended, ptr) /\ PtrGood(ended) /\ TouchGood(ended) /\ SameDown(ended, ptr)
      /\ Untouched(ended, ptr, S)
  BY <1>1, NotifyTouchCancelAlike, Zenon
<1> HIDE DEF ended
<1>6. \A i \in TouchIds : ended.seat_touch[i] = NoWindow
  BY <1>1, <1>5 DEF TouchGood, S, native, Untouched
<1>7. Good(ended) /\ ~ended.stray /\ InputGood(ended, in)
  BY <1>1, <1>3, <1>5, AlikeClick DEF Good, ClickGood, Alike, InputGood
<1>8. ASSUME NEW a, rel = a, PtrGood(a), TouchGood(a), a.seat_touch = ended.seat_touch
      PROVE  /\ Fingers(a, r, r.touch, r.seat_touch, r.feedback) /\ TouchGood(r)
             /\ PointerTouches(r) = {}
  <2> HIDE DEF rel
  <2>1. a \in PtrType /\ a.feedback \ TouchIds = {}
    BY <1>8 DEF PtrGood, PtrType
  <2> DEFINE t == [i \in TouchIds |-> "none"]
             q == [a EXCEPT !.touch = t, !.feedback = @ \ TouchIds]
  <2>2. /\ t \in [TouchIds -> TouchModes \cup {"none"}]
        /\ \A j \in TouchIds : t[j] = IF j \in TouchIds THEN "none" ELSE a.touch[j]
    OBVIOUS
  <2>3. r = q
    BY <1>4, <1>8, <2>1, Zenon
  <2> HIDE DEF t
  <2>4. TouchIds \in SUBSET TouchIds /\ \A j \in TouchIds : a.seat_touch[j] = NoWindow
    BY <1>6, <1>8
  <2>5. Lifted(a, q, TouchIds)
    BY <1>8, <2>2, <2>4, FingersLifted, Zenon
  <2> HIDE DEF q
  <2> QED
    BY <2>3, <2>5 DEF Lifted, PointerTouches
<1>9. CASE PointerTouches(ptr) = {}
  <2>1. rel = ended
    BY <1>9
  <2> HIDE DEF rel
  <2>2. Fingers(ended, r, r.touch, r.seat_touch, r.feedback) /\ TouchGood(r)
        /\ PointerTouches(r) = {}
    BY <1>5, <1>8, <2>1
  <2>3. Alike(r, ended) /\ SameDown(r, ended) /\ PtrGood(r)
    BY <1>5, <1>9, <2>2 DEF Fingers, SameDown
  <2>4. Good(r)
    BY <1>7, <2>2, <2>3, AlikeClick DEF Good
  <2> QED
    BY <1>2, <2>4, BecomeGood DEF r
<1>10. CASE PointerTouches(ptr) # {}
  <2>1. rel = OnCursorButton(ended, "left", FALSE, in)
    BY <1>10, Zenon
  <2> HIDE DEF rel
  <2>2. Released(ended, rel, "left") /\ (Clean(ended, "left") => Over(rel, "left"))
    BY <1>3, <1>5, <1>7, <2>1, ReleaseGood, Zenon
  <2>3. TouchGood(rel) /\ PtrGood(rel) /\ rel.seat_touch = ended.seat_touch
    BY <1>5, <2>2, ReleasedTouch
  <2>4. Fingers(rel, r, r.touch, r.seat_touch, r.feedback) /\ TouchGood(r)
        /\ PointerTouches(r) = {}
    BY <1>8, <2>3
  <2>5. PointerTouches(ended) # {}
    BY <1>5, <1>10 DEF SameDown
  <2>6. Good(r)
    BY <1>7, <2>2, <2>4, <2>5, PointerLifted
  <2> QED
    BY <1>2, <2>6, BecomeGood DEF r
<1> QED
  BY <1>9, <1>10

(***************************************************************************)
(* The lock.  While it takes the fingers and the pointer away, a window    *)
(* still has the pointer of a session that is locked already.              *)
(***************************************************************************)
Locking(st, x) ==
  /\ x \in PtrType /\ x.locked /\ x.cursor_mode_ = "passthrough" /\ x.grabbed = NoWindow
  /\ SameViews(x, st) /\ x.mapped = st.mapped /\ x.split = st.split
  /\ x.split_window = st.split_window /\ x.pending_menu = st.pending_menu
  /\ x.suppress = st.suppress /\ x.held = st.held /\ x.disturbed = st.disturbed

LEMMA LockBegins ==
  ASSUME NEW st, PtrGood(st)
  PROVE  LET x == ResetCursorMode([st EXCEPT !.locked = TRUE]) IN
         /\ Locking(st, x) /\ x.touch = st.touch /\ x.seat_touch = st.seat_touch
         /\ x.kept = st.kept /\ x.stray = st.stray
<1> DEFINE l == [st EXCEPT !.locked = TRUE]
           x == ResetCursorMode(l)
<1> HIDE DEF NoWindow, Windows, Surfaces
<1>1. st \in PtrType
  BY DEF PtrGood
<1>2. l \in PtrType
  BY <1>1, Zenon DEF PtrType
<1>3. /\ l.locked = TRUE /\ SameViews(l, st) /\ l.mapped = st.mapped /\ l.split = st.split
      /\ l.split_window = st.split_window /\ l.pending_menu = st.pending_menu
      /\ l.suppress = st.suppress /\ l.held = st.held /\ l.disturbed = st.disturbed
      /\ l.touch = st.touch /\ l.seat_touch = st.seat_touch
      /\ l.kept = st.kept /\ l.stray = st.stray
  BY <1>1 DEF PtrType, SameViews
<1> HIDE DEF l
<1>4. x \in PtrType
  BY <1>2, Zenon DEF PtrType, ResetCursorMode
<1>5. /\ x.locked = l.locked /\ x.cursor_mode_ = "passthrough" /\ x.grabbed = NoWindow
      /\ SameViews(x, l) /\ x.mapped = l.mapped /\ x.split = l.split
      /\ x.split_window = l.split_window /\ x.pending_menu = l.pending_menu
      /\ x.suppress = l.suppress /\ x.held = l.held /\ x.disturbed = l.disturbed
      /\ x.touch = l.touch /\ x.seat_touch = l.seat_touch
      /\ x.kept = l.kept /\ x.stray = l.stray
  BY <1>2 DEF PtrType, SameViews, ResetCursorMode
<1> HIDE DEF x
<1>6. /\ Locking(st, x) /\ x.touch = st.touch /\ x.seat_touch = st.seat_touch
      /\ x.kept = st.kept /\ x.stray = st.stray
  BY <1>3, <1>4, <1>5 DEF Locking, SameViews
<1> QED
  BY <1>6 DEF x, l

LEMMA LockCancels ==
  ASSUME NEW st, NEW x, Locking(st, x), NEW S
  PROVE  LET e == NotifyTouchCancel(x, S) IN
         /\ Locking(st, e) /\ e.kept = x.kept /\ e.stray = x.stray
         /\ Untouched(e, x, S)
<1> DEFINE e == NotifyTouchCancel(x, S)
           t == [i \in TouchIds |-> IF x.seat_touch[i] \in S THEN NoWindow ELSE x.seat_touch[i]]
<1> HIDE DEF NoWindow, Windows, Surfaces
<1>1. x \in PtrType
  BY DEF Locking
<1>2. t \in [TouchIds -> Surfaces \cup {NoWindow}]
  BY <1>1 DEF PtrType
<1>3. e = [x EXCEPT !.seat_touch = t]
  BY <1>1 DEF NotifyTouchCancel, PtrType
<1>4. \A i \in TouchIds : t[i] = IF x.seat_touch[i] \in S THEN NoWindow ELSE x.seat_touch[i]
  OBVIOUS
<1> HIDE DEF t, e
<1>5. e \in PtrType
  BY <1>1, <1>2, <1>3 DEF PtrType
<1>6. /\ e.locked = x.locked /\ e.cursor_mode_ = x.cursor_mode_ /\ e.grabbed = x.grabbed
      /\ SameViews(e, x) /\ e.mapped = x.mapped /\ e.split = x.split
      /\ e.split_window = x.split_window /\ e.pending_menu = x.pending_menu
      /\ e.suppress = x.suppress /\ e.held = x.held /\ e.disturbed = x.disturbed
      /\ e.kept = x.kept /\ e.stray = x.stray /\ e.seat_touch = t
  BY <1>1, <1>3 DEF PtrType, SameViews
<1>7. Locking(st, e)
  BY <1>5, <1>6 DEF Locking, SameViews
<1> QED
  BY <1>4, <1>6, <1>7 DEF e, Untouched

LEMMA LockReleases ==
  ASSUME NEW st, NEW x, Locking(st, x)
  PROVE  LET e == OnCursorButton(x, "left", FALSE, NoInput) IN
         /\ Locking(st, e) /\ e.seat_touch = x.seat_touch /\ e.kept = x.kept \ {"left"}
         /\ e.stray => x.stray \/ "left" \in x.kept
<1> DEFINE e == OnCursorButton(x, "left", FALSE, NoInput)
           n == IF x.buttons["left"] > 0 THEN x.buttons["left"] - 1 ELSE 0
           u == [x.buttons EXCEPT !["left"] = n]
           k == x.kept \ {"left"}
           f == "left" \in x.kept
<1> HIDE DEF NoWindow, Windows, Surfaces
<1>a. x \in PtrType /\ "left" \in Buttons /\ MaxPressed \in Nat
  BY PointerAssumption DEF Locking
<1>b. x.buttons \in [Buttons -> 0 .. MaxPressed] /\ x.kept \in SUBSET Buttons
  BY <1>a DEF PtrType
<1>1. /\ x \in PtrType /\ "left" \in Buttons /\ k \in SUBSET Buttons /\ f \in BOOLEAN
      /\ x.buttons \in [Buttons -> 0 .. MaxPressed] /\ MaxPressed \in Nat
  BY <1>a, <1>b
<1>2. n \in 0 .. MaxPressed
  BY <1>1
<1> HIDE DEF n
<1>3. u \in [Buttons -> 0 .. MaxPressed]
  BY <1>1, <1>2
<1>4. e = NotifyButton(x, "left", FALSE)
  BY DEF Locking, OnCursorButton
<1>5. e = IF x.focus = NoWindow THEN [x EXCEPT !.kept = k]
          ELSE [x EXCEPT !.buttons = u, !.stray = f, !.kept = k]
  BY <1>1, <1>4, Zenon DEF NotifyButton, n
<1> HIDE DEF e, u, k, f
<1>6. e \in PtrType
  <2>1. CASE x.focus = NoWindow
    <3>1. e = [x EXCEPT !.kept = k]
      BY <1>5, <2>1
    <3> QED
      BY <1>1, <3>1 DEF PtrType
  <2>2. CASE x.focus # NoWindow
    <3>1. e = [x EXCEPT !.buttons = u, !.stray = f, !.kept = k]
      BY <1>5, <2>2
    <3> QED
      BY <1>1, <1>3, <3>1, Zenon DEF PtrType
  <2> QED
    BY <2>1, <2>2
<1>7. /\ e.locked = x.locked /\ e.cursor_mode_ = x.cursor_mode_ /\ e.grabbed = x.grabbed
      /\ SameViews(e, x) /\ e.mapped = x.mapped /\ e.split = x.split
      /\ e.split_window = x.split_window /\ e.pending_menu = x.pending_menu
      /\ e.suppress = x.suppress /\ e.held = x.held /\ e.disturbed = x.disturbed
      /\ e.kept = k /\ e.seat_touch = x.seat_touch
  BY <1>1, <1>5 DEF PtrType, SameViews
<1>8. e.stray \in {x.stray, f}
  BY <1>1, <1>5 DEF PtrType
<1>9. Locking(st, e)
  BY <1>6, <1>7 DEF Locking, SameViews
<1> QED
  BY <1>7, <1>8, <1>9, Zenon DEF e, k, f

LEMMA LockEnds ==
  ASSUME NEW st, NEW x, Locking(st, x)
  PROVE  LET e == ClearFocus([x EXCEPT !.touch = [i \in TouchIds |-> "none"],
                                       !.feedback = {}]) IN
         /\ Locking(st, e) /\ e.seat_touch = x.seat_touch /\ e.kept = x.kept /\ e.stray = x.stray
         /\ e.focus = NoWindow /\ e.buttons = NoButtons /\ e.feedback = {}
         /\ e.touch = [i \in TouchIds |-> "none"]
<1> DEFINE t == [i \in TouchIds |-> "none"]
           y == [x EXCEPT !.touch = t, !.feedback = {}]
           e == ClearFocus(y)
<1> HIDE DEF NoWindow, Windows, Surfaces, NoButtons
<1>1. /\ x \in PtrType /\ t \in [TouchIds -> TouchModes \cup {"none"}]
      /\ NoButtons \in [Buttons -> 0 .. MaxPressed]
  BY Windowed DEF Locking
<1> HIDE DEF t
<1>2. y \in PtrType
  BY <1>1, Zenon DEF PtrType
<1>3. /\ y.locked = x.locked /\ y.cursor_mode_ = x.cursor_mode_ /\ y.grabbed = x.grabbed
      /\ SameViews(y, x) /\ y.mapped = x.mapped /\ y.split = x.split
      /\ y.split_window = x.split_window /\ y.pending_menu = x.pending_menu
      /\ y.suppress = x.suppress /\ y.held = x.held /\ y.disturbed = x.disturbed
      /\ y.kept = x.kept /\ y.stray = x.stray /\ y.seat_touch = x.seat_touch
      /\ y.touch = t /\ y.feedback = {}
  BY <1>1 DEF PtrType, SameViews
<1> HIDE DEF y
<1>4. e \in PtrType
  BY <1>1, <1>2, Zenon DEF PtrType, ClearFocus
<1>5. /\ e.locked = y.locked /\ e.cursor_mode_ = y.cursor_mode_ /\ e.grabbed = y.grabbed
      /\ SameViews(e, y) /\ e.mapped = y.mapped /\ e.split = y.split
      /\ e.split_window = y.split_window /\ e.pending_menu = y.pending_menu
      /\ e.suppress = y.suppress /\ e.held = y.held /\ e.disturbed = y.disturbed
      /\ e.kept = y.kept /\ e.stray = y.stray /\ e.seat_touch = y.seat_touch
      /\ e.touch = y.touch /\ e.feedback = y.feedback
      /\ e.focus = NoWindow /\ e.buttons = NoButtons
  BY <1>2 DEF PtrType, SameViews, ClearFocus
<1> HIDE DEF e
<1>6. Locking(st, e)
  BY <1>3, <1>4, <1>5, Zenon DEF Locking, SameViews
<1> QED
  BY <1>3, <1>5, <1>6 DEF e, y, t

\* What is left of the pointer in the locked session.
LEMMA BeginSessionLockGood ==
  ASSUME NEW st, PtrGood(st), TouchGood(st)
  PROVE  LET r == BeginSessionLock(st) IN
         /\ PtrGood(r) /\ TouchGood(r) /\ Locking(st, r) /\ PointerTouches(r) = {}
         /\ r.buttons = NoButtons
         /\ PointerTouches(st) = {} => r.kept = st.kept /\ r.stray = st.stray
         /\ r.kept \subseteq st.kept /\ (r.stray => st.stray \/ "left" \in st.kept)
<1> DEFINE x == ResetCursorMode([st EXCEPT !.locked = TRUE])
           S == {x.seat_touch[i] : i \in {i \in TouchIds : x.touch[i] = "native"}} \ {NoWindow}
           ended == NotifyTouchCancel(x, S)
           rel == IF PointerTouches(x) = {} THEN ended
                  ELSE OnCursorButton(ended, "left", FALSE, NoInput)
           r == BeginSessionLock(st)
<1> HIDE DEF NoWindow, Windows, Surfaces, NoButtons
<1>1. r = ClearFocus([rel EXCEPT !.touch = [i \in TouchIds |-> "none"], !.feedback = {}])
  BY Zenon DEF BeginSessionLock, CancelTouchDevice
<1>2. /\ Locking(st, x) /\ x.touch = st.touch /\ x.seat_touch = st.seat_touch
      /\ x.kept = st.kept /\ x.stray = st.stray
  BY LockBegins
<1> HIDE DEF x, r, S
<1>3. /\ Locking(st, ended) /\ ended.kept = x.kept /\ ended.stray = x.stray
      /\ Untouched(ended, x, S)
  BY <1>2, LockCancels, Zenon
<1> HIDE DEF ended
<1>4. \A i \in TouchIds : ended.seat_touch[i] = NoWindow
  BY <1>2, <1>3 DEF TouchGood, S, Untouched
<1>5. PointerTouches(x) = PointerTouches(st)
  BY <1>2 DEF PointerTouches
<1>6. /\ Locking(st, rel) /\ rel.seat_touch = ended.seat_touch
      /\ PointerTouches(st) = {} => rel.kept = st.kept /\ rel.stray = st.stray
      /\ rel.kept \subseteq st.kept /\ (rel.stray => st.stray \/ "left" \in st.kept)
  <2>1. CASE PointerTouches(st) = {}
    BY <1>2, <1>3, <1>5, <2>1
  <2>2. CASE PointerTouches(st) # {}
    <3>1. rel = OnCursorButton(ended, "left", FALSE, NoInput)
      BY <1>5, <2>2, Zenon
    <3> HIDE DEF rel
    <3>2. /\ Locking(st, rel) /\ rel.seat_touch = ended.seat_touch
          /\ rel.kept = ended.kept \ {"left"} /\ (rel.stray => ended.stray \/ "left" \in ended.kept)
      BY <1>3, <3>1, LockReleases, Zenon
    <3> QED
      BY <1>2, <1>3, <2>2, <3>2
  <2> QED
    BY <2>1, <2>2
<1> HIDE DEF rel
<1> DEFINE e == ClearFocus([rel EXCEPT !.touch = [i \in TouchIds |-> "none"], !.feedback = {}])
<1>7. /\ Locking(st, e) /\ e.seat_touch = rel.seat_touch /\ e.kept = rel.kept /\ e.stray = rel.stray
      /\ e.focus = NoWindow /\ e.buttons = NoButtons /\ e.feedback = {}
      /\ e.touch = [i \in TouchIds |-> "none"]
  BY <1>6, LockEnds, Zenon
<1>8. r = e
  BY <1>1
<1> HIDE DEF e
<1>9. TouchGood(r) /\ PointerTouches(r) = {}
  BY <1>4, <1>6, <1>7, <1>8, Windowed DEF TouchGood, PointerTouches
<1>10. PtrGood(r)
  <2>1. r \in PtrType /\ r.cursor_mode_ = "passthrough" /\ r.grabbed = NoWindow
    BY <1>7, <1>8 DEF Locking
  <2>2. {r.menu, r.pending_menu, r.split_window} \subseteq r.mapped \cup {NoWindow}
    BY <1>7, <1>8 DEF Locking, PtrGood, SameViews
  <2>3. r.focus = NoWindow /\ r.focus \notin Windows /\ \A b \in Buttons : r.buttons[b] = 0
    BY <1>7, <1>8, Windowed
  <2> QED
    BY <2>1, <2>2, <2>3 DEF PtrGood
<1> QED
  BY <1>6, <1>7, <1>8, <1>9, <1>10 DEF r

LEMMA LockGood == ASSUME PointerGood, Lock PROVE PointerGood'
<1>1. Good(ptr) /\ PtrGood(ptr) /\ TouchGood(ptr) /\ ClickGood(ptr) /\ Quiet(ptr) = ptr
      /\ ~ptr.stray /\ ptr.held \subseteq Buttons /\ "left" \in Buttons
  BY QuietSame, PointerAssumption DEF PointerGood, Good, ClickGood, PtrGood, PtrType
<1> DEFINE r == BeginSessionLock(ptr)
           d == Down(ptr) # {} /\ Receiver(ptr) # Receiver(r)
<1>2. Become(During(ptr, r)) /\ During(ptr, r) = Disturb(r, d) /\ d \in BOOLEAN
  BY <1>1 DEF Lock, During
<1>3. /\ PtrGood(r) /\ TouchGood(r) /\ Locking(ptr, r) /\ PointerTouches(r) = {}
      /\ r.buttons = NoButtons
      /\ PointerTouches(ptr) = {} => r.kept = ptr.kept /\ r.stray = ptr.stray
      /\ r.kept \subseteq ptr.kept /\ (r.stray => ptr.stray \/ "left" \in ptr.kept)
  BY <1>1, BeginSessionLockGood
<1> HIDE DEF r
<1>4. ~(r.disturbed \/ d) => ClickGood(r)
  <2> SUFFICES ASSUME ~(r.disturbed \/ d) PROVE ClickGood(r)
    OBVIOUS
  <2>1. ~ptr.disturbed /\ (Down(ptr) = {} \/ Receiver(r) = Receiver(ptr))
    BY <1>3 DEF Locking
  <2>2. CASE PointerTouches(ptr) = {}
    <3>1. LooseClick(r, ptr) /\ SameDown(r, ptr) /\ r.disturbed = ptr.disturbed
      BY <1>1, <1>3, <2>2 DEF LooseClick, SameDown, Locking
    <3> QED
      BY <1>1, <2>1, <3>1, ClickKept
  <2>3. CASE PointerTouches(ptr) # {}
    <3>1. "left" \in Down(ptr)
      BY <2>3 DEF Down
    <3>2. Clean(ptr, "left") /\ ptr.kept \subseteq {"left"} /\ ptr.held = {}
      BY <1>1, <2>1, <2>3, <3>1 DEF ClickGood
    <3>3. ptr.locked
      BY <1>3, <2>1, <3>1, ReceiverFields DEF Locking
    <3>4. "left" \notin ptr.kept /\ ptr.kept = {} /\ ~ptr.suppress /\ ptr.pending_menu = NoWindow
      BY <3>2, <3>3 DEF Clean
    <3>5. Fresh(r) /\ ~r.stray
      BY <1>1, <1>3, <3>4, Windowed DEF Fresh, Locking
    <3>6. Down(r) = {} /\ r.held = {}
      BY <1>3, <3>2 DEF Down, Locking
    <3> QED
      BY <3>5, <3>6 DEF ClickGood
  <2> QED
    BY <2>2, <2>3
<1> HIDE DEF d
<1>5. Good(Disturb(r, d))
  BY <1>2, <1>3, <1>4, DisturbGood
<1> QED
  BY <1>2, <1>5, BecomeGood

(***************************************************************************)
(* The invariant, and what it says of the code.                            *)
(***************************************************************************)
LEMMA PointerInit == ASSUME Init PROVE PointerGood
<1> HIDE DEF NoWindow, Windows, Surfaces, LockSurface
<1>1. 0 \in 0 .. MaxPressed
  BY PointerAssumption
<1>2. ptr \in PtrType
  BY <1>1 DEF Init, PtrType, Phases
<1>3. PtrGood(ptr)
  BY <1>2, Windowed DEF Init, PtrGood
<1>4. TouchGood(ptr) /\ PointerTouches(ptr) = {}
  BY Windowed DEF Init, TouchGood, PointerTouches
<1>5. ClickGood(ptr)
  BY <1>4 DEF Init, ClickGood, Down, Fresh
<1> QED
  BY <1>3, <1>4, <1>5 DEF PointerGood, Good

LEMMA PointerStep == ASSUME PointerGood, [Next]_vars PROVE PointerGood'
<1>1. ASSUME NEW b \in Buttons, Press(b) \/ Release(b) PROVE PointerGood'
  BY <1>1, PressEvent, ReleaseEvent
<1>2. ASSUME NEW i \in TouchIds, TouchDown(i) \/ TouchUp(i) \/ TouchMotion(i) \/ TouchCancel(i)
      PROVE  PointerGood'
  BY <1>2, TouchDownGood, TouchUpGood, TouchMotionGood, TouchCancelGood
<1>3. CASE Motion
  BY <1>3, MotionGood
<1>4. CASE Unplug
  BY <1>4, UnplugGood
<1>5. ASSUME NEW w \in Windows,
             \/ RequestMove(w) \/ RequestResize(w) \/ RequestShowWindowMenu(w)
             \/ Unmap(w) \/ Destroy(w) \/ Map(w)
      PROVE  PointerGood'
  BY <1>5, RequestGood, UnmapGood, DestroyGood, MapGood
<1>6. CASE MinimizeWindow
  BY <1>6, MinimizeGood
<1>7. CASE ShowSplit \/ MenuKey \/ OverviewKey
  BY <1>7, ShowSplitGood, MenuKeyGood, OverviewKeyGood
<1>8. CASE ToggleMultitasking \/ TogglePreviews \/ CompleteMultitasking \/ CompletePreviews
  BY <1>8, ToggleMultitaskingGood, TogglePreviewsGood, CompleteGood
<1>9. CASE StartSelector \/ StopSelector \/ ChangeWorkspace
  BY <1>9, SelectorGood, ChangeWorkspaceGood
<1>10. CASE Lock \/ UnlockSession \/ DestroyLockSurface
  BY <1>10, LockGood, UnlockSessionGood, DestroyGood
<1>11. CASE UNCHANGED vars
  BY <1>11 DEF vars, PointerGood
<1> QED
  BY <1>1, <1>2, <1>3, <1>4, <1>5, <1>6, <1>7, <1>8, <1>9, <1>10, <1>11 DEF Next

LEMMA PointerInvariant == Spec => []PointerGood
BY PointerInit, PointerStep, PTL DEF Spec

\* The state of the pointer, the views and the touch screen has its type
\* whatever OnCursorButton, ProcessCursorMotion and the touch handlers do.
THEOREM PointerTyped == Spec => []TypeOK
<1>1. PointerGood => TypeOK
  BY DEF PointerGood, Good, PtrGood, TypeOK
<1> QED
  BY <1>1, PointerInvariant, PTL

\* grabbed_toplevel_, pending_window_menu_ and the window of the menu and of the
\* popup are plain pointers that OnUnmap clears: none is of a window that is
\* gone, and there is a grabbed window exactly while there is a grab.
THEOREM PointerHoldsMapped == Spec => []HeldWindowsAreMapped
<1>1. PointerGood => HeldWindowsAreMapped
  BY DEF PointerGood, Good, PtrGood, HeldWindowsAreMapped
<1> QED
  BY <1>1, PointerInvariant, PTL

\* In an undisturbed click, OnCursorButton hands no client the release of a
\* press that the compositor kept.
THEOREM PointerReleaseFollows == Spec => []ReleaseFollowsPress
<1>1. PointerGood => ReleaseFollowsPress
  BY DEF PointerGood, Good, ClickGood, ReleaseFollowsPress
<1> QED
  BY <1>1, PointerInvariant, PTL

\* In an undisturbed click, a button that the seat counts as pressed is down on
\* the mouse, or a finger plays it.
THEOREM PointerNoStuck == Spec => []NoStuckButton
<1>1. PointerGood => NoStuckButton
  <2> SUFFICES ASSUME PointerGood, ~ptr.disturbed, NEW b \in Buttons, ptr.buttons[b] > 0
               PROVE  b \in Down(ptr)
    BY DEF NoStuckButton
  <2>1. ptr.buttons[b] # 0 /\ ClickGood(ptr)
    BY DEF PointerGood, Good
  <2>2. Down(ptr) # {}
    BY <2>1 DEF ClickGood, Fresh
  <2> QED
    BY <2>1, <2>2 DEF ClickGood
<1> QED
  BY <1>1, PointerInvariant, PTL

\* touch_points_, the touch points of the seat and the marks of the feedback
\* agree, whatever OnTouchDown, OnTouchUp, OnTouchCancel, the removal of the
\* device and the lock do to them; one finger at most plays the left button.
THEOREM PointerTracksTouch == Spec => []TouchIsTracked
<1>1. PointerGood => TouchIsTracked
  BY DEF PointerGood, Good, TouchGood, TouchIsTracked
<1> QED
  BY <1>1, PointerInvariant, PTL

\* BeginSessionLock takes the grab, the pointer and the fingers from the windows,
\* and nothing gives them back while the session is locked.
THEOREM PointerLocked == Spec => []LockedInput
<1>1. PointerGood => LockedInput
  BY DEF PointerGood, Good, PtrGood, TouchGood, LockedInput
<1> QED
  BY <1>1, PointerInvariant, PTL
=============================================================================
