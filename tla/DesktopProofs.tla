---------------------------- MODULE DesktopProofs ----------------------------
(***************************************************************************)
(* Proofs about Desktop, for any number of windows, layers, workspaces and *)
(* keyboards and any alphabet of events: the type invariant, that a locked *)
(* session keeps the keyboard from every window and layer, and that the X  *)
(* focus is always on a usable window.                                     *)
(*                                                                         *)
(* Handlers are operators from states to states, so the proof follows the  *)
(* call graph: Good is the inductive invariant as a predicate on a state,  *)
(* and each operator has a lemma that it leads from Good states to Good    *)
(* states.  Frame lists the fields that the focus operators leave alone;   *)
(* their callers rely on it.                                               *)
(***************************************************************************)
EXTENDS Desktop, TLAPS

LockSafe(st) == st.session_locked => st.focused_surface.role \in {"none", "lock"}

\* A mapped window has a scene node, and so has a live xdg window.
Nested(st) ==
  /\ st.mapped \subseteq st.scene_tree /\ st.scene_tree \subseteq st.alive
  /\ st.initialized \subseteq st.alive \ XWindows
  /\ st.alive \ XWindows \subseteq st.scene_tree

\* Minimize takes the X focus from its window in its last statement: until then
\* that window, u, may hold it although it is minimized.  u is 0 elsewhere.
XwmSafe(st, u) ==
  /\ st.xwm_focused # 0 => st.xwm_focused \in XWindows
  /\ st.xwm_focused \notin {0, u} =>
       /\ st.xwm_focused \in st.mapped \cap st.scene_tree \cap st.alive
       /\ st.xwm_focused \notin st.minimized
       /\ CanManage(st.xwm_focused)

Good(st, u) ==
  st \in DeskType /\ LockSafe(st) /\ Nested(st) /\ XwmSafe(st, u)

\* The inductive invariant.
DeskGood == Good(desk, 0)

\* The fields the focus operators leave alone.
Frame(st, r) ==
  /\ r.alive = st.alive /\ r.scene_tree = st.scene_tree
  /\ r.mapped = st.mapped /\ r.minimized = st.minimized
  /\ r.session_locked = st.session_locked
  /\ r.layer_mapped = st.layer_mapped

\* Which nodes are shown, and why, plays no part in the invariant.
LEMMA NodesGood ==
  ASSUME NEW st, NEW u, Good(st, u), NEW e \in SUBSET Windows, NEW f \in SUBSET Windows
  PROVE  /\ Good([st EXCEPT !.enabled = e, !.forced = f], u)
         /\ Frame(st, [st EXCEPT !.enabled = e, !.forced = f])
<1> DEFINE r == [st EXCEPT !.enabled = e, !.forced = f]
<1>1. r \in DeskType
  BY ZenonT(60) DEF Good, DeskType
<1>2. LockSafe(r) /\ Nested(r) /\ Frame(st, r)
  BY DEF Good, DeskType, LockSafe, Nested, Frame
<1>3. XwmSafe(r, u)
  BY DEF Good, DeskType, XwmSafe
<1> QED
  BY <1>1, <1>2, <1>3 DEF Good

\* wlr_scene_node_set_enabled touches nothing but the node.
LEMMA SetEnabledGood ==
  ASSUME NEW st, NEW u, Good(st, u), NEW w \in Windows, NEW shown \in BOOLEAN
  PROVE  Good(SetEnabled(st, w, shown), u) /\ Frame(st, SetEnabled(st, w, shown))
<1> DEFINE e == IF shown THEN st.enabled \cup {w} ELSE st.enabled \ {w}
           f == st.forced \ {w}
<1>1. e \in SUBSET Windows /\ f \in SUBSET Windows
  BY DEF Good, DeskType
<1>2. SetEnabled(st, w, shown) = [st EXCEPT !.enabled = e, !.forced = f]
  BY DEF SetEnabled
<1> HIDE DEF e, f
<1>3. /\ Good([st EXCEPT !.enabled = e, !.forced = f], u)
      /\ Frame(st, [st EXCEPT !.enabled = e, !.forced = f])
  BY <1>1, NodesGood, Zenon
<1> QED
  BY <1>2, <1>3

\* Nor does it when nobody asked whether the window is visible.
LEMMA ForceShowGood ==
  ASSUME NEW st, NEW u, Good(st, u), NEW w \in Windows
  PROVE  Good(ForceShow(st, w), u) /\ Frame(st, ForceShow(st, w))
<1> DEFINE shown == SetEnabled(st, w, TRUE)
           f == IF IsToplevelVisible(st, w) THEN shown.forced ELSE shown.forced \cup {w}
<1>1. Good(shown, u) /\ Frame(st, shown)
  BY SetEnabledGood, Zenon
<1>2. ForceShow(st, w) = [shown EXCEPT !.forced = f]
  BY DEF ForceShow
<1> HIDE DEF shown
<1>3. f \in SUBSET Windows
  BY <1>1 DEF Good, DeskType
<1> HIDE DEF f
<1>4. Good([shown EXCEPT !.forced = f], u) /\ Frame(shown, [shown EXCEPT !.forced = f])
  BY <1>1, <1>3, SMTT(30) DEF Good, Frame, DeskType, LockSafe, Nested, XwmSafe
<1> QED
  BY <1>1, <1>2, <1>4 DEF Frame

\* Recomputing the scene nodes touches nothing else.
LEMMA RefreshSceneGood ==
  ASSUME NEW st, NEW u, Good(st, u)
  PROVE  Good(RefreshScene(st), u) /\ Frame(st, RefreshScene(st))
<1> DEFINE e == {w \in st.scene_tree : IsToplevelVisible(st, w)}
           f == {}
<1>1. e \in SUBSET Windows /\ f \in SUBSET Windows
  BY DEF Good, DeskType
<1>2. RefreshScene(st) = [st EXCEPT !.enabled = e, !.forced = f]
  BY DEF RefreshScene
<1> HIDE DEF e, f
<1>3. /\ Good([st EXCEPT !.enabled = e, !.forced = f], u)
      /\ Frame(st, [st EXCEPT !.enabled = e, !.forced = f])
  BY <1>1, NodesGood, Zenon
<1> QED
  BY <1>2, <1>3

\* Any change of the stacking order is harmless.
LEMMA StackGood ==
  ASSUME NEW st, NEW u, Good(st, u), NEW A \in SUBSET (Windows \X Windows)
  PROVE  /\ Good([st EXCEPT !.above = A], u)
         /\ Frame(st, [st EXCEPT !.above = A])
BY SMTT(30) DEF Good, Frame, DeskType, LockSafe, Nested, XwmSafe

\* Raising a window only changes the stacking order.
LEMMA RaiseToTopGood ==
  ASSUME NEW st, NEW u, Good(st, u), NEW w \in Windows
  PROVE  Good(RaiseToTop(st, w), u) /\ Frame(st, RaiseToTop(st, w))
<1> DEFINE A == {p \in st.above : p[1] # w /\ p[2] # w}
                  \cup {<<w, v>> : v \in st.scene_tree \ {w}}
<1>1. st.above \subseteq Windows \X Windows /\ st.scene_tree \subseteq Windows
  BY DEF Good, DeskType
<1>2. {<<w, v>> : v \in st.scene_tree \ {w}} \subseteq Windows \X Windows
  BY <1>1
<1>3. A \in SUBSET (Windows \X Windows)
  BY <1>1, <1>2
<1>4. RaiseToTop(st, w) = [st EXCEPT !.above = A]
  BY DEF RaiseToTop
<1> HIDE DEF A
<1>5. Good([st EXCEPT !.above = A], u) /\ Frame(st, [st EXCEPT !.above = A])
  BY <1>3, StackGood
<1> QED
  BY <1>4, <1>5

\* So does taking a window out of it.
LEMMA LeaveStackGood ==
  ASSUME NEW st, NEW u, Good(st, u), NEW w \in Windows
  PROVE  Good(LeaveStack(st, w), u) /\ Frame(st, LeaveStack(st, w))
<1> DEFINE A == {p \in st.above : p[1] # w /\ p[2] # w}
<1>1. A \in SUBSET (Windows \X Windows)
  BY DEF Good, DeskType
<1>2. LeaveStack(st, w) = [st EXCEPT !.above = A]
  BY DEF LeaveStack
<1> HIDE DEF A
<1>5. Good([st EXCEPT !.above = A], u) /\ Frame(st, [st EXCEPT !.above = A])
  BY <1>1, StackGood
<1> QED
  BY <1>2, <1>5

\* So does raising several windows.
LEMMA RaiseInOrderGood ==
  ASSUME NEW st, NEW u, Good(st, u), NEW K \in SUBSET Windows
  PROVE  Good(RaiseInOrder(st, K), u) /\ Frame(st, RaiseInOrder(st, K))
<1> DEFINE A == {p \in st.above : p[1] \notin K /\ p[2] \notin K}
                  \cup {p \in K \X st.scene_tree : p[2] \in K => p[1] > p[2]}
<1>1. A \in SUBSET (Windows \X Windows)
  BY DEF Good, DeskType
<1>2. RaiseInOrder(st, K) = [st EXCEPT !.above = A]
  BY DEF RaiseInOrder
<1> HIDE DEF A
<1>5. Good([st EXCEPT !.above = A], u) /\ Frame(st, [st EXCEPT !.above = A])
  BY <1>1, StackGood
<1> QED
  BY <1>2, <1>5

\* The keyboard may enter any surface, but only the lock surface when locked.
LEMMA NotifyEnterGood ==
  ASSUME NEW st, NEW u, Good(st, u), NEW s \in Surfaces,
         st.session_locked => s.role \in {"none", "lock"}
  PROVE  Good(NotifyEnter(st, s), u) /\ Frame(st, NotifyEnter(st, s))
BY SMTT(30) DEF Good, Frame, NotifyEnter, DeskType, LockSafe, Nested, XwmSafe

\* The keyboard is in Surfaces wherever it goes.
LEMMA SurfacesContain ==
  /\ NoSurface \in Surfaces /\ LockSurface \in Surfaces
  /\ \A w \in Windows : ToplevelSurface(w) \in Surfaces
  /\ \A l \in Layers : LayerSurface(l) \in Surfaces
BY DEF Surfaces

\* Clearing the focus is always safe.
LEMMA ClearFocusGood ==
  ASSUME NEW st, NEW u, Good(st, u)
  PROVE  Good(ClearFocus(st), u) /\ Frame(st, ClearFocus(st))
<1>1. NoSurface \in Surfaces /\ NoSurface.role = "none"
  BY SurfacesContain DEF NoSurface
<1> QED
  BY <1>1, SMTT(30) DEF Good, Frame, ClearFocus, DeskType, LockSafe, Nested, XwmSafe

\* So is parking the X focus, which then names no window.
LEMMA ParkGood ==
  ASSUME NEW st, NEW u, Good(st, u)
  PROVE  /\ Good(ParkXWaylandFocus(st), u) /\ Frame(st, ParkXWaylandFocus(st))
         /\ ParkXWaylandFocus(st).xwm_focused = 0
BY ConstantsAssumption, SMTT(30) DEF Good, Frame, ParkXWaylandFocus, DeskType, LockSafe, Nested, XwmSafe

\* Activating a usable window puts the X focus on it at most.
LEMMA ActivateGood ==
  ASSUME NEW st, NEW u, Good(st, u), NEW w \in Windows,
         w \in st.mapped, w \notin st.minimized
  PROVE  Good(SetActivated(st, w, TRUE), u) /\ Frame(st, SetActivated(st, w, TRUE))
<1>1. CASE w \in XWindows /\ CanManage(w)
  <2>1. SetActivated(st, w, TRUE) = [st EXCEPT !.xwm_focused = w]
    BY <1>1 DEF SetActivated
  <2>2. w \in 0 .. NumWindows
    BY ConstantsAssumption DEF Windows
  <2>3. [st EXCEPT !.xwm_focused = w] \in DeskType
    BY <2>2, SMTT(30) DEF Good, DeskType
  <2>4. XwmSafe([st EXCEPT !.xwm_focused = w], u)
    BY <1>1 DEF Good, XwmSafe, Nested, DeskType
  <2>5. /\ LockSafe([st EXCEPT !.xwm_focused = w])
        /\ Nested([st EXCEPT !.xwm_focused = w])
        /\ Frame(st, [st EXCEPT !.xwm_focused = w])
    BY DEF Good, Frame, LockSafe, Nested, DeskType
  <2> QED
    BY <2>1, <2>3, <2>4, <2>5, Zenon DEF Good
<1>2. CASE w \in XWindows /\ ~CanManage(w)
  BY <1>2 DEF SetActivated, Frame
<1>3. CASE w \notin XWindows
  BY <1>3, SMTT(30) DEF Good, Frame, SetActivated, DeskType, LockSafe, Nested, XwmSafe
<1> QED
  BY <1>1, <1>2, <1>3, Zenon

\* Deactivating a window leaves the X focus somewhere else.
LEMMA DeactivateGood ==
  ASSUME NEW st, NEW u, Good(st, u), NEW w \in Windows
  PROVE  /\ Good(SetActivated(st, w, FALSE), u) /\ Frame(st, SetActivated(st, w, FALSE))
         /\ w \in XWindows => SetActivated(st, w, FALSE).xwm_focused # w
<1>1. CASE w \in XWindows /\ st.xwm_focused = w
  <2>1. SetActivated(st, w, FALSE) = ParkXWaylandFocus(st)
    BY <1>1 DEF SetActivated
  <2>2. w # 0
    BY DEF Windows
  <2> QED
    BY <2>1, <2>2, ParkGood, Zenon
<1>2. CASE w \in XWindows /\ st.xwm_focused # w
  BY <1>2 DEF SetActivated, Frame
<1>3. CASE w \notin XWindows
  BY <1>3, SMTT(30) DEF Good, Frame, SetActivated, DeskType, LockSafe, Nested, XwmSafe
<1> QED
  BY <1>1, <1>2, <1>3, Zenon

\* Telling the previous window, and drawing titlebars, change no other field.
LEMMA DeactivatePreviousGood ==
  ASSUME NEW st, NEW u, Good(st, u)
  PROVE  Good(DeactivatePrevious(st), u) /\ Frame(st, DeactivatePrevious(st))
BY SMTT(30) DEF Good, Frame, DeactivatePrevious, DeskType, LockSafe, Nested, XwmSafe

\* Which titlebars there are, and how they are drawn, plays no part in the
\* invariant.
LEMMA TitlebarsGood ==
  ASSUME NEW st, NEW u, Good(st, u), NEW t \in [Windows -> Titlebars]
  PROVE  Good([st EXCEPT !.ssd = t], u) /\ Frame(st, [st EXCEPT !.ssd = t])
BY SMTT(30) DEF Good, Frame, DeskType, LockSafe, Nested, XwmSafe

\* Drawing the titlebars changes no other field.
LEMMA SetSsdActiveGood ==
  ASSUME NEW st, NEW u, Good(st, u), NEW actives
  PROVE  Good(SetSsdActive(st, actives), u) /\ Frame(st, SetSsdActive(st, actives))
<1> DEFINE t == [w \in Windows |-> IF st.ssd[w] = "none" THEN "none"
                                   ELSE IF w \in actives THEN "active" ELSE "inactive"]
<1>1. t \in [Windows -> Titlebars]
  BY DEF Titlebars
<1>2. SetSsdActive(st, actives) = [st EXCEPT !.ssd = t]
  BY DEF SetSsdActive
<1> HIDE DEF t
<1> QED
  BY <1>1, <1>2, TitlebarsGood

\* FocusLayerSurface returns early when the session is locked.
LEMMA FocusLayerSurfaceGood ==
  ASSUME NEW st, NEW u, Good(st, u), NEW l
  PROVE  Good(FocusLayerSurface(st, l), u) /\ Frame(st, FocusLayerSurface(st, l))
<1>1. CASE st.session_locked \/ l \notin st.layer_mapped \/ st.keyboard_interactive[l] = "none"
  BY <1>1 DEF FocusLayerSurface, Frame
<1>2. CASE ~(st.session_locked \/ l \notin st.layer_mapped \/ st.keyboard_interactive[l] = "none")
  <2> DEFINE inactive == SetSsdActive(st, {})
             left == DeactivatePrevious(inactive)
             parked == ParkXWaylandFocus(left)
  <2>1. Good(inactive, u) /\ Frame(st, inactive)
    BY SetSsdActiveGood
  <2>2. Good(left, u) /\ Frame(inactive, left)
    BY <2>1, DeactivatePreviousGood
  <2>3. Good(parked, u) /\ Frame(left, parked)
    BY <2>2, ParkGood
  <2>4. parked.session_locked = FALSE
    BY <1>2, <2>1, <2>2, <2>3, SMTT(30) DEF Frame, Good, DeskType
  <2>5. LayerSurface(l) \in Surfaces
    BY <1>2, SurfacesContain DEF Good, DeskType
  <2>6. Good(NotifyEnter(parked, LayerSurface(l)), u) /\ Frame(parked, NotifyEnter(parked, LayerSurface(l)))
    BY <2>3, <2>4, <2>5, NotifyEnterGood
  <2>7. Frame(st, NotifyEnter(parked, LayerSurface(l)))
    BY <2>1, <2>2, <2>3, <2>6, SMTT(30) DEF Frame
  <2>8. FocusLayerSurface(st, l) \in {inactive, NotifyEnter(parked, LayerSurface(l))}
    BY <1>2 DEF FocusLayerSurface
  <2> HIDE DEF inactive, parked
  <2> QED
    BY <2>1, <2>6, <2>7, <2>8
<1> QED
  BY <1>1, <1>2

\* Restacking changes the stacking order only.
LEMMA RestackGood ==
  ASSUME NEW st, NEW u, Good(st, u), NEW w \in Windows
  PROVE  Good(Restack(st, w), u) /\ Frame(st, Restack(st, w))
<1> DEFINE kept == {c \in st.kept_above \cap st.scene_tree : c # w /\ IsToplevelVisible(st, c)}
           top == RaiseToTop(st, w)
           raised == RaiseInOrder(top, kept)
<1>1. kept \in SUBSET Windows
  BY DEF Good, DeskType
<1>2. Good(top, u) /\ Frame(st, top)
  BY RaiseToTopGood
<1> HIDE DEF kept, top
<1>3. Good(raised, u) /\ Frame(top, raised)
  BY <1>1, <1>2, RaiseInOrderGood
<1>4. Restack(st, w) = IF w \in st.kept_above THEN RaiseToTop(raised, w) ELSE raised
  BY DEF Restack, kept, top
<1> HIDE DEF raised
<1>5. Good(RaiseToTop(raised, w), u) /\ Frame(raised, RaiseToTop(raised, w))
  BY <1>3, RaiseToTopGood
<1>6. Frame(st, raised) /\ Frame(st, RaiseToTop(raised, w))
  BY <1>2, <1>3, <1>5 DEF Frame
<1> QED
  BY <1>3, <1>4, <1>5, <1>6

\* FocusToplevel returns early when the session is locked or the window is not
\* usable, so neither the keyboard nor the X focus goes where it may not.
LEMMA FocusToplevelGood ==
  ASSUME NEW st, NEW u, Good(st, u), NEW w
  PROVE  Good(FocusToplevel(st, w), u) /\ Frame(st, FocusToplevel(st, w))
<1>1. CASE ~CanTakeFocus(st, w)
  BY <1>1 DEF FocusToplevel, Frame
<1>2. CASE CanTakeFocus(st, w) /\ ExclusiveLayers(st) # {}
  <2>1. FocusToplevel(st, w) = FocusLayerSurface(st, Newest(ExclusiveLayers(st)))
    BY <1>2 DEF FocusToplevel
  <2> QED
    BY <2>1, FocusLayerSurfaceGood
<1>3. CASE CanTakeFocus(st, w) /\ ExclusiveLayers(st) = {}
  <2> DEFINE marked == SetSsdActive(st, {w})
             left == DeactivatePrevious(marked)
             parked == IF w \in XWindows THEN left ELSE ParkXWaylandFocus(left)
             stacked == Restack(parked, w)
             active == SetActivated(stacked, w, TRUE)
             entered == NotifyEnter(active, ToplevelSurface(w))
  <2>1. /\ w \in Windows /\ w \in st.mapped /\ w \notin st.minimized
        /\ st.session_locked = FALSE
    BY <1>3 DEF CanTakeFocus, Good, DeskType
  <2>2. Good(marked, u) /\ Frame(st, marked)
    BY SetSsdActiveGood
  <2>3. FocusToplevel(st, w) \in {marked, entered}
    BY <1>3 DEF FocusToplevel
  <2> HIDE DEF marked
  <2>4. Good(left, u) /\ Frame(marked, left)
    BY <2>2, DeactivatePreviousGood
  <2> HIDE DEF left
  <2>5. Good(parked, u) /\ Frame(left, parked)
    BY <2>4, ParkGood DEF Frame
  <2> HIDE DEF parked
  <2>6. Good(stacked, u) /\ Frame(parked, stacked)
    BY <2>1, <2>5, RestackGood
  <2>7. Frame(st, stacked)
    BY <2>2, <2>4, <2>5, <2>6 DEF Frame
  <2> HIDE DEF stacked
  <2>8. Good(active, u) /\ Frame(stacked, active)
    BY <2>1, <2>6, <2>7, ActivateGood, Zenon DEF Frame
  <2> HIDE DEF active
  <2>9. active.session_locked = FALSE
    BY <2>1, <2>7, <2>8 DEF Frame
  <2>10. Good(entered, u) /\ Frame(active, entered)
    BY <2>1, <2>8, <2>9, SurfacesContain, NotifyEnterGood
  <2>11. Frame(st, entered)
    BY <2>7, <2>8, <2>10 DEF Frame
  <2> QED
    BY <2>2, <2>3, <2>10, <2>11
<1> QED
  BY <1>1, <1>2, <1>3

\* Handing the keyboard on ends in one of the two, or in no focus at all.
LEMMA FocusNextToplevelGood ==
  ASSUME NEW st, NEW u, Good(st, u), NEW excluding
  PROVE  /\ Good(FocusNextToplevel(st, excluding), u)
         /\ Frame(st, FocusNextToplevel(st, excluding))
<1> DEFINE cleared == ClearFocus(ParkXWaylandFocus(st))
           layer == FocusLayerSurface(st, Newest(ExclusiveLayers(st)))
           next == FocusToplevel(st, Newest(Candidates(st, excluding)))
<1>1. FocusNextToplevel(st, excluding) \in {st, layer, next, cleared}
  BY DEF FocusNextToplevel
<1>2. Good(layer, u) /\ Frame(st, layer)
  BY FocusLayerSurfaceGood
<1>3. Good(next, u) /\ Frame(st, next)
  BY FocusToplevelGood
<1>4. Good(ParkXWaylandFocus(st), u) /\ Frame(st, ParkXWaylandFocus(st))
  BY ParkGood
<1>5. Good(cleared, u) /\ Frame(ParkXWaylandFocus(st), cleared)
  BY <1>4, ClearFocusGood
<1>6. Frame(st, cleared) /\ Frame(st, st)
  BY <1>4, <1>5 DEF Frame
<1> HIDE DEF cleared, layer, next
<1> QED
  BY <1>1, <1>2, <1>3, <1>5, <1>6

\* Ending the tile animation shows the node of its window.
LEMMA CancelAnimationGood ==
  ASSUME NEW st, NEW u, Good(st, u)
  PROVE  Good(CancelAnimation(st), u) /\ Frame(st, CancelAnimation(st))
<1>1. CASE st.animated = 0
  BY <1>1 DEF CancelAnimation, Frame
<1>2. CASE st.animated # 0
  <2>1. st.animated \in Windows /\ 0 \in 0 .. NumWindows
    BY <1>2, ConstantsAssumption DEF Good, DeskType, Windows
  <2> DEFINE shown == ForceShow(st, st.animated)
             r == [shown EXCEPT !.animated = 0]
  <2>2. Good(shown, u) /\ Frame(st, shown)
    BY <2>1, ForceShowGood
  <2>3. CancelAnimation(st) = r
    BY <1>2 DEF CancelAnimation
  <2> HIDE DEF shown
  <2>4. Good(r, u) /\ Frame(shown, r)
    BY <2>1, <2>2, SMTT(30) DEF Good, DeskType, LockSafe, Nested, XwmSafe, Frame
  <2> HIDE DEF r
  <2> QED
    BY <2>2, <2>3, <2>4 DEF Frame
<1> QED
  BY <1>1, <1>2

\* An animation whose window goes away is ended.
LEMMA SourceUnavailableGood ==
  ASSUME NEW st, NEW u, Good(st, u), NEW w
  PROVE  Good(SourceUnavailable(st, w), u) /\ Frame(st, SourceUnavailable(st, w))
BY SMTT(30), ConstantsAssumption
   DEF SourceUnavailable, Good, DeskType, LockSafe, Nested, XwmSafe, Frame

\* Minimizing hands the keyboard on and, for an X window, the X focus.
LEMMA MinimizeGood ==
  ASSUME NEW st, Good(st, 0), NEW w \in Windows
  PROVE  Good(Minimize(st, w), 0)
<1>1. CASE ~CanMinimize(w) \/ w \notin st.mapped \ st.minimized
  BY <1>1, Zenon DEF Minimize
<1>2. CASE ~(~CanMinimize(w) \/ w \notin st.mapped \ st.minimized)
  <2> DEFINE still == CancelAnimation(st)
             minimized == [still EXCEPT !.minimized = @ \cup {w}]
             hidden == SetEnabled(minimized, w, FALSE)
             moved == IF hidden.focused_surface = ToplevelSurface(w)
                      THEN FocusNextToplevel(hidden, w) ELSE hidden
  <2>1. Minimize(st, w) = IF w \in XWindows THEN SetActivated(moved, w, FALSE) ELSE moved
    BY <1>2 DEF Minimize
  <2>2. Good(still, 0)
    BY CancelAnimationGood
  <2> HIDE DEF still
  <2>3. Good(minimized, w)
    BY <2>2, SMTT(30) DEF Good, DeskType, LockSafe, Nested, XwmSafe
  <2> HIDE DEF minimized
  <2>4. Good(hidden, w)
    BY <2>3, SetEnabledGood, Zenon
  <2> HIDE DEF hidden
  <2>5. Good(moved, w)
    BY <2>4, FocusNextToplevelGood
  <2> HIDE DEF moved
  <2>6. CASE w \in XWindows
    <3> DEFINE r == SetActivated(moved, w, FALSE)
    <3>1. Good(r, w) /\ r.xwm_focused # w
      BY <2>5, <2>6, DeactivateGood, Zenon
    <3> HIDE DEF r
    <3>2. Good(r, 0)
      BY <3>1 DEF Good, XwmSafe
    <3> QED
      BY <2>1, <2>6, <3>2, Zenon DEF r
  <2>7. CASE w \notin XWindows
    <3>1. w # 0
      BY DEF Windows
    <3>2. Good(moved, 0)
      BY <2>5, <2>7, <3>1 DEF Good, XwmSafe
    <3> QED
      BY <2>1, <2>7, <3>2
  <2> QED
    BY <2>6, <2>7
<1> QED
  BY <1>1, <1>2

\* Restoring a window makes more windows usable.
LEMMA UnminimizeGood ==
  ASSUME NEW st, Good(st, 0), NEW w
  PROVE  Good(Unminimize(st, w), 0)
BY SMTT(30) DEF Unminimize, Good, DeskType, LockSafe, Nested, XwmSafe

\* The flags of a window's size play no part in focus.
LEMMA SizeGood ==
  ASSUME NEW st, Good(st, 0), NEW m \in SUBSET Windows, NEW t \in SUBSET Windows
  PROVE  Good([st EXCEPT !.maximized = m, !.tiled = t], 0)
BY ZenonT(60) DEF Good, DeskType, LockSafe, Nested, XwmSafe

\* Maximizing ends the animation, shows the node and moves no focus.
LEMMA SetMaximizedGood ==
  ASSUME NEW st, Good(st, 0), NEW w \in Windows, NEW maximized \in BOOLEAN
  PROVE  Good(SetMaximized(st, w, maximized), 0)
<1> DEFINE still == CancelAnimation(st)
           untiled == [still EXCEPT !.tiled = IF maximized THEN @ ELSE @ \ {w}]
           changed == [still EXCEPT
                         !.maximized = IF maximized THEN @ \cup {w} ELSE @ \ {w},
                         !.tiled = @ \ {w}]
           restored == Unminimize(changed, w)
<1>1. SetMaximized(st, w, maximized) \in {st, untiled, changed, ForceShow(restored, w)}
  BY DEF SetMaximized
<1>2. Good(still, 0)
  BY CancelAnimationGood
<1> HIDE DEF still
<1>3. Good(untiled, 0)
  <2>1. CASE maximized
    BY <1>2, <2>1 DEF Good, DeskType, LockSafe, Nested, XwmSafe
  <2>2. CASE ~maximized
    BY <1>2, <2>2, SMTT(30) DEF Good, DeskType, LockSafe, Nested, XwmSafe
  <2> QED
    BY <2>1, <2>2
<1>4. Good(changed, 0)
  <2> DEFINE m == IF maximized THEN still.maximized \cup {w} ELSE still.maximized \ {w}
  <2>1. m \in SUBSET Windows /\ still.tiled \ {w} \in SUBSET Windows
    BY <1>2 DEF Good, DeskType
  <2> HIDE DEF m
  <2>2. Good([still EXCEPT !.maximized = m, !.tiled = still.tiled \ {w}], 0)
    BY <1>2, <2>1, SizeGood, Zenon
  <2> QED
    BY <2>2 DEF m
<1> HIDE DEF changed, untiled
<1>5. Good(restored, 0)
  BY <1>4, UnminimizeGood
<1> HIDE DEF restored
<1>6. Good(ForceShow(restored, w), 0)
  BY <1>5, ForceShowGood
<1> QED
  BY <1>1, <1>3, <1>4, <1>6

\* Tiling restores a maximized window, shows or animates it and moves no focus.
LEMMA TileToplevelGood ==
  ASSUME NEW st, Good(st, 0), NEW w \in Windows, NEW animate \in BOOLEAN
  PROVE  Good(TileToplevel(st, w, animate), 0)
<1> DEFINE still == CancelAnimation(st)
           hidden == SetEnabled(still, w, FALSE)
           started == IF animate THEN [hidden EXCEPT !.animated = w] ELSE still
           placed == [started EXCEPT !.maximized = @ \ {w}, !.tiled = @ \cup {w}]
           shown == IF w \in st.minimized
                    THEN ForceShow(Unminimize(placed, w), w) ELSE placed
<1>1. TileToplevel(st, w, animate) \in {st, FocusToplevel(shown, w)}
  BY DEF TileToplevel
<1>2. Good(still, 0)
  BY CancelAnimationGood
<1>3. Good(hidden, 0)
  BY <1>2, SetEnabledGood, Zenon
<1>4. w \in 0 .. NumWindows
  BY ConstantsAssumption DEF Windows
<1> HIDE DEF still, hidden
<1>5. Good(started, 0)
  <2>1. Good([hidden EXCEPT !.animated = w], 0)
    BY <1>3, <1>4, SMTT(30) DEF Good, DeskType, LockSafe, Nested, XwmSafe
  <2> QED
    BY <1>2, <2>1
<1> HIDE DEF started
<1>6. Good(placed, 0)
  <2>1. started.maximized \ {w} \in SUBSET Windows /\ started.tiled \cup {w} \in SUBSET Windows
    BY <1>5 DEF Good, DeskType
  <2> QED
    BY <1>5, <2>1, SizeGood, Zenon
<1> HIDE DEF placed
<1>7. Good(shown, 0)
  BY <1>6, UnminimizeGood, ForceShowGood, Zenon
<1> HIDE DEF shown
<1>8. Good(FocusToplevel(shown, w), 0)
  BY <1>7, FocusToplevelGood
<1> QED
  BY <1>1, <1>8

\* Where the view is plays no part in the invariant.
LEMMA ViewGood ==
  ASSUME NEW st, Good(st, 0), NEW n \in Workspaces
  PROVE  Good([st EXCEPT !.current_workspace = n], 0)
BY SMTT(30) DEF Good, DeskType, LockSafe, Nested, XwmSafe

\* Switching the workspace recomputes the scene and hands the keyboard on.
LEMMA SwitchWorkspaceGood ==
  ASSUME NEW st, Good(st, 0), NEW n
  PROVE  Good(SwitchWorkspace(st, n), 0)
<1>1. CASE n \notin 0 .. st.workspace_count - 1 \/ n = st.current_workspace \/ st.session_locked
  BY <1>1, Zenon DEF SwitchWorkspace
<1>2. CASE ~(n \notin 0 .. st.workspace_count - 1 \/ n = st.current_workspace \/ st.session_locked)
  <2> DEFINE viewed == [st EXCEPT !.current_workspace = n]
             shown == RefreshScene(viewed)
             bars == [w \in Windows |-> IF shown.ssd[w] = "none" \/ OnCurrentWorkspace(shown, w)
                                        THEN shown.ssd[w] ELSE "inactive"]
             dimmed == [shown EXCEPT !.ssd = bars]
             gone == {w \in FocusedToplevels(st) \cap st.scene_tree :
                        ~OnCurrentWorkspace(shown, w)}
             left == SetActivated(dimmed, CHOOSE w \in gone : TRUE, FALSE)
             cleared == IF gone = {} THEN dimmed ELSE ClearFocus(left)
  <2>1. SwitchWorkspace(st, n) = FocusNextToplevel(cleared, 0)
    BY <1>2 DEF SwitchWorkspace
  <2>2. n \in Workspaces
    BY <1>2, ConstantsAssumption DEF Good, DeskType, Workspaces
  <2>3. Good(viewed, 0)
    BY <2>2, ViewGood
  <2> HIDE DEF viewed
  <2>4. Good(shown, 0)
    BY <2>3, RefreshSceneGood
  <2> HIDE DEF shown
  <2>5. bars \in [Windows -> Titlebars]
    BY <2>4 DEF Good, DeskType, Titlebars
  <2> HIDE DEF bars
  <2>6. Good(dimmed, 0)
    BY <2>4, <2>5, TitlebarsGood
  <2>7. gone \subseteq Windows
    BY DEF FocusedToplevels
  <2> HIDE DEF dimmed, gone
  <2>8. gone # {} => (CHOOSE w \in gone : TRUE) \in Windows
    BY <2>7
  <2>9. gone # {} => Good(left, 0)
    BY <2>6, <2>8, DeactivateGood, Zenon
  <2> HIDE DEF left
  <2>10. Good(cleared, 0)
    BY <2>6, <2>9, ClearFocusGood
  <2> HIDE DEF cleared
  <2> QED
    BY <2>1, <2>10, FocusNextToplevelGood
<1> QED
  BY <1>1, <1>2

\* Nor do the numbers of the workspaces the windows are on.
LEMMA PlacesGood ==
  ASSUME NEW st, Good(st, 0), NEW f \in [Windows -> Workspaces]
  PROVE  Good([st EXCEPT !.workspace = f], 0)
BY SMTT(30) DEF Good, DeskType, LockSafe, Nested, XwmSafe

\* A window sent away hides its node and hands the keyboard on.
LEMMA MoveToplevelToWorkspaceGood ==
  ASSUME NEW st, Good(st, 0), NEW w \in Windows, NEW n
  PROVE  Good(MoveToplevelToWorkspace(st, w, n), 0)
<1>1. CASE n \notin 0 .. st.workspace_count - 1 \/ st.workspace[w] = n
  BY <1>1, Zenon DEF MoveToplevelToWorkspace
<1>2. CASE ~(n \notin 0 .. st.workspace_count - 1 \/ st.workspace[w] = n)
  <2> DEFINE f == [st.workspace EXCEPT ![w] = n]
             moved == [st EXCEPT !.workspace = f]
             shown == SetEnabled(moved, w, IsToplevelVisible(moved, w))
             left == SetActivated(shown, w, FALSE)
  <2>1. MoveToplevelToWorkspace(st, w, n) \in {shown, FocusNextToplevel(left, w)}
    BY <1>2 DEF MoveToplevelToWorkspace
  <2>2. n \in Workspaces
    BY <1>2, ConstantsAssumption DEF Good, DeskType, Workspaces
  <2>3. f \in [Windows -> Workspaces]
    BY <2>2 DEF Good, DeskType
  <2> HIDE DEF f
  <2>4. Good(moved, 0)
    BY <2>3, PlacesGood
  <2> HIDE DEF moved
  <2>5. IsToplevelVisible(moved, w) \in BOOLEAN
    BY DEF IsToplevelVisible
  <2>6. Good(shown, 0)
    BY <2>4, <2>5, SetEnabledGood
  <2> HIDE DEF shown
  <2>7. Good(left, 0)
    BY <2>6, DeactivateGood, Zenon
  <2> HIDE DEF left
  <2>8. Good(FocusNextToplevel(left, w), 0)
    BY <2>7, FocusNextToplevelGood
  <2> QED
    BY <2>1, <2>6, <2>8
<1> QED
  BY <1>1, <1>2

\* A new workspace has a number below the maximum.
LEMMA AddWorkspaceGood ==
  ASSUME NEW st, Good(st, 0)
  PROVE  Good(AddWorkspace(st), 0)
<1> DEFINE n == IF st.workspace_count >= MaximumWorkspaceCount THEN st.workspace_count
                ELSE st.workspace_count + 1
<1>1. n \in 1 .. MaximumWorkspaceCount
  BY ConstantsAssumption DEF Good, DeskType
<1>2. AddWorkspace(st) = [st EXCEPT !.workspace_count = n]
  BY DEF AddWorkspace
<1> HIDE DEF n
<1>3. Good([st EXCEPT !.workspace_count = n], 0)
  BY <1>1, SMTT(30) DEF Good, DeskType, LockSafe, Nested, XwmSafe
<1> QED
  BY <1>2, <1>3

\* Renumbering keeps every index in range.
LEMMA AfterRemovalType ==
  ASSUME NEW st, Good(st, 0), st.workspace_count > 1,
         NEW n \in 0 .. st.workspace_count - 1, NEW i \in Workspaces
  PROVE  AfterRemoval(i, n, st.workspace_count - 2) \in Workspaces
BY ConstantsAssumption DEF AfterRemoval, Workspaces, Good, DeskType

\* Reordering keeps every index in range.
LEMMA RemapType ==
  ASSUME NEW i \in Workspaces, NEW from \in Workspaces, NEW to \in Workspaces
  PROVE  Remap(i, from, to) \in Workspaces
BY ConstantsAssumption DEF Remap, Workspaces

\* Removing a workspace renumbers the others and recomputes the scene.
LEMMA RemoveWorkspaceGood ==
  ASSUME NEW st, Good(st, 0), NEW n
  PROVE  Good(RemoveWorkspace(st, n), 0)
<1>1. CASE st.workspace_count <= 1 \/ n \notin 0 .. st.workspace_count - 1
  BY <1>1 DEF RemoveWorkspace
<1>2. CASE ~(st.workspace_count <= 1 \/ n \notin 0 .. st.workspace_count - 1)
  <2> DEFINE last == st.workspace_count - 2
             f == [w \in Windows |-> IF w <= st.created
                                     THEN AfterRemoval(st.workspace[w], n, last)
                                     ELSE st.workspace[w]]
             c == AfterRemoval(st.current_workspace, n, last)
             k == st.workspace_count - 1
             r == [st EXCEPT !.workspace_count = k, !.workspace = f, !.current_workspace = c]
  <2>1. RemoveWorkspace(st, n) = RefreshScene(r)
    BY <1>2 DEF RemoveWorkspace
  <2>2. st.workspace_count > 1 /\ n \in 0 .. st.workspace_count - 1
    BY <1>2 DEF Good, DeskType
  <2>3. f \in [Windows -> Workspaces] /\ c \in Workspaces
    BY <2>2, AfterRemovalType DEF Good, DeskType
  <2>4. k \in 1 .. MaximumWorkspaceCount
    BY <2>2, ConstantsAssumption DEF Good, DeskType
  <2> HIDE DEF f, c, k
  <2>5. Good(r, 0)
    <3>1. r \in DeskType
      BY <2>3, <2>4, ZenonT(60) DEF Good, DeskType
    <3>2. LockSafe(r) /\ Nested(r)
      BY <2>3, <2>4 DEF Good, DeskType, LockSafe, Nested
    <3>3. XwmSafe(r, 0)
      BY <2>3, <2>4 DEF Good, DeskType, XwmSafe, Nested
    <3> QED
      BY <3>1, <3>2, <3>3 DEF Good
  <2> HIDE DEF r
  <2> QED
    BY <2>1, <2>5, RefreshSceneGood
<1> QED
  BY <1>1, <1>2

\* Reordering renumbers the workspaces and nothing else.
LEMMA ReorderWorkspaceGood ==
  ASSUME NEW st, Good(st, 0), NEW from, NEW to
  PROVE  Good(ReorderWorkspace(st, from, to), 0)
<1>1. CASE ~({from, to} \subseteq 0 .. st.workspace_count - 1 /\ from # to)
  BY <1>1 DEF ReorderWorkspace
<1>2. CASE {from, to} \subseteq 0 .. st.workspace_count - 1 /\ from # to
  <2> DEFINE f == [w \in Windows |-> IF w <= st.created
                                     THEN Remap(st.workspace[w], from, to)
                                     ELSE st.workspace[w]]
             c == Remap(st.current_workspace, from, to)
             r == [st EXCEPT !.workspace = f, !.current_workspace = c]
  <2>1. ReorderWorkspace(st, from, to) = r
    BY <1>2 DEF ReorderWorkspace
  <2>2. from \in Workspaces /\ to \in Workspaces
    BY <1>2, ConstantsAssumption DEF Good, DeskType, Workspaces
  <2>3. f \in [Windows -> Workspaces] /\ c \in Workspaces
    BY <2>2, RemapType DEF Good, DeskType
  <2> HIDE DEF f, c
  <2>4. Good(r, 0)
    BY <2>3, ZenonT(60) DEF Good, DeskType, LockSafe, Nested, XwmSafe
  <2> QED
    BY <2>1, <2>4
<1> QED
  BY <1>1, <1>2

\* Keeping a window above others changes the stacking order only.
LEMMA SetKeptAboveGood ==
  ASSUME NEW st, Good(st, 0), NEW w \in Windows, NEW kept \in BOOLEAN
  PROVE  Good(SetKeptAbove(st, w, kept), 0)
<1> DEFINE lowered == [st EXCEPT !.kept_above = @ \ {w}]
           raised == [st EXCEPT !.kept_above = @ \cup {w}]
<1>1. SetKeptAbove(st, w, kept) \in {st, lowered, raised, RaiseToTop(raised, w)}
  BY DEF SetKeptAbove
<1>2. Good(lowered, 0)
  BY SMTT(30) DEF Good, DeskType, LockSafe, Nested, XwmSafe
<1>3. Good(raised, 0)
  BY SMTT(30) DEF Good, DeskType, LockSafe, Nested, XwmSafe
<1> HIDE DEF lowered, raised
<1>4. Good(RaiseToTop(raised, w), 0)
  BY <1>3, RaiseToTopGood
<1> QED
  BY <1>1, <1>2, <1>3, <1>4

\* A window leaves all workspaces but one and hands the keyboard on.
LEMMA SetAllWorkspacesGood ==
  ASSUME NEW st, Good(st, 0), NEW w \in Windows, NEW all \in BOOLEAN
  PROVE  Good(SetAllWorkspaces(st, w, all), 0)
<1> DEFINE f == [st.workspace EXCEPT ![w] = st.current_workspace]
           everywhere == [st EXCEPT !.all_workspaces = @ \cup {w}]
           here == [st EXCEPT !.all_workspaces = @ \ {w}, !.workspace = f]
           changed == IF all THEN everywhere ELSE here
           shown == SetEnabled(changed, w, IsToplevelVisible(changed, w))
<1>1. SetAllWorkspaces(st, w, all) \in {st, changed, shown}
  BY DEF SetAllWorkspaces
<1>2. f \in [Windows -> Workspaces]
  BY DEF Good, DeskType
<1> HIDE DEF f
<1>3. Good(everywhere, 0)
  BY SMTT(30) DEF Good, DeskType, LockSafe, Nested, XwmSafe
<1>4. Good(here, 0)
  <2>1. here \in DeskType
    BY <1>2, ZenonT(60) DEF Good, DeskType
  <2>2. LockSafe(here) /\ Nested(here)
    BY <1>2 DEF Good, DeskType, LockSafe, Nested
  <2>3. XwmSafe(here, 0)
    BY <1>2 DEF Good, DeskType, XwmSafe, Nested
  <2> QED
    BY <2>1, <2>2, <2>3 DEF Good
<1> HIDE DEF everywhere, here
<1>5. Good(changed, 0)
  BY <1>3, <1>4
<1> HIDE DEF changed
<1>6. IsToplevelVisible(changed, w) \in BOOLEAN
  BY DEF IsToplevelVisible
<1>7. Good(shown, 0)
  BY <1>5, <1>6, SetEnabledGood
<1> HIDE DEF shown
<1> QED
  BY <1>1, <1>5, <1>7

\* An overview that opens or closes recomputes the scene.
LEMMA SetSourcesHiddenGood ==
  ASSUME NEW st, Good(st, 0), NEW overview \in Overviews, NEW hidden \in BOOLEAN
  PROVE  Good(SetSourcesHidden(st, overview, hidden), 0)
<1> DEFINE h == IF hidden THEN st.sources_hidden \cup {overview}
                ELSE st.sources_hidden \ {overview}
           r == [st EXCEPT !.sources_hidden = h]
<1>1. h \in SUBSET Overviews
  BY DEF Good, DeskType
<1>2. SetSourcesHidden(st, overview, hidden) = RefreshScene(r)
  BY DEF SetSourcesHidden
<1> HIDE DEF h
<1>3. Good(r, 0)
  BY <1>1, SMTT(30) DEF Good, DeskType, LockSafe, Nested, XwmSafe
<1> HIDE DEF r
<1> QED
  BY <1>2, <1>3, RefreshSceneGood

\* Mapping a window with a scene node.
LEMMA OnMapGood ==
  ASSUME NEW st, Good(st, 0), NEW w \in Windows, w \in st.scene_tree,
         NEW requested \in BOOLEAN
  PROVE  Good(OnMap(st, w, requested), 0)
<1> DEFINE mapped == [st EXCEPT !.mapped = @ \cup {w}]
           shown == SetEnabled(mapped, w, IsToplevelVisible(mapped, w))
           sized == IF requested /\ CanManage(w) THEN SetMaximized(shown, w, TRUE) ELSE shown
<1>1. OnMap(st, w, requested) = IF WantsFocus(w) THEN FocusToplevel(sized, w) ELSE sized
  BY DEF OnMap
<1>2. Good(mapped, 0)
  BY SMTT(30) DEF Good, DeskType, LockSafe, Nested, XwmSafe
<1> HIDE DEF mapped
<1>3. IsToplevelVisible(mapped, w) \in BOOLEAN
  BY DEF IsToplevelVisible
<1>4. Good(shown, 0)
  BY <1>2, <1>3, SetEnabledGood
<1> HIDE DEF shown
<1>5. Good(sized, 0)
  BY <1>4, SetMaximizedGood, Zenon
<1> HIDE DEF sized
<1>6. Good(FocusToplevel(sized, w), 0)
  BY <1>5, FocusToplevelGood
<1> QED
  BY <1>1, <1>5, <1>6

\* Unmapping takes the X focus away first and then hands the keyboard on.
LEMMA OnUnmapGood ==
  ASSUME NEW st, Good(st, 0), NEW w \in Windows
  PROVE  /\ Good(OnUnmap(st, w), 0)
         /\ OnUnmap(st, w).mapped = st.mapped \ {w}
         /\ OnUnmap(st, w).alive = st.alive
<1> DEFINE parked == IF w \in XWindows THEN SetActivated(st, w, FALSE) ELSE st
           still == SourceUnavailable(parked, w)
           unmapped == [still EXCEPT !.mapped = @ \ {w}]
<1>1. OnUnmap(st, w) \in {unmapped, FocusNextToplevel(unmapped, w)}
  BY DEF OnUnmap
<1>2. Good(parked, 0) /\ Frame(st, parked)
  BY DeactivateGood, ZenonT(60) DEF Frame
<1>3. parked.xwm_focused # w
  <2>1. CASE w \in XWindows
    BY <2>1, DeactivateGood, Zenon
  <2>2. CASE w \notin XWindows
    <3>1. w # 0
      BY DEF Windows
    <3> QED
      BY <2>2, <3>1 DEF Good, XwmSafe
  <2> QED
    BY <2>1, <2>2, Zenon
<1>4. still.xwm_focused = parked.xwm_focused
  BY <1>2 DEF SourceUnavailable, Good, DeskType
<1> HIDE DEF parked
<1>5. Good(still, 0) /\ Frame(parked, still)
  BY <1>2, SourceUnavailableGood
<1> HIDE DEF still
<1>6. Good(unmapped, 0)
  BY <1>3, <1>4, <1>5, SMTT(30) DEF Good, DeskType, LockSafe, Nested, XwmSafe
<1>7. unmapped.mapped = st.mapped \ {w} /\ unmapped.alive = st.alive
  BY <1>2, <1>5 DEF Frame, Good, DeskType
<1> HIDE DEF unmapped
<1>8. /\ Good(FocusNextToplevel(unmapped, w), 0)
      /\ Frame(unmapped, FocusNextToplevel(unmapped, w))
  BY <1>6, FocusNextToplevelGood
<1> QED
  BY <1>1, <1>6, <1>7, <1>8 DEF Frame

\* The scene node of an unmapped X window can go.
LEMMA DissociateGood ==
  ASSUME NEW st, Good(st, 0), NEW w \in Windows, w \in XWindows
  PROVE  Good(Dissociate(st, w), 0) /\ w \notin Dissociate(st, w).scene_tree
<1> DEFINE unmapped == IF w \in st.mapped THEN OnUnmap(st, w) ELSE st
           left == LeaveStack(unmapped, w)
           hidden == SetEnabled(left, w, FALSE)
           r == [hidden EXCEPT !.scene_tree = @ \ {w}]
<1>1. Dissociate(st, w) = r
  BY DEF Dissociate
<1>2. Good(unmapped, 0) /\ w \notin unmapped.mapped
  BY OnUnmapGood
<1> HIDE DEF unmapped
<1>3. Good(left, 0) /\ w \notin left.mapped
  BY <1>2, LeaveStackGood DEF Frame
<1> HIDE DEF left
<1>6. Good(hidden, 0) /\ w \notin hidden.mapped
  BY <1>3, SetEnabledGood, Zenon DEF Frame
<1> HIDE DEF hidden
<1>4. Good(r, 0)
  <2>1. r \in DeskType
    BY <1>6, ZenonT(60) DEF Good, DeskType
  <2>2. LockSafe(r) /\ Nested(r)
    BY <1>6 DEF Good, DeskType, LockSafe, Nested
  <2>3. XwmSafe(r, 0)
    BY <1>6 DEF Good, DeskType, XwmSafe, Nested
  <2> QED
    BY <2>1, <2>2, <2>3 DEF Good
<1>5. w \notin r.scene_tree
  BY <1>6 DEF Good, DeskType
<1> QED
  BY <1>1, <1>4, <1>5

\* A destroyed window is unmapped, so nothing points to it any more.
LEMMA OnDestroyGood ==
  ASSUME NEW st, Good(st, 0), NEW w \in Windows
  PROVE  Good(OnDestroy(st, w), 0)
<1> DEFINE left == IF w \in XWindows THEN SetActivated(Dissociate(st, w), w, FALSE)
                   ELSE IF w \in st.mapped THEN OnUnmap(st, w) ELSE st
           still == SourceUnavailable(left, w)
           out == LeaveStack(still, w)
           hidden == SetEnabled(out, w, FALSE)
           bars == [hidden.ssd EXCEPT ![w] = "none"]
           r == [hidden EXCEPT !.alive = @ \ {w}, !.scene_tree = @ \ {w},
                               !.initialized = @ \ {w}, !.activated = @ \ {w}, !.ssd = bars]
<1>1. OnDestroy(st, w) = r
  BY DEF OnDestroy, EraseToplevel
<1>2. Good(left, 0) /\ w \notin left.mapped
  <2>1. CASE w \in XWindows
    <3>1. Good(Dissociate(st, w), 0) /\ w \notin Dissociate(st, w).mapped
      BY <2>1, DissociateGood DEF Good, Nested
    <3> QED
      BY <2>1, <3>1, DeactivateGood, Zenon DEF Frame
  <2>2. CASE w \notin XWindows
    BY <2>2, OnUnmapGood
  <2> QED
    BY <2>1, <2>2, Zenon
<1> HIDE DEF left
<1>3. Good(still, 0) /\ w \notin still.mapped
  BY <1>2, SourceUnavailableGood DEF Frame
<1> HIDE DEF still
<1>4. Good(out, 0) /\ w \notin out.mapped
  BY <1>3, LeaveStackGood DEF Frame
<1> HIDE DEF out
<1>6. Good(hidden, 0) /\ w \notin hidden.mapped
  BY <1>4, SetEnabledGood, Zenon DEF Frame
<1> HIDE DEF hidden
<1>7. bars \in [Windows -> Titlebars]
  BY <1>6 DEF Good, DeskType, Titlebars
<1> HIDE DEF bars
<1>5. Good(r, 0)
  <2>1. r \in DeskType
    BY <1>6, <1>7, ZenonT(60) DEF Good, DeskType
  <2>2. LockSafe(r) /\ Nested(r)
    BY <1>6, <1>7 DEF Good, DeskType, LockSafe, Nested
  <2>3. XwmSafe(r, 0)
    BY <1>6, <1>7 DEF Good, DeskType, XwmSafe, Nested
  <2> QED
    BY <2>1, <2>2, <2>3 DEF Good
<1> QED
  BY <1>1, <1>5

(***************************************************************************)
(* The actions, by what they act on.                                       *)
(***************************************************************************)

\* A window's life: creation, first commit, mapping, unmapping, destruction.
LEMMA LifeGood ==
  ASSUME Good(desk, 0), NEW w \in Windows, NEW b \in BOOLEAN, NEW c \in BOOLEAN,
         \/ OnNewToplevel(w) \/ InitialCommit(w)
         \/ XdgMap(w, b) \/ XMap(w, b) \/ XAssociate(w, c, b)
         \/ XdgUnmap(w) \/ XUnmap(w) \/ XDissociate(w) \/ Destroy(w)
  PROVE  Good(desk', 0)
<1>1. CASE OnNewToplevel(w)
  <2> DEFINE f == [desk.workspace EXCEPT ![w] = desk.current_workspace]
             new == [desk EXCEPT !.created = w, !.alive = @ \cup {w}, !.workspace = f]
             node == [new EXCEPT !.scene_tree = @ \cup {w}, !.enabled = @ \cup {w}]
  <2>1. desk' = IF w \in XWindows THEN new ELSE RaiseToTop(node, w)
    BY <1>1 DEF OnNewToplevel, Run
  <2>2. f \in [Windows -> Workspaces] /\ w \in 0 .. NumWindows
    BY ConstantsAssumption DEF Good, DeskType, Windows
  <2> HIDE DEF f
  <2>3. new \in DeskType /\ node \in DeskType
    <3>1. new \in DeskType
      BY <2>2, ZenonT(60) DEF Good, DeskType
    <3> HIDE DEF new
    <3>2. node \in DeskType
      BY <3>1, ZenonT(60) DEF DeskType
    <3> QED
      BY <3>1, <3>2
  <2>4. LockSafe(new) /\ LockSafe(node)
    BY DEF Good, LockSafe, DeskType
  <2>5. XwmSafe(new, 0) /\ XwmSafe(node, 0)
    BY DEF Good, XwmSafe, DeskType
  <2>6. w \in XWindows => Nested(new)
    BY DEF Good, Nested, DeskType
  <2>7. w \notin XWindows => Nested(node)
    BY DEF Good, Nested, DeskType
  <2>8. w \in XWindows => Good(new, 0)
    BY <2>3, <2>4, <2>5, <2>6 DEF Good
  <2>9. w \notin XWindows => Good(node, 0)
    BY <2>3, <2>4, <2>5, <2>7 DEF Good
  <2> HIDE DEF new, node
  <2> QED
    BY <2>1, <2>8, <2>9, RaiseToTopGood
<1>2. CASE InitialCommit(w)
  <2>1. /\ desk' = [desk EXCEPT !.initialized = @ \cup {w}]
        /\ w \in desk.alive \ XWindows
    BY <1>2 DEF InitialCommit, Run, Xdg
  <2> QED
    BY <2>1, SMTT(30) DEF Good, DeskType, LockSafe, Nested, XwmSafe
<1>3. CASE XdgMap(w, b)
  <2>1. desk' = OnMap(desk, w, b) /\ w \in desk.scene_tree
    BY <1>3 DEF XdgMap, Run, Good, Nested
  <2> QED
    BY <2>1, OnMapGood
<1>4. CASE XMap(w, b)
  <2>1. desk' = OnMap(desk, w, b) /\ w \in desk.scene_tree
    BY <1>4 DEF XMap, Run
  <2> QED
    BY <2>1, OnMapGood
<1>5. CASE XAssociate(w, c, b)
  <2> DEFINE here == [desk EXCEPT !.scene_tree = @ \cup {w}]
             node == RaiseToTop(here, w)
  <2>1. desk' = (IF c THEN OnMap(node, w, b) ELSE node) /\ w \in desk.alive
    BY <1>5 DEF XAssociate, Run
  <2>2. Good(here, 0) /\ w \in here.scene_tree
    BY <2>1, SMTT(30) DEF Good, DeskType, LockSafe, Nested, XwmSafe
  <2> HIDE DEF here
  <2>3. Good(node, 0) /\ w \in node.scene_tree
    BY <2>2, RaiseToTopGood DEF Frame
  <2> HIDE DEF node
  <2> QED
    BY <2>1, <2>3, OnMapGood
<1>6. CASE XdgUnmap(w)
  <2> DEFINE r == OnUnmap(desk, w)
  <2>1. desk' = [r EXCEPT !.initialized = @ \ {w}]
    BY <1>6 DEF XdgUnmap, Run
  <2>2. Good(r, 0)
    BY OnUnmapGood
  <2> HIDE DEF r
  <2> QED
    BY <2>1, <2>2, SMTT(30) DEF Good, DeskType, LockSafe, Nested, XwmSafe
<1>7. CASE XUnmap(w)
  <2>1. desk' = OnUnmap(SetEnabled(desk, w, FALSE), w)
    BY <1>7 DEF XUnmap, Run
  <2>2. Good(SetEnabled(desk, w, FALSE), 0)
    BY SetEnabledGood, Zenon
  <2> QED
    BY <2>1, <2>2, OnUnmapGood, Zenon
<1>8. CASE XDissociate(w)
  BY <1>8, DissociateGood DEF XDissociate, Run
<1>9. CASE Destroy(w)
  BY <1>9, OnDestroyGood DEF Destroy, Run
<1> QED
  BY <1>1, <1>2, <1>3, <1>4, <1>5, <1>6, <1>7, <1>8, <1>9

\* What users, clients and taskbars ask of a window.
LEMMA RequestsGood ==
  ASSUME Good(desk, 0), NEW w \in Windows, NEW b \in BOOLEAN,
         \/ Activate(w) \/ MinimizeWindow(w) \/ RequestUnminimize(w)
         \/ XRequestUnminimize(w) \/ ToggleMaximized(w) \/ OnRequestMaximize(w, b)
         \/ RequestMaximize(w, b) \/ Tile(w, b) \/ BeginInteractive(w, b)
         \/ SetSsdEnabled(w, b)
  PROVE  Good(desk', 0)
<1>1. CASE Activate(w)
  BY <1>1, FocusToplevelGood DEF Activate, Run
<1>2. CASE MinimizeWindow(w)
  BY <1>2, MinimizeGood DEF MinimizeWindow, Run
<1>3. CASE RequestUnminimize(w)
  <2> DEFINE st == Unminimize(desk, w)
  <2>1. desk' = SetEnabled(st, w, IsToplevelVisible(st, w))
    BY <1>3 DEF RequestUnminimize, Run
  <2>2. Good(st, 0)
    BY UnminimizeGood
  <2>3. IsToplevelVisible(st, w) \in BOOLEAN
    BY DEF IsToplevelVisible
  <2> HIDE DEF st
  <2> QED
    BY <2>1, <2>2, <2>3, SetEnabledGood
<1>4. CASE XRequestUnminimize(w)
  <2> DEFINE restored == Unminimize(desk, w)
             shown == IF w \in desk.scene_tree THEN ForceShow(restored, w) ELSE restored
  <2>1. desk' \in {shown, FocusToplevel(shown, w)}
    BY <1>4, Zenon DEF XRequestUnminimize, Run
  <2>2. Good(restored, 0)
    BY UnminimizeGood
  <2> HIDE DEF restored
  <2>3. Good(shown, 0)
    BY <2>2, ForceShowGood, Zenon
  <2> HIDE DEF shown
  <2> QED
    BY <2>1, <2>3, FocusToplevelGood
<1>5. CASE ToggleMaximized(w)
  BY <1>5, SetMaximizedGood, Zenon DEF ToggleMaximized, Run
<1>6. CASE OnRequestMaximize(w, b)
  <2>1. (CanMaximize(w) /\ b) \in BOOLEAN
    OBVIOUS
  <2> QED
    BY <1>6, <2>1, SetMaximizedGood, Zenon DEF OnRequestMaximize, Run
<1>7. CASE RequestMaximize(w, b)
  <2>1. (b /\ CanMaximize(w)) \in BOOLEAN
    OBVIOUS
  <2> QED
    BY <1>7, <2>1, SetMaximizedGood, Zenon DEF RequestMaximize, Run
<1>8. CASE Tile(w, b)
  BY <1>8, TileToplevelGood DEF Tile, Run
<1>9. CASE BeginInteractive(w, b)
  <2> DEFINE still == CancelAnimation(desk)
  <2>1. desk' \in {still, SetMaximized(still, w, FALSE)}
    BY <1>9 DEF BeginInteractive, Run
  <2>2. Good(still, 0)
    BY CancelAnimationGood
  <2> HIDE DEF still
  <2>3. Good(SetMaximized(still, w, FALSE), 0)
    BY <2>2, SetMaximizedGood, Zenon
  <2> QED
    BY <2>1, <2>2, <2>3, Zenon
<1>10. CASE SetSsdEnabled(w, b)
  <2> DEFINE t == [desk.ssd EXCEPT ![w] = IF ~b THEN "none"
                                          ELSE IF @ = "none" THEN "new" ELSE @]
  <2>1. desk' = [desk EXCEPT !.ssd = t]
    BY <1>10 DEF SetSsdEnabled, Run
  <2>2. t \in [Windows -> Titlebars]
    BY DEF Good, DeskType, Titlebars
  <2> HIDE DEF t
  <2> QED
    BY <2>1, <2>2, TitlebarsGood
<1> QED
  BY <1>1, <1>2, <1>3, <1>4, <1>5, <1>6, <1>7, <1>8, <1>9, <1>10

\* Moving windows between workspaces, and picking them in the switchers.
LEMMA PlacementGood ==
  ASSUME Good(desk, 0), NEW w \in Windows, NEW n \in Workspaces,
         \/ MoveWindow(w, n) \/ SendToWorkspace(w, n)
         \/ ToggleAllWorkspaces(w) \/ ToggleKeptAbove(w)
         \/ AppSwitcherActivate(w) \/ CloseMultitaskingOnWindow(w) \/ PickPreview(w)
  PROVE  Good(desk', 0)
<1>1. CASE MoveWindow(w, n)
  BY <1>1, MoveToplevelToWorkspaceGood DEF MoveWindow, Run
<1>2. CASE SendToWorkspace(w, n)
  <2>1. desk' = MoveToplevelToWorkspace(SetAllWorkspaces(desk, w, FALSE), w, n)
    BY <1>2 DEF SendToWorkspace, Run
  <2>2. Good(SetAllWorkspaces(desk, w, FALSE), 0)
    BY SetAllWorkspacesGood, Zenon
  <2> QED
    BY <2>1, <2>2, MoveToplevelToWorkspaceGood, Zenon
<1>3. CASE ToggleAllWorkspaces(w)
  BY <1>3, SetAllWorkspacesGood, Zenon DEF ToggleAllWorkspaces, Run
<1>4. CASE ToggleKeptAbove(w)
  BY <1>4, SetKeptAboveGood, Zenon DEF ToggleKeptAbove, Run
<1>5. CASE AppSwitcherActivate(w)
  <2> DEFINE restored == ForceShow(Unminimize(desk, w), w)
             shown == IF w \in desk.minimized THEN restored ELSE desk
  <2>1. desk' = FocusToplevel(shown, w)
    BY <1>5 DEF AppSwitcherActivate, Run
  <2>2. Good(restored, 0)
    BY UnminimizeGood, ForceShowGood, Zenon
  <2> HIDE DEF restored
  <2>3. Good(shown, 0)
    BY <2>2
  <2> HIDE DEF shown
  <2> QED
    BY <2>1, <2>3, FocusToplevelGood
<1>6. CASE CloseMultitaskingOnWindow(w)
  <2> DEFINE closed == SetSourcesHidden(desk, "multitasking", FALSE)
             switched == SwitchWorkspace(closed, desk.workspace[w])
             restored == ForceShow(Unminimize(switched, w), w)
             shown == IF w \in switched.minimized THEN restored ELSE switched
  <2>1. desk' = FocusToplevel(shown, w)
    BY <1>6 DEF CloseMultitaskingOnWindow, Run
  <2>2. Good(closed, 0)
    BY SetSourcesHiddenGood, Zenon DEF Overviews
  <2> HIDE DEF closed
  <2>3. Good(switched, 0)
    BY <2>2, SwitchWorkspaceGood
  <2> HIDE DEF switched
  <2>4. Good(restored, 0)
    BY <2>3, UnminimizeGood, ForceShowGood, Zenon
  <2> HIDE DEF restored
  <2>5. Good(shown, 0)
    BY <2>3, <2>4
  <2> HIDE DEF shown
  <2> QED
    BY <2>1, <2>5, FocusToplevelGood
<1>7. CASE PickPreview(w)
  <2> DEFINE restored == Unminimize(desk, w)
             switched == SwitchWorkspace(restored, desk.workspace[w])
  <2>1. desk' = FocusToplevel(switched, w)
    BY <1>7 DEF PickPreview, Run
  <2>2. Good(restored, 0)
    BY UnminimizeGood
  <2> HIDE DEF restored
  <2>3. Good(switched, 0)
    BY <2>2, SwitchWorkspaceGood
  <2> HIDE DEF switched
  <2> QED
    BY <2>1, <2>3, FocusToplevelGood
<1> QED
  BY <1>1, <1>2, <1>3, <1>4, <1>5, <1>6, <1>7

\* Every event of a window leads to a good desk.
LEMMA WindowNextGood ==
  ASSUME Good(desk, 0), NEW w \in Windows, WindowNext(w)
  PROVE  Good(desk', 0)
<1>1. 0 \in Workspaces /\ TRUE \in BOOLEAN
  BY ConstantsAssumption DEF Workspaces
<1>2. CASE \/ OnNewToplevel(w) \/ InitialCommit(w) \/ XdgUnmap(w) \/ XUnmap(w)
           \/ XDissociate(w) \/ Destroy(w)
  BY <1>1, <1>2, LifeGood, Zenon
<1>3. CASE \/ Activate(w) \/ MinimizeWindow(w) \/ RequestUnminimize(w)
           \/ XRequestUnminimize(w) \/ ToggleMaximized(w)
  BY <1>1, <1>3, RequestsGood, Zenon
<1>4. CASE \/ ToggleAllWorkspaces(w) \/ ToggleKeptAbove(w) \/ AppSwitcherActivate(w)
           \/ CloseMultitaskingOnWindow(w) \/ PickPreview(w)
  BY <1>1, <1>4, PlacementGood
<1>5. ASSUME NEW b \in BOOLEAN,
             \/ XdgMap(w, b) \/ XMap(w, b) \/ \E mapped \in BOOLEAN : XAssociate(w, mapped, b)
             \/ OnRequestMaximize(w, b) \/ RequestMaximize(w, b) \/ Tile(w, b)
             \/ BeginInteractive(w, b) \/ SetSsdEnabled(w, b)
      PROVE  Good(desk', 0)
  <2>1. CASE XdgMap(w, b) \/ XMap(w, b)
    BY <1>1, <2>1, LifeGood
  <2>2. ASSUME NEW c \in BOOLEAN, XAssociate(w, c, b) PROVE Good(desk', 0)
    BY <2>2, LifeGood
  <2>3. CASE \/ OnRequestMaximize(w, b) \/ RequestMaximize(w, b) \/ Tile(w, b)
             \/ BeginInteractive(w, b) \/ SetSsdEnabled(w, b)
    BY <2>3, RequestsGood
  <2> QED
    BY <1>5, <2>1, <2>2, <2>3
<1>6. ASSUME NEW n \in Workspaces, MoveWindow(w, n) \/ SendToWorkspace(w, n)
      PROVE  Good(desk', 0)
  BY <1>6, PlacementGood
<1> QED
  BY <1>2, <1>3, <1>4, <1>5, <1>6 DEF WindowNext

\* So does every event of the workspaces.
LEMMA WorkspaceNextGood ==
  ASSUME Good(desk, 0), NEW n \in Workspaces, WorkspaceNext(n)
  PROVE  Good(desk', 0)
<1>1. CASE SwitchTo(n)
  BY <1>1, SwitchWorkspaceGood DEF SwitchTo, Run
<1>2. CASE Remove(n)
  BY <1>2, RemoveWorkspaceGood DEF Remove, Run
<1>3. CASE CloseMultitaskingOnWorkspace(n)
  <2>1. desk' = SwitchWorkspace(SetSourcesHidden(desk, "multitasking", FALSE), n)
    BY <1>3 DEF CloseMultitaskingOnWorkspace, Run
  <2>2. Good(SetSourcesHidden(desk, "multitasking", FALSE), 0)
    BY SetSourcesHiddenGood, Zenon DEF Overviews
  <2> QED
    BY <2>1, <2>2, SwitchWorkspaceGood, Zenon
<1>4. ASSUME NEW to \in Workspaces, Reorder(n, to) PROVE Good(desk', 0)
  BY <1>4, ReorderWorkspaceGood DEF Reorder, Run
<1> QED
  BY <1>1, <1>2, <1>3, <1>4 DEF WorkspaceNext

\* So does every event of a layer surface.
LEMMA LayerNextGood ==
  ASSUME Good(desk, 0), NEW l \in Layers, LayerNext(l)
  PROVE  Good(desk', 0)
<1>1. CASE LayerMap(l)
  <2> DEFINE st == [desk EXCEPT !.layer_mapped = @ \cup {l}]
  <2>1. desk' \in {st, FocusLayerSurface(st, l)}
    BY <1>1 DEF LayerMap, Run
  <2>2. Good(st, 0)
    BY SMTT(30) DEF Good, DeskType, LockSafe, Nested, XwmSafe
  <2> HIDE DEF st
  <2> QED
    BY <2>1, <2>2, FocusLayerSurfaceGood
<1>2. CASE LayerUnmap(l)
  <2> DEFINE st == [desk EXCEPT !.layer_mapped = @ \ {l}]
  <2>1. desk' \in {st, FocusNextToplevel(st, 0)}
    BY <1>2 DEF LayerUnmap, Run
  <2>2. Good(st, 0)
    BY SMTT(30) DEF Good, DeskType, LockSafe, Nested, XwmSafe
  <2> HIDE DEF st
  <2> QED
    BY <2>1, <2>2, FocusNextToplevelGood
<1>3. CASE LayerClick(l)
  BY <1>3, FocusLayerSurfaceGood DEF LayerClick, Run
<1>4. ASSUME NEW i \in Interactivity, LayerCommit(l, i) PROVE Good(desk', 0)
  <2> DEFINE k == [desk.keyboard_interactive EXCEPT ![l] = i]
             st == [desk EXCEPT !.keyboard_interactive = k]
  <2>1. desk' \in {st, FocusLayerSurface(st, l)}
    BY <1>4 DEF LayerCommit, Run
  <2>2. k \in [Layers -> Interactivity]
    BY DEF Good, DeskType
  <2> HIDE DEF k
  <2>3. Good(st, 0)
    BY <2>2, SMTT(30) DEF Good, DeskType, LockSafe, Nested, XwmSafe
  <2> HIDE DEF st
  <2> QED
    BY <2>1, <2>3, FocusLayerSurfaceGood
<1> QED
  BY <1>1, <1>2, <1>3, <1>4 DEF LayerNext

\* The session lock.
LEMMA SessionLockGood ==
  ASSUME Good(desk, 0),
         \/ BeginSessionLock \/ BeginSessionLockFails
         \/ FocusSessionLockSurface \/ UnlockSession \/ LockerGone
  PROVE  Good(desk', 0)
<1>1. NoSurface \in Surfaces /\ NoSurface.role = "none"
      /\ LockSurface \in Surfaces /\ LockSurface.role = "lock"
  BY SurfacesContain DEF NoSurface, LockSurface
<1>2. CASE BeginSessionLock
  <2> DEFINE st == [desk EXCEPT !.session_locked = TRUE, !.session_lock = TRUE,
                                !.keyboard_grab = FALSE]
             r == ClearFocus(st)
  <2>1. desk' = r
    BY <1>2 DEF BeginSessionLock, Run
  <2>2. r \in DeskType
    BY <1>1, ZenonT(60) DEF Good, DeskType, ClearFocus
  <2>3. LockSafe(r) /\ Nested(r)
    BY <1>1 DEF Good, DeskType, ClearFocus, LockSafe, Nested
  <2>4. XwmSafe(r, 0)
    BY DEF Good, DeskType, ClearFocus, XwmSafe
  <2> QED
    BY <2>1, <2>2, <2>3, <2>4 DEF Good
<1>3. CASE FocusSessionLockSurface
  <2>1. desk' = NotifyEnter(desk, LockSurface)
    BY <1>3 DEF FocusSessionLockSurface, Run
  <2> QED
    BY <1>1, <2>1, NotifyEnterGood
<1>4. CASE UnlockSession
  <2> DEFINE st == [desk EXCEPT !.session_locked = FALSE, !.session_lock = FALSE]
  <2>1. desk' = FocusNextToplevel(st, 0)
    BY <1>4 DEF UnlockSession, Run
  <2>2. Good(st, 0)
    BY ZenonT(60) DEF Good, DeskType, LockSafe, Nested, XwmSafe
  <2> HIDE DEF st
  <2> QED
    BY <2>1, <2>2, FocusNextToplevelGood
<1>5. CASE LockerGone
  <2> DEFINE st == [desk EXCEPT !.session_locked = TRUE, !.session_lock = FALSE]
             r == ClearFocus(st)
  <2>1. desk' = r
    BY <1>5 DEF LockerGone, Run
  <2>2. r \in DeskType
    BY <1>1, ZenonT(60) DEF Good, DeskType, ClearFocus
  <2>3. LockSafe(r) /\ Nested(r)
    BY <1>1 DEF Good, DeskType, ClearFocus, LockSafe, Nested
  <2>4. XwmSafe(r, 0)
    BY DEF Good, DeskType, ClearFocus, XwmSafe
  <2> QED
    BY <2>1, <2>2, <2>3, <2>4 DEF Good
<1>6. CASE BeginSessionLockFails
  <2> DEFINE st == [desk EXCEPT !.keyboard_grab = FALSE]
             cleared == ClearFocus(st)
  <2>1. desk' = FocusNextToplevel(cleared, 0)
    BY <1>6 DEF BeginSessionLockFails, Run
  <2>2. Good(st, 0)
    BY ZenonT(60) DEF Good, DeskType, LockSafe, Nested, XwmSafe
  <2> HIDE DEF st
  <2>3. Good(cleared, 0)
    BY <2>2, ClearFocusGood
  <2> HIDE DEF cleared
  <2> QED
    BY <2>1, <2>3, FocusNextToplevelGood
<1> QED
  BY <1>2, <1>3, <1>4, <1>5, <1>6

\* Keyboards and the popup and drag grabs.
LEMMA SeatGood ==
  ASSUME Good(desk, 0), NEW active \in BOOLEAN,
         AddKeyboard \/ KeyEvent \/ RemoveKeyboard(active) \/ BeginGrab \/ EndGrab
  PROVE  Good(desk', 0)
<1>1. CASE AddKeyboard
  <2> DEFINE k == desk.keyboards + 1
             st == [desk EXCEPT !.keyboards = k, !.seat_keyboard = TRUE]
  <2>1. /\ desk' \in {NotifyEnter(st, desk.focused_surface), FocusNextToplevel(st, 0)}
        /\ k \in 0 .. MaxKeyboards
    BY <1>1, ConstantsAssumption DEF AddKeyboard, Run, Good, DeskType
  <2> HIDE DEF k
  <2>2. Good(st, 0)
    BY <2>1, ZenonT(60) DEF Good, DeskType, LockSafe, Nested, XwmSafe
  <2>3. /\ desk.focused_surface \in Surfaces
        /\ st.session_locked => desk.focused_surface.role \in {"none", "lock"}
    BY DEF Good, DeskType, LockSafe
  <2> HIDE DEF st
  <2>4. Good(NotifyEnter(st, desk.focused_surface), 0)
    BY <2>2, <2>3, NotifyEnterGood
  <2>5. Good(FocusNextToplevel(st, 0), 0)
    BY <2>2, FocusNextToplevelGood
  <2> QED
    BY <2>1, <2>4, <2>5
<1>2. CASE KeyEvent
  BY <1>2, ZenonT(60) DEF KeyEvent, Run, Good, DeskType, LockSafe, Nested, XwmSafe
<1>3. CASE RemoveKeyboard(active)
  <2> DEFINE k == desk.keyboards - 1
             s == desk.seat_keyboard /\ ~active
  <2>1. /\ desk' = [desk EXCEPT !.keyboards = k, !.seat_keyboard = s]
        /\ k \in 0 .. MaxKeyboards /\ s \in BOOLEAN
    BY <1>3, ConstantsAssumption DEF RemoveKeyboard, Run, Good, DeskType
  <2> HIDE DEF k, s
  <2> QED
    BY <2>1, ZenonT(60) DEF Good, DeskType, LockSafe, Nested, XwmSafe
<1>4. CASE BeginGrab
  BY <1>4, ZenonT(60) DEF BeginGrab, Run, Good, DeskType, LockSafe, Nested, XwmSafe
<1>5. CASE EndGrab
  BY <1>5, ZenonT(60) DEF EndGrab, Run, Good, DeskType, LockSafe, Nested, XwmSafe
<1> QED
  BY <1>1, <1>2, <1>3, <1>4, <1>5

\* So does every event of the session and the seat.
LEMMA SessionNextGood ==
  ASSUME Good(desk, 0), SessionNext
  PROVE  Good(desk', 0)
<1>1. CASE SurfaceDestroyed
  BY <1>1, ClearFocusGood DEF SurfaceDestroyed, Run
<1>2. CASE AnimationEnd
  BY <1>2, CancelAnimationGood DEF AnimationEnd, Run
<1>3. CASE Add
  BY <1>3, AddWorkspaceGood DEF Add, Run
<1>4. CASE OpenMultitasking
  BY <1>4, SetSourcesHiddenGood, Zenon DEF OpenMultitasking, Run, Overviews
<1>5. CASE CloseMultitasking
  BY <1>5, SetSourcesHiddenGood, Zenon DEF CloseMultitasking, Run, Overviews
<1>6. CASE OpenPreviews
  BY <1>6, SetSourcesHiddenGood, Zenon DEF OpenPreviews, Run, Overviews
<1>7. CASE ClosePreviews
  BY <1>7, SetSourcesHiddenGood, Zenon DEF ClosePreviews, Run, Overviews
<1>8. CASE \/ BeginSessionLock \/ BeginSessionLockFails
           \/ FocusSessionLockSurface \/ UnlockSession \/ LockerGone
  BY <1>8, SessionLockGood
<1>9. CASE AddKeyboard \/ KeyEvent \/ BeginGrab \/ EndGrab
  <2>1. TRUE \in BOOLEAN
    OBVIOUS
  <2> QED
    BY <1>9, <2>1, SeatGood, Zenon
<1>10. ASSUME NEW active \in BOOLEAN, RemoveKeyboard(active) PROVE Good(desk', 0)
  BY <1>10, SeatGood
<1> QED
  BY <1>1, <1>2, <1>3, <1>4, <1>5, <1>6, <1>7, <1>8, <1>9, <1>10 DEF SessionNext

(***************************************************************************)
(* The invariant.                                                          *)
(***************************************************************************)

\* The compositor starts with an empty desk.
LEMMA InitGood == Init => Good(desk, 0)
<1> SUFFICES ASSUME Init PROVE Good(desk, 0)
  OBVIOUS
<1>1. desk.focused_surface \in Surfaces
  BY SurfacesContain DEF Init
<1>2. /\ InitialWorkspaces \in 1 .. MaximumWorkspaceCount /\ 0 \in Workspaces
      /\ 1 \in 0 .. MaxKeyboards /\ 0 \in 0 .. NumWindows
  BY ConstantsAssumption DEF Workspaces
<1>3. desk \in DeskType
  BY <1>1, <1>2, Zenon DEF Init, DeskType, Interactivity, Titlebars
<1>4. LockSafe(desk) /\ Nested(desk) /\ XwmSafe(desk, 0)
  BY Zenon DEF Init, LockSafe, Nested, XwmSafe
<1> QED
  BY <1>3, <1>4 DEF Good

\* Every event leads from a good desk to a good desk.
LEMMA NextGood == DeskGood /\ [Next]_desk => DeskGood'
<1> SUFFICES ASSUME Good(desk, 0), [Next]_desk PROVE Good(desk', 0)
  BY DEF DeskGood
<1>1. CASE UNCHANGED desk
  BY <1>1
<1>2. CASE Next
  BY <1>2, WindowNextGood, WorkspaceNextGood, LayerNextGood, SessionNextGood DEF Next
<1> QED
  BY <1>1, <1>2

\* The inductive invariant holds.
THEOREM DeskIsGood == Spec => []DeskGood
<1>1. Init => DeskGood
  BY InitGood DEF DeskGood
<1> QED
  BY <1>1, NextGood, PTL DEF Spec

\* TypeOK for every instance.
THEOREM TypeCorrect == Spec => []TypeOK
<1>1. DeskGood => TypeOK
  BY DEF DeskGood, Good, TypeOK
<1> QED
  BY <1>1, DeskIsGood, PTL

\* While the session is locked no window and no shell layer has the keyboard
\* (BeginSessionLock, FinishSessionLock and the guards of the focus methods),
\* for any number of windows, layers, keyboards and workspaces.
THEOREM LockedKeyboard == Spec => []NoDesktopFocusWhileLocked
<1>1. DeskGood => NoDesktopFocusWhileLocked
  BY DEF DeskGood, Good, LockSafe, NoDesktopFocusWhileLocked
<1> QED
  BY <1>1, DeskIsGood, PTL

\* XWaylandManager::focused always names an associated, mapped, managed window
\* that is not minimized.
THEOREM XwmFocus == Spec => []XwmFocusIsUsable
<1>1. DeskGood => XwmFocusIsUsable
  BY DEF DeskGood, Good, XwmSafe, XwmFocusIsUsable
<1> QED
  BY <1>1, DeskIsGood, PTL
=============================================================================
