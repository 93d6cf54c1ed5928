------------------------------- MODULE Desktop -------------------------------
(***************************************************************************)
(* The window-management core of the compositor: which windows exist, are  *)
(* mapped, minimized, on which workspace and shown in the scene, and which *)
(* surface holds the keyboard.  Models CompositorPrivate                   *)
(* (core/compositor_private), LayerSurface (protocol/layer_shell), the     *)
(* session lock of ProtocolManager, XSurface and XWaylandManager.          *)
(*                                                                         *)
(* The compositor is one event loop: every handler runs to completion, and *)
(* handlers call one another.  The state is therefore one record, desk,    *)
(* each method an operator from a state to the state it leaves, and each   *)
(* action one handler applied to desk.  What interleaves is the order in   *)
(* which clients, devices, timers and shells make handlers run.            *)
(***************************************************************************)
EXTENDS Integers

CONSTANTS
  NumWindows,            \* toplevels, numbered in the order of toplevels_
  NumLayers,             \* layer surfaces, numbered in the order of layer_surfaces_
  XWindows,              \* the toplevels that are XSurface; the others are xdg
  Unmanaged,             \* override-redirect X windows: CanManage() is false
  Unfocusable,           \* unmanaged windows whose WantsFocus() is false
  Transients,            \* windows with a parent: they cannot be maximized
  InitialWorkspaces,     \* workspace_count_ at startup
  MaximumWorkspaceCount, \* kMaximumWorkspaceCount
  MaxKeyboards,          \* bound on the keyboards plugged in at a time
  Operations             \* the handlers this instance lets run

Windows == 1 .. NumWindows
Layers == 1 .. NumLayers
Xdg == Windows \ XWindows
Workspaces == 0 .. MaximumWorkspaceCount - 1

ASSUME ConstantsAssumption ==
  /\ NumWindows \in Nat \ {0}
  /\ NumLayers \in Nat
  /\ XWindows \subseteq Windows
  /\ Unmanaged \subseteq XWindows
  /\ Unfocusable \subseteq Unmanaged
  /\ Transients \subseteq Windows
  /\ MaximumWorkspaceCount \in Nat \ {0}
  /\ InitialWorkspaces \in 1 .. MaximumWorkspaceCount
  /\ MaxKeyboards \in Nat \ {0}

VARIABLE desk

(***************************************************************************)
(* A surface the seat's keyboard focus may name: a toplevel's, a layer's,  *)
(* a session-lock surface, or none.                                        *)
(***************************************************************************)
NoSurface == [role |-> "none", id |-> 0]
LockSurface == [role |-> "lock", id |-> 0]
ToplevelSurface(w) == [role |-> "toplevel", id |-> w]
LayerSurface(l) == [role |-> "layer", id |-> l]

Surfaces == {NoSurface, LockSurface}
              \cup {ToplevelSurface(w) : w \in Windows}
              \cup {LayerSurface(l) : l \in Layers}

Interactivity == {"none", "on_demand", "exclusive"}
Overviews == {"multitasking", "previews"}

\* A titlebar is drawn inactive until it is told otherwise: a new one has not
\* been told anything yet.
Titlebars == {"none", "new", "inactive", "active"}

DeskType ==
  [created : 0 .. NumWindows,             \* the toplevels created so far are 1 .. created
   alive : SUBSET Windows,                \* IsAlive(): the protocol handle exists
   scene_tree : SUBSET Windows,           \* the window has a scene node
   initialized : SUBSET Windows,          \* xdg_surface.initialized
   mapped : SUBSET Windows,
   minimized : SUBSET Windows,
   maximized : SUBSET Windows,
   tiled : SUBSET Windows,
   all_workspaces : SUBSET Windows,
   kept_above : SUBSET Windows,
   workspace : [Windows -> Workspaces],
   enabled : SUBSET Windows,              \* the scene node is shown
   forced : SUBSET Windows,               \* history: shown while it was not visible
   above : SUBSET (Windows \X Windows),   \* stacking of the scene nodes
   animated : 0 .. NumWindows,            \* source_ of the tile animation, 0 for none
   current_workspace : Workspaces,
   workspace_count : 1 .. MaximumWorkspaceCount,
   sources_hidden : SUBSET Overviews,
   layer_mapped : SUBSET Layers,
   keyboard_interactive : [Layers -> Interactivity],
   keyboards : 0 .. MaxKeyboards,
   seat_keyboard : BOOLEAN,               \* wlr_seat_get_keyboard() is not null
   keyboard_grab : BOOLEAN,               \* a popup or drag grab is on the keyboard
   focused_surface : Surfaces,
   activated : SUBSET Windows,            \* xdg toplevels told they are activated
   ssd : [Windows -> Titlebars],          \* server-side titlebars
   xwm_focused : 0 .. NumWindows,         \* XWaylandManager::focused, 0 for none
   session_locked : BOOLEAN,
   session_lock : BOOLEAN]                \* a lock client is connected

(***************************************************************************)
(* What the window's kind lets it do.                                      *)
(***************************************************************************)
WantsFocus(w) == w \notin Unfocusable
CanManage(w) == w \notin Unmanaged
CanMaximize(w) == CanManage(w) /\ w \notin Transients
CanMinimize(w) == w \in XWindows => CanManage(w) /\ w \notin Transients

OnCurrentWorkspace(st, w) ==
  w \in st.all_workspaces \/ st.workspace[w] = st.current_workspace

IsToplevelVisible(st, w) ==
  /\ w \in st.mapped
  /\ w \notin st.minimized
  /\ OnCurrentWorkspace(st, w)
  /\ st.sources_hidden = {}

SetEnabled(st, w, shown) ==
  [st EXCEPT !.enabled = IF shown THEN @ \cup {w} ELSE @ \ {w}, !.forced = @ \ {w}]

\* The node is shown without asking whether the window is visible.
ForceShow(st, w) ==
  [SetEnabled(st, w, TRUE) EXCEPT
     !.forced = IF IsToplevelVisible(st, w) THEN @ ELSE @ \cup {w}]

\* The loop that recomputes every node: only windows with a scene node have one.
RefreshScene(st) ==
  [st EXCEPT !.enabled = {w \in st.scene_tree : IsToplevelVisible(st, w)}, !.forced = {}]

(***************************************************************************)
(* Scene stacking: <<u, v>> \in above when u's node is drawn over v's.     *)
(***************************************************************************)
RaiseToTop(st, w) ==
  [st EXCEPT !.above = {p \in @ : p[1] # w /\ p[2] # w}
                         \cup {<<w, v>> : v \in st.scene_tree \ {w}}]

LeaveStack(st, w) ==
  [st EXCEPT !.above = {p \in @ : p[1] # w /\ p[2] # w}]

\* Raising the windows of K one after the other, in toplevels_ order.
RaiseInOrder(st, K) ==
  [st EXCEPT !.above = {p \in @ : p[1] \notin K /\ p[2] \notin K}
                         \cup {p \in K \X st.scene_tree : p[2] \in K => p[1] > p[2]}]

(***************************************************************************)
(* Keyboard focus.                                                         *)
(***************************************************************************)
Newest(S) == CHOOSE x \in S : \A y \in S : y <= x

\* wlr_seat_keyboard_notify_enter: only with a keyboard on the seat, and a
\* popup or drag grab swallows it.
NotifyEnter(st, surface) ==
  IF st.seat_keyboard /\ ~st.keyboard_grab
  THEN [st EXCEPT !.focused_surface = surface]
  ELSE st

ClearFocus(st) == [st EXCEPT !.focused_surface = NoSurface]

\* Mutant: the X focus is not taken away.
Faulty_ParkXWaylandFocus(st) == st

ParkXWaylandFocus(st) == [st EXCEPT !.xwm_focused = 0]

\* XWaylandManager::Activate and Deactivate for an X window, the activated
\* state of the next configure for an xdg one.
SetActivated(st, w, activated) ==
  IF w \in XWindows
  THEN IF activated
       THEN IF CanManage(w) THEN [st EXCEPT !.xwm_focused = w] ELSE st
       ELSE IF st.xwm_focused = w THEN ParkXWaylandFocus(st) ELSE st
  ELSE [st EXCEPT !.activated = IF activated THEN @ \cup {w} ELSE @ \ {w}]

FocusedToplevels(st) == {w \in Windows : st.focused_surface = ToplevelSurface(w)}

DeactivatePrevious(st) ==
  [st EXCEPT !.activated = @ \ (FocusedToplevels(st) \cap st.initialized)]

ExclusiveLayers(st) ==
  {l \in st.layer_mapped : st.keyboard_interactive[l] = "exclusive"}

\* Every titlebar is told whether its window is one of actives.
SetSsdActive(st, actives) ==
  [st EXCEPT !.ssd = [w \in Windows |-> IF @[w] = "none" THEN "none"
                                        ELSE IF w \in actives THEN "active" ELSE "inactive"]]

FocusLayerSurface(st, l) ==
  IF \/ st.session_locked
     \/ l \notin st.layer_mapped
     \/ st.keyboard_interactive[l] = "none"
  THEN st
  ELSE LET inactive == SetSsdActive(st, {})
       IN IF st.focused_surface = LayerSurface(l) THEN inactive
          ELSE NotifyEnter(ParkXWaylandFocus(DeactivatePrevious(inactive)),
                           LayerSurface(l))

CanTakeFocus(st, w) ==
  /\ ~st.session_locked
  /\ w \in st.mapped \cap st.alive
  /\ WantsFocus(w)
  /\ OnCurrentWorkspace(st, w)
  /\ w \notin st.minimized

Restack(st, w) ==
  LET kept == {c \in st.kept_above \cap st.scene_tree :
                 c # w /\ IsToplevelVisible(st, c)}
      raised == RaiseInOrder(RaiseToTop(st, w), kept)
  IN IF w \in st.kept_above THEN RaiseToTop(raised, w) ELSE raised

FocusToplevel(st, w) ==
  IF ~CanTakeFocus(st, w) THEN st
  ELSE IF ExclusiveLayers(st) # {}
  THEN FocusLayerSurface(st, Newest(ExclusiveLayers(st)))
  ELSE LET marked == SetSsdActive(st, {w})
           left == DeactivatePrevious(marked)
           parked == IF w \in XWindows THEN left ELSE ParkXWaylandFocus(left)
       IN IF st.focused_surface = ToplevelSurface(w) THEN marked
          ELSE NotifyEnter(SetActivated(Restack(parked, w), w, TRUE), ToplevelSurface(w))

\* Mutant: a minimized window is picked, and then refused by FocusToplevel.
Faulty_Candidates(st, excluding) ==
  {c \in (st.mapped \cap st.alive) \ {excluding} : OnCurrentWorkspace(st, c)}

\* The windows FocusNextToplevel may hand the keyboard to.
Candidates(st, excluding) ==
  {c \in (st.mapped \cap st.alive) \ (st.minimized \cup {excluding}) :
     OnCurrentWorkspace(st, c)}

\* excluding is 0 for nullptr.
FocusNextToplevel(st, excluding) ==
  IF st.session_locked THEN st
  ELSE IF ExclusiveLayers(st) # {}
  THEN FocusLayerSurface(st, Newest(ExclusiveLayers(st)))
  ELSE IF Candidates(st, excluding) # {}
  THEN FocusToplevel(st, Newest(Candidates(st, excluding)))
  ELSE ClearFocus(ParkXWaylandFocus(st))

(***************************************************************************)
(* Minimizing, maximizing and tiling.                                      *)
(***************************************************************************)
\* TileAnimation::Complete(true).
CancelAnimation(st) ==
  IF st.animated = 0 THEN st
  ELSE [ForceShow(st, st.animated) EXCEPT !.animated = 0]

\* TileAnimation::SourceUnavailable.
SourceUnavailable(st, w) ==
  [st EXCEPT !.animated = IF @ = w THEN 0 ELSE @]

\* Mutant: the tile animation goes on.
Faulty_Minimize(st, w) ==
  IF ~CanMinimize(w) \/ w \notin st.mapped \ st.minimized THEN st
  ELSE LET hidden == SetEnabled([st EXCEPT !.minimized = @ \cup {w}], w, FALSE)
           moved == IF hidden.focused_surface = ToplevelSurface(w)
                    THEN FocusNextToplevel(hidden, w) ELSE hidden
       IN IF w \in XWindows THEN SetActivated(moved, w, FALSE) ELSE moved

Minimize(st, w) ==
  IF ~CanMinimize(w) \/ w \notin st.mapped \ st.minimized THEN st
  ELSE LET hidden == SetEnabled([CancelAnimation(st) EXCEPT !.minimized = @ \cup {w}],
                                w, FALSE)
           moved == IF hidden.focused_surface = ToplevelSurface(w)
                    THEN FocusNextToplevel(hidden, w) ELSE hidden
       IN IF w \in XWindows THEN SetActivated(moved, w, FALSE) ELSE moved

Unminimize(st, w) == [st EXCEPT !.minimized = @ \ {w}]

SetMaximized(st, w, maximized) ==
  IF w \notin st.alive \cap st.scene_tree THEN st
  ELSE LET still == CancelAnimation(st)
       IN IF maximized = (w \in st.maximized)
          THEN [still EXCEPT !.tiled = IF maximized THEN @ ELSE @ \ {w}]
          ELSE LET changed == [still EXCEPT
                                 !.maximized = IF maximized THEN @ \cup {w} ELSE @ \ {w},
                                 !.tiled = @ \ {w}]
               IN IF maximized /\ w \in st.minimized
                  THEN ForceShow(Unminimize(changed, w), w)
                  ELSE changed

\* animate: TileAnimation::Start found a buffer to animate.
TileToplevel(st, w, animate) ==
  IF w \notin st.mapped \cap st.alive \/ ~CanManage(w) THEN st
  ELSE LET still == CancelAnimation(st)
           started == IF animate
                      THEN [SetEnabled(still, w, FALSE) EXCEPT !.animated = w]
                      ELSE still
           placed == [started EXCEPT !.maximized = @ \ {w}, !.tiled = @ \cup {w}]
       IN FocusToplevel(IF w \in st.minimized
                        THEN ForceShow(Unminimize(placed, w), w) ELSE placed,
                        w)

(***************************************************************************)
(* Workspaces.                                                             *)
(***************************************************************************)
SwitchWorkspace(st, n) ==
  IF n \notin 0 .. st.workspace_count - 1 \/ n = st.current_workspace \/ st.session_locked
  THEN st
  ELSE LET shown == RefreshScene([st EXCEPT !.current_workspace = n])
           dimmed == [shown EXCEPT !.ssd =
                        [w \in Windows |-> IF @[w] = "none" \/ OnCurrentWorkspace(shown, w)
                                           THEN @[w] ELSE "inactive"]]
           gone == {w \in FocusedToplevels(st) \cap st.scene_tree :
                      ~OnCurrentWorkspace(shown, w)}
           cleared == IF gone = {} THEN dimmed
                      ELSE ClearFocus(SetActivated(dimmed, CHOOSE w \in gone : TRUE, FALSE))
       IN FocusNextToplevel(cleared, 0)

MoveToplevelToWorkspace(st, w, n) ==
  IF n \notin 0 .. st.workspace_count - 1 \/ st.workspace[w] = n THEN st
  ELSE LET moved == [st EXCEPT !.workspace[w] = n]
           shown == SetEnabled(moved, w, IsToplevelVisible(moved, w))
       IN IF st.focused_surface = ToplevelSurface(w) /\ n # st.current_workspace
          THEN FocusNextToplevel(SetActivated(shown, w, FALSE), w)
          ELSE shown

AddWorkspace(st) ==
  [st EXCEPT !.workspace_count = IF @ >= MaximumWorkspaceCount THEN @ ELSE @ + 1]

\* Where a workspace index goes when workspace n is removed and last is the
\* highest index left.
AfterRemoval(i, n, last) ==
  IF i = n THEN IF n < last THEN n ELSE last
  ELSE IF i > n THEN i - 1 ELSE i

\* Mutant: the view stays at its index while the workspaces move under it.
Faulty_RemoveWorkspace(st, n) ==
  IF st.workspace_count <= 1 \/ n \notin 0 .. st.workspace_count - 1 THEN st
  ELSE LET last == st.workspace_count - 2
       IN RefreshScene(
            [st EXCEPT
               !.workspace_count = @ - 1,
               !.workspace = [w \in Windows |->
                                IF w <= st.created THEN AfterRemoval(@[w], n, last)
                                ELSE @[w]],
               !.current_workspace = IF @ > last THEN last ELSE @])

RemoveWorkspace(st, n) ==
  IF st.workspace_count <= 1 \/ n \notin 0 .. st.workspace_count - 1 THEN st
  ELSE LET last == st.workspace_count - 2
       IN RefreshScene(
            [st EXCEPT
               !.workspace_count = @ - 1,
               !.workspace = [w \in Windows |->
                                IF w <= st.created THEN AfterRemoval(@[w], n, last)
                                ELSE @[w]],
               !.current_workspace = AfterRemoval(@, n, last)])

Remap(i, from, to) ==
  IF i = from THEN to
  ELSE IF from < to /\ from < i /\ i <= to THEN i - 1
  ELSE IF to < from /\ to <= i /\ i < from THEN i + 1
  ELSE i

ReorderWorkspace(st, from, to) ==
  IF {from, to} \subseteq 0 .. st.workspace_count - 1 /\ from # to
  THEN [st EXCEPT !.workspace = [w \in Windows |->
                                   IF w <= st.created THEN Remap(@[w], from, to)
                                   ELSE @[w]],
                  !.current_workspace = Remap(@, from, to)]
  ELSE st

SetKeptAbove(st, w, kept) ==
  IF kept = (w \in st.kept_above) THEN st
  ELSE IF ~kept THEN [st EXCEPT !.kept_above = @ \ {w}]
  ELSE LET raised == [st EXCEPT !.kept_above = @ \cup {w}]
       IN IF w \in st.scene_tree THEN RaiseToTop(raised, w) ELSE raised

\* Mutant: the scene node is not updated.
Faulty_SetAllWorkspaces(st, w, all) ==
  IF all THEN [st EXCEPT !.all_workspaces = @ \cup {w}]
  ELSE [st EXCEPT !.all_workspaces = @ \ {w}, !.workspace[w] = st.current_workspace]

SetAllWorkspaces(st, w, all) ==
  IF all = (w \in st.all_workspaces) THEN st
  ELSE LET changed == IF all
                      THEN [st EXCEPT !.all_workspaces = @ \cup {w}]
                      ELSE [st EXCEPT !.all_workspaces = @ \ {w},
                                      !.workspace[w] = st.current_workspace]
       IN IF w \in st.scene_tree
          THEN SetEnabled(changed, w, IsToplevelVisible(changed, w)) ELSE changed

SetSourcesHidden(st, overview, hidden) ==
  RefreshScene([st EXCEPT !.sources_hidden =
                  IF hidden THEN @ \cup {overview} ELSE @ \ {overview}])

(***************************************************************************)
(* Life of a toplevel.                                                     *)
(***************************************************************************)
\* requested: the client asked for the maximized state before mapping.
OnMap(st, w, requested) ==
  LET mapped == [st EXCEPT !.mapped = @ \cup {w}]
      shown == SetEnabled(mapped, w, IsToplevelVisible(mapped, w))
      sized == IF requested /\ CanManage(w) THEN SetMaximized(shown, w, TRUE) ELSE shown
  IN IF WantsFocus(w) THEN FocusToplevel(sized, w) ELSE sized

\* Mutant: an X window is unmapped with the X focus on it.
Faulty_OnUnmap(st, w) ==
  LET unmapped == [SourceUnavailable(st, w) EXCEPT !.mapped = @ \ {w}]
  IN IF st.focused_surface = ToplevelSurface(w)
     THEN FocusNextToplevel(unmapped, w) ELSE unmapped

OnUnmap(st, w) ==
  LET parked == IF w \in XWindows THEN SetActivated(st, w, FALSE) ELSE st
      unmapped == [SourceUnavailable(parked, w) EXCEPT !.mapped = @ \ {w}]
  IN IF st.focused_surface = ToplevelSurface(w)
     THEN FocusNextToplevel(unmapped, w) ELSE unmapped

\* XSurface::Dissociate: the wl_surface and its scene node go.
Dissociate(st, w) ==
  LET unmapped == IF w \in st.mapped THEN OnUnmap(st, w) ELSE st
  IN [SetEnabled(LeaveStack(unmapped, w), w, FALSE) EXCEPT !.scene_tree = @ \ {w}]

\* The window is not alive any more; its node and its decoration go with it.
EraseToplevel(st, w) ==
  [SetEnabled(st, w, FALSE) EXCEPT
     !.alive = @ \ {w}, !.scene_tree = @ \ {w},
     !.initialized = @ \ {w}, !.activated = @ \ {w}, !.ssd[w] = "none"]

\* wlroots unmaps a mapped xdg toplevel before it emits destroy.
OnDestroy(st, w) ==
  LET left == IF w \in XWindows THEN SetActivated(Dissociate(st, w), w, FALSE)
              ELSE IF w \in st.mapped THEN OnUnmap(st, w) ELSE st
  IN EraseToplevel(LeaveStack(SourceUnavailable(left, w), w), w)

(***************************************************************************)
(* Actions.  Each is one event of the loop and runs one handler to its     *)
(* end.  Operations names the events an instance lets happen.              *)
(***************************************************************************)
Run(operation, st) == operation \in Operations /\ desk' = st

Init ==
  desk = [created |-> 0, alive |-> {}, scene_tree |-> {}, initialized |-> {},
          mapped |-> {}, minimized |-> {}, maximized |-> {}, tiled |-> {},
          all_workspaces |-> {}, kept_above |-> {},
          workspace |-> [w \in Windows |-> 0], enabled |-> {}, forced |-> {}, above |-> {},
          animated |-> 0, current_workspace |-> 0,
          workspace_count |-> InitialWorkspaces, sources_hidden |-> {},
          layer_mapped |-> {}, keyboard_interactive |-> [l \in Layers |-> "none"],
          keyboards |-> 1, seat_keyboard |-> TRUE, keyboard_grab |-> FALSE,
          focused_surface |-> NoSurface, activated |-> {},
          ssd |-> [w \in Windows |-> "none"],
          xwm_focused |-> 0, session_locked |-> FALSE, session_lock |-> FALSE]

\* The toplevel takes the current workspace and, when it is an xdg one, a
\* shown scene node on top of the others.
OnNewToplevel(w) ==
  /\ w = desk.created + 1
  /\ LET new == [desk EXCEPT !.created = w, !.alive = @ \cup {w},
                             !.workspace[w] = desk.current_workspace]
     IN Run("window", IF w \in XWindows THEN new
                      ELSE RaiseToTop([new EXCEPT !.scene_tree = @ \cup {w},
                                                  !.enabled = @ \cup {w}], w))

InitialCommit(w) ==
  /\ w \in (desk.alive \cap Xdg) \ desk.initialized
  /\ Run("window", [desk EXCEPT !.initialized = @ \cup {w}])

XdgMap(w, requested) ==
  /\ w \in desk.initialized \ desk.mapped
  /\ requested => "maximize" \in Operations
  /\ Run("window", OnMap(desk, w, requested))

\* A null-buffer commit: the handler runs, then wlroots resets the surface.
XdgUnmap(w) ==
  /\ w \in desk.mapped \cap Xdg
  /\ Run("unmap", [OnUnmap(desk, w) EXCEPT !.initialized = @ \ {w}])

\* The X window gets its wl_surface, which may be mapped already.
XAssociate(w, mapped, requested) ==
  /\ w \in (desk.alive \cap XWindows) \ desk.scene_tree
  /\ requested => "maximize" \in Operations
  /\ LET node == RaiseToTop([desk EXCEPT !.scene_tree = @ \cup {w}], w)
     IN Run("window", IF mapped THEN OnMap(node, w, requested) ELSE node)

XMap(w, requested) ==
  /\ w \in (desk.scene_tree \cap XWindows) \ desk.mapped
  /\ requested => "maximize" \in Operations
  /\ Run("window", OnMap(desk, w, requested))

\* The scene helper of wlroots disables the node of an unmapped X surface.
XUnmap(w) ==
  /\ w \in desk.mapped \cap XWindows
  /\ Run("unmap", OnUnmap(SetEnabled(desk, w, FALSE), w))

XDissociate(w) ==
  /\ w \in desk.scene_tree \cap XWindows
  /\ Run("unmap", Dissociate(desk, w))

Destroy(w) ==
  /\ w \in desk.alive
  /\ Run("destroy", OnDestroy(desk, w))

\* wlr_seat drops a focused surface when the wl_surface is destroyed, which
\* may come later than the end of its role.
SurfaceDestroyed ==
  /\ \/ desk.focused_surface.role = "toplevel"
        /\ desk.focused_surface.id \notin desk.scene_tree
     \/ desk.focused_surface.role = "layer"
        /\ desk.focused_surface.id \notin desk.layer_mapped
     \/ desk.focused_surface.role = "lock"
  /\ Run("surface_destroyed", ClearFocus(desk))

\* A click, xdg-activation, a taskbar, the window menu, an X activation.
Activate(w) ==
  /\ w \in desk.mapped
  /\ Run("activate", FocusToplevel(desk, w))

MinimizeWindow(w) ==
  /\ w \in desk.mapped
  /\ Run("minimize", Minimize(desk, w))

\* ProtocolManager::RequestMinimize(surface, false).
RequestUnminimize(w) ==
  /\ w \in desk.mapped /\ CanMinimize(w)
  /\ LET st == Unminimize(desk, w)
     IN Run("minimize", SetEnabled(st, w, IsToplevelVisible(st, w)))

\* XSurface::OnRequestMinimize with event->minimize false.
XRequestUnminimize(w) ==
  /\ w \in desk.alive \cap XWindows
  /\ LET restored == Unminimize(desk, w)
         shown == IF w \in desk.scene_tree THEN ForceShow(restored, w) ELSE restored
     IN Run("x_unminimize", IF w \in desk.mapped /\ WantsFocus(w)
                            THEN FocusToplevel(shown, w) ELSE shown)

\* XdgDecoration, and the KDE, UKUI and Treeland requests: SetSsdEnabled gives an
\* xdg window a titlebar, or takes it away, whether or not it has the keyboard.
SetSsdEnabled(w, titlebar) ==
  /\ w \in desk.alive \cap desk.scene_tree \cap Xdg
  /\ Run("ssd", [desk EXCEPT !.ssd[w] = IF ~titlebar THEN "none"
                                        ELSE IF @ = "none" THEN "new" ELSE @])

\* Toplevel::OnRequestMaximize, from the xdg client itself.
OnRequestMaximize(w, requested) ==
  /\ w \in desk.initialized
  /\ Run("maximize", SetMaximized(desk, w, CanMaximize(w) /\ requested))

\* ProtocolManager::RequestMaximize, from a taskbar.
RequestMaximize(w, maximized) ==
  /\ w \in desk.mapped /\ CanManage(w)
  /\ Run("maximize", SetMaximized(desk, w, maximized /\ CanMaximize(w)))

ToggleMaximized(w) ==
  /\ w \in desk.mapped /\ CanMaximize(w)
  /\ Run("maximize", SetMaximized(desk, w, w \notin desk.maximized))

Tile(w, animate) ==
  /\ w \in desk.mapped
  /\ Run("tile", TileToplevel(desk, w, animate))

\* TileAnimation::Update reaching the end of its run.
AnimationEnd ==
  /\ desk.animated # 0
  /\ Run("tile", CancelAnimation(desk))

\* Starting a move leaves the maximized or tiled state when a restore box is
\* known; a resize only ends the animation.
BeginInteractive(w, restore) ==
  /\ ~desk.session_locked /\ w \in desk.mapped
  /\ LET still == CancelAnimation(desk)
     IN Run("interactive", IF restore /\ w \in desk.maximized \cup desk.tiled
                           THEN SetMaximized(still, w, FALSE) ELSE still)

SwitchTo(n) == Run("workspace", SwitchWorkspace(desk, n))

\* Dragging a window onto a workspace of the overview.
MoveWindow(w, n) ==
  /\ w \in desk.mapped
  /\ Run("workspace", MoveToplevelToWorkspace(desk, w, n))

\* The window menu and the KDE and UKUI requests first leave all_workspaces.
SendToWorkspace(w, n) ==
  /\ w \in desk.mapped
  /\ Run("workspace", MoveToplevelToWorkspace(SetAllWorkspaces(desk, w, FALSE), w, n))

ToggleAllWorkspaces(w) ==
  /\ w \in desk.mapped
  /\ Run("all_workspaces", SetAllWorkspaces(desk, w, w \notin desk.all_workspaces))

Add == Run("workspace_list", AddWorkspace(desk))
Remove(n) == Run("workspace_list", RemoveWorkspace(desk, n))
Reorder(from, to) == Run("workspace_list", ReorderWorkspace(desk, from, to))

ToggleKeptAbove(w) ==
  /\ w \in desk.mapped
  /\ Run("kept_above", SetKeptAbove(desk, w, w \notin desk.kept_above))

\* The entries of the app switcher are the focusable windows of the current
\* workspace, minimized ones included.
AppSwitcherActivate(w) ==
  /\ w \in desk.mapped \cap desk.alive /\ WantsFocus(w) /\ OnCurrentWorkspace(desk, w)
  /\ Run("app_switcher",
         FocusToplevel(IF w \in desk.minimized
                       THEN ForceShow(Unminimize(desk, w), w) ELSE desk, w))

OpenMultitasking ==
  /\ "multitasking" \notin desk.sources_hidden
  /\ Run("overview", SetSourcesHidden(desk, "multitasking", TRUE))

\* Multitasking::CompleteClose with nothing, a workspace or a window picked.
CloseMultitasking ==
  /\ "multitasking" \in desk.sources_hidden
  /\ Run("overview", SetSourcesHidden(desk, "multitasking", FALSE))

CloseMultitaskingOnWorkspace(n) ==
  /\ "multitasking" \in desk.sources_hidden
  /\ Run("overview", SwitchWorkspace(SetSourcesHidden(desk, "multitasking", FALSE), n))

CloseMultitaskingOnWindow(w) ==
  /\ "multitasking" \in desk.sources_hidden
  /\ w \in desk.mapped \cap desk.alive /\ WantsFocus(w)
  /\ LET switched == SwitchWorkspace(SetSourcesHidden(desk, "multitasking", FALSE),
                                     desk.workspace[w])
     IN Run("overview",
            FocusToplevel(IF w \in switched.minimized
                          THEN ForceShow(Unminimize(switched, w), w)
                          ELSE switched, w))

OpenPreviews ==
  /\ "previews" \notin desk.sources_hidden
  /\ \E w \in desk.mapped \cap desk.alive : CanManage(w) /\ WantsFocus(w)
  /\ Run("overview", SetSourcesHidden(desk, "previews", TRUE))

\* The window is activated first; its node comes back when the overview closes.
PickPreview(w) ==
  /\ "previews" \in desk.sources_hidden
  /\ w \in desk.mapped \cap desk.alive /\ CanManage(w) /\ WantsFocus(w)
  /\ Run("overview",
         FocusToplevel(SwitchWorkspace(Unminimize(desk, w), desk.workspace[w]), w))

ClosePreviews ==
  /\ "previews" \in desk.sources_hidden
  /\ Run("overview", SetSourcesHidden(desk, "previews", FALSE))

LayerMap(l) ==
  /\ l \notin desk.layer_mapped
  /\ LET st == [desk EXCEPT !.layer_mapped = @ \cup {l}]
     IN Run("layer", IF l \in ExclusiveLayers(st) THEN FocusLayerSurface(st, l) ELSE st)

\* Also the end of a mapped layer surface, which wlroots unmaps first.
LayerUnmap(l) ==
  /\ l \in desk.layer_mapped
  /\ LET st == [desk EXCEPT !.layer_mapped = @ \ {l}]
     IN Run("layer", IF desk.focused_surface = LayerSurface(l)
                     THEN FocusNextToplevel(st, 0) ELSE st)

\* Mutant: a layer that turns exclusive while mapped does not take the keyboard.
Faulty_LayerCommit(l, interactivity) ==
  Run("layer", [desk EXCEPT !.keyboard_interactive[l] = interactivity])

LayerCommit(l, interactivity) ==
  LET st == [desk EXCEPT !.keyboard_interactive[l] = interactivity]
  IN Run("layer", IF l \in ExclusiveLayers(st) THEN FocusLayerSurface(st, l) ELSE st)

LayerClick(l) ==
  /\ l \in desk.layer_mapped
  /\ Run("layer_click", FocusLayerSurface(desk, l))

\* Mutant: the focused window keeps the keyboard.
Faulty_BeginSessionLock ==
  /\ ~desk.session_lock
  /\ Run("lock", [desk EXCEPT !.session_locked = TRUE, !.session_lock = TRUE,
                              !.keyboard_grab = FALSE])

\* A second locker is turned away; the grabs end before the focus is cleared.
BeginSessionLock ==
  /\ ~desk.session_lock
  /\ Run("lock", ClearFocus([desk EXCEPT !.session_locked = TRUE, !.session_lock = TRUE,
                                         !.keyboard_grab = FALSE]))

\* The blank cannot be allocated, when no lock before had one: the session stays
\* unlocked and a window gets the keyboard again.
BeginSessionLockFails ==
  /\ ~desk.session_lock /\ ~desk.session_locked
  /\ Run("lock", FocusNextToplevel(ClearFocus([desk EXCEPT !.keyboard_grab = FALSE]), 0))

FocusSessionLockSurface ==
  /\ desk.session_lock /\ desk.session_locked
  /\ Run("lock", NotifyEnter(desk, LockSurface))

\* OnUnlock then OnDestroy of the same request: UnlockSession,
\* FinishSessionLock(true).
UnlockSession ==
  /\ desk.session_lock
  /\ Run("lock", FocusNextToplevel([desk EXCEPT !.session_locked = FALSE,
                                                !.session_lock = FALSE], 0))

\* FinishSessionLock(false): the locker went away without unlocking.
LockerGone ==
  /\ desk.session_lock
  /\ Run("lock", ClearFocus([desk EXCEPT !.session_locked = TRUE, !.session_lock = FALSE]))

AddKeyboard ==
  /\ desk.keyboards < MaxKeyboards
  /\ LET st == [desk EXCEPT !.keyboards = @ + 1, !.seat_keyboard = TRUE]
     IN Run("keyboard", IF desk.focused_surface # NoSurface
                        THEN NotifyEnter(st, desk.focused_surface)
                        ELSE FocusNextToplevel(st, 0))

\* active: the keyboard that goes is the one the seat uses; wlroots then
\* leaves the seat without one, even when another is plugged in.
RemoveKeyboard(active) ==
  /\ desk.keyboards > 0
  /\ active => desk.seat_keyboard
  /\ ~active /\ desk.seat_keyboard => desk.keyboards > 1
  /\ Run("keyboard", [desk EXCEPT !.keyboards = @ - 1, !.seat_keyboard = @ /\ ~active])

\* Keyboard::OnKey and OnModifiers make the keyboard the seat's.
KeyEvent ==
  /\ desk.keyboards > 0
  /\ Run("keyboard", [desk EXCEPT !.seat_keyboard = TRUE])

BeginGrab == Run("grab", [desk EXCEPT !.keyboard_grab = TRUE])
EndGrab == Run("grab", [desk EXCEPT !.keyboard_grab = FALSE])

WindowNext(w) ==
  \/ OnNewToplevel(w)
  \/ InitialCommit(w)
  \/ XdgUnmap(w)
  \/ XUnmap(w)
  \/ XDissociate(w)
  \/ Destroy(w)
  \/ Activate(w)
  \/ MinimizeWindow(w)
  \/ RequestUnminimize(w)
  \/ XRequestUnminimize(w)
  \/ ToggleMaximized(w)
  \/ ToggleAllWorkspaces(w)
  \/ ToggleKeptAbove(w)
  \/ AppSwitcherActivate(w)
  \/ CloseMultitaskingOnWindow(w)
  \/ PickPreview(w)
  \/ \E b \in BOOLEAN :
       \/ XdgMap(w, b)
       \/ XMap(w, b)
       \/ \E mapped \in BOOLEAN : XAssociate(w, mapped, b)
       \/ SetSsdEnabled(w, b)
       \/ OnRequestMaximize(w, b)
       \/ RequestMaximize(w, b)
       \/ Tile(w, b)
       \/ BeginInteractive(w, b)
  \/ \E n \in Workspaces : MoveWindow(w, n) \/ SendToWorkspace(w, n)

WorkspaceNext(n) ==
  \/ SwitchTo(n)
  \/ Remove(n)
  \/ CloseMultitaskingOnWorkspace(n)
  \/ \E to \in Workspaces : Reorder(n, to)

LayerNext(l) ==
  \/ LayerMap(l)
  \/ LayerUnmap(l)
  \/ LayerClick(l)
  \/ \E i \in Interactivity : LayerCommit(l, i)

SessionNext ==
  \/ SurfaceDestroyed
  \/ AnimationEnd
  \/ Add
  \/ OpenMultitasking \/ CloseMultitasking
  \/ OpenPreviews \/ ClosePreviews
  \/ BeginSessionLock \/ BeginSessionLockFails \/ FocusSessionLockSurface \/ UnlockSession \/ LockerGone
  \/ AddKeyboard \/ KeyEvent
  \/ \E active \in BOOLEAN : RemoveKeyboard(active)
  \/ BeginGrab \/ EndGrab

Next ==
  \/ \E w \in Windows : WindowNext(w)
  \/ \E n \in Workspaces : WorkspaceNext(n)
  \/ \E l \in Layers : LayerNext(l)
  \/ SessionNext

Spec == Init /\ [][Next]_desk

\* The state without what no action of the views run and no property of it reads:
\* who was told it is active, and who is tiled.
SceneView == [desk EXCEPT !.activated = {}, !.xwm_focused = 0, !.tiled = {}]

(***************************************************************************)
(* Properties.                                                             *)
(***************************************************************************)

\* The fields of desk hold values of the kinds the code gives them.
TypeOK == desk \in DeskType

\* While the session is locked no window and no shell layer has the keyboard,
\* whatever maps, unmaps, grabs, is plugged in or crashes meanwhile
\* (BeginSessionLock, FinishSessionLock, the guards of FocusToplevel and
\* FocusLayerSurface).
NoDesktopFocusWhileLocked ==
  desk.session_locked => desk.focused_surface.role \in {"none", "lock"}

\* The X window XWaylandManager::focused points to is associated, mapped,
\* managed and not minimized: the pointer never outlives the surface
\* (SetActivated(false) in OnUnmap, Minimize, Dissociate and OnDestroy).
XwmFocusIsUsable ==
  desk.xwm_focused # 0 =>
    /\ desk.xwm_focused \in desk.mapped \cap desk.scene_tree \cap desk.alive
    /\ desk.xwm_focused \notin desk.minimized
    /\ CanManage(desk.xwm_focused)

\* The keyboard is never left on a window that is unmapped, minimized or on a
\* workspace that is not shown (Minimize, OnUnmap, SwitchWorkspace,
\* MoveToplevelToWorkspace and SetAllWorkspaces hand it on).
FocusIsOnAUsableWindow ==
  desk.focused_surface.role = "toplevel" =>
    /\ desk.focused_surface.id \in desk.mapped \ desk.minimized
    /\ OnCurrentWorkspace(desk, desk.focused_surface.id)

\* The window with the keyboard is the one its protocol says is active: an xdg
\* window is activated and the X focus parked, an X window has the X focus.  No
\* other window's titlebar is drawn active, and its own is, unless it was attached
\* after the window got the keyboard: AttachSsd leaves it inactive (SetActivated,
\* SetSsdActive, DeactivatePrevious and ParkXWaylandFocus along every path that
\* moves the focus).
KeyboardAndActivationAgree ==
  \A w \in FocusedToplevels(desk) :
    /\ desk.ssd[w] # "inactive"
    /\ \A v \in Windows \ {w} : desk.ssd[v] # "active"
    /\ IF w \in XWindows THEN desk.xwm_focused = w
       ELSE w \in desk.activated /\ desk.xwm_focused = 0

\* While a mapped layer surface is exclusive no window has the keyboard,
\* however the layers and windows come and go (FocusToplevel,
\* FocusNextToplevel, LayerSurface::OnMap, OnCommit and OnUnmap).
NoWindowFocusUnderExclusiveLayer ==
  ExclusiveLayers(desk) # {} => desk.focused_surface.role # "toplevel"

\* Renumbering the workspaces loses nothing.  Every window, and the view, is on
\* a workspace that exists.  Reordering leaves the same windows visible and the
\* same nodes shown (ReorderWorkspace does not recompute the scene and does not
\* have to).  Removing one leaves visible what was visible, and every window on
\* a workspace next to where it was (RemoveWorkspace).
RenumberingKeepsTheView ==
  [][/\ desk'.current_workspace < desk'.workspace_count
     /\ \A w \in 1 .. desk'.created : desk'.workspace[w] < desk'.workspace_count
     /\ \/ /\ desk'.enabled = desk.enabled
           /\ \A w \in Windows : IsToplevelVisible(desk', w) <=> IsToplevelVisible(desk, w)
        \/ ~ \E from, to \in 0 .. desk.workspace_count - 1 : from # to /\ Reorder(from, to)
     /\ desk'.workspace_count < desk.workspace_count =>
          \A w \in 1 .. desk.created :
            /\ IsToplevelVisible(desk, w) => IsToplevelVisible(desk', w)
            /\ desk'.workspace[w] \in {desk.workspace[w] - 1, desk.workspace[w]}]_desk

\* With no overview open, exactly the visible windows are shown in the scene
\* (SetEnabled and RefreshScene keep up with IsToplevelVisible).  The window of the
\* tile animation is exempt while its snapshot is shown for it, and so is one that
\* was last shown without asking whether it is visible: by the end of that
\* animation, by a maximize or tile request or by an X client's own unminimize,
\* which do not look at its workspace.
SceneShowsVisibleWindows ==
  desk.sources_hidden = {} =>
    \A w \in desk.mapped \ (desk.forced \cup {desk.animated}) :
      w \in desk.enabled <=> IsToplevelVisible(desk, w)

\* The tile animation, which hides the node of its window and shows it when it
\* ends or is cancelled, never shows one that is gone or hidden: the animated
\* window is mapped, and a minimized window stays out of the scene, also when
\* it was being animated (Minimize, TileAnimation::Complete, SourceUnavailable).
AnimationShowsNoHidden ==
  /\ desk.animated # 0 => desk.animated \in desk.mapped
  /\ desk.mapped \cap desk.minimized \cap desk.enabled = {}

(***************************************************************************)
(* What comments in the code say, and the code does not do.                *)
(***************************************************************************)

\* "Move keyboard focus away if this was the active window." (Minimize): a
\* minimized window does not keep the keyboard.
MinimizedWindowLosesKeyboard ==
  \A w \in FocusedToplevels(desk) : w \notin desk.minimized

\* "Exclusive shell layers keep the keyboard until they disappear."
\* (FocusToplevel): a layer that has the keyboard exclusively keeps it while it
\* stays mapped and exclusive.
ExclusiveLayerKeepsKeyboard ==
  [][\A l \in ExclusiveLayers(desk) :
       /\ desk.focused_surface = LayerSurface(l)
       /\ l \in ExclusiveLayers(desk')
       => desk'.focused_surface = LayerSurface(l)]_desk

\* "Pick the topmost mapped window other than the one being removed."
\* (FocusNextToplevel): when the focused window is minimized, the keyboard goes
\* to the candidate that no other candidate is stacked above.
TopmostWindowTakesOver ==
  [][\A w \in FocusedToplevels(desk) :
       MinimizeWindow(w) =>
         \A c \in FocusedToplevels(desk') \ {w} :
           \A other \in Candidates(desk, w) : <<other, c>> \notin desk.above]_desk
=============================================================================
