----------------------------- MODULE ShowDesktop -----------------------------
(***************************************************************************)
(* What taskbars and shells do to the windows of Desktop: the "show        *)
(* desktop" of KdeProtocolManager, UkuiProtocolManager and the D-Bus       *)
(* service, each with a memory of its own of what it hid, the highlighted  *)
(* window of UKUI, and the requests that change several states of a window *)
(* at once.                                                                *)
(***************************************************************************)
EXTENDS Desktop, Sequences

Lists == INSTANCE SequencesExt

VARIABLE shell

shellVars == <<desk, shell>>

Protocols == {"kde", "ukui"}

ShellType ==
  [windows : Lists!SeqOf(Windows, NumWindows),    \* the managers' windows, in map order
   showing : SUBSET (Protocols \cup {"dbus"}),    \* where show desktop is on
   surfaces : [Protocols -> SUBSET Windows],      \* show_desktop_surfaces
   dbus_windows : SUBSET Windows,                 \* show_desktop_windows_ of D-Bus
   highlight_window : 0 .. NumWindows]            \* 0 for nullptr

ShellInit ==
  /\ Init
  /\ shell = [windows |-> <<>>, showing |-> {},
              surfaces |-> [p \in Protocols |-> {}], dbus_windows |-> {},
              highlight_window |-> 0]

(***************************************************************************)
(* Requests.                                                               *)
(***************************************************************************)
\* ProtocolManager::RequestMinimize, for a surface that has a window.
RequestMinimize(st, w, minimized) ==
  IF ~CanMinimize(w) THEN st
  ELSE IF minimized THEN Minimize(st, w)
  ELSE LET restored == Unminimize(st, w)
       IN SetEnabled(restored, w, IsToplevelVisible(restored, w))

RequestMinimizeAll(st, ws, minimized) ==
  Lists!FoldLeft(LAMBDA s, w : RequestMinimize(s, w, minimized), st, ws)

\* Mutant: ending a highlight forgets to show the other windows again.
Faulty_SetHighlight(st, w) ==
  [st EXCEPT !.enabled = {v \in st.scene_tree :
      IF v \notin st.mapped \/ w = 0 THEN v \in st.enabled ELSE v = w}]

\* UkuiProtocolManager's SetHighlight: the nodes of the listed windows.  Ending
\* a highlight looks at the minimized state alone.
SetHighlight(st, w) ==
  [st EXCEPT !.enabled = {v \in st.scene_tree :
      IF v \notin st.mapped THEN v \in st.enabled
      ELSE IF w = 0 THEN v \notin st.minimized ELSE v = w}]

\* Mutant: a second request to show the desktop starts over.
Faulty_Show(p) ==
  LET hidden == SelectSeq(shell.windows,
                          LAMBDA w : /\ w \notin desk.minimized
                                     /\ desk.workspace[w] = desk.current_workspace)
  IN /\ shell' = [shell EXCEPT !.showing = @ \cup {p}, !.surfaces[p] = Lists!ToSet(hidden)]
     /\ Run("show_desktop", RequestMinimizeAll(desk, hidden, TRUE))

\* ShowDesktop of KDE and of UKUI.
Show(p) ==
  /\ p \notin shell.showing
  /\ LET hidden == SelectSeq(shell.windows,
                             LAMBDA w : /\ w \notin desk.minimized
                                        /\ desk.workspace[w] = desk.current_workspace)
     IN /\ shell' = [shell EXCEPT !.showing = @ \cup {p},
                                  !.surfaces[p] = Lists!ToSet(hidden)]
        /\ Run("show_desktop", RequestMinimizeAll(desk, hidden, TRUE))

Restore(p) ==
  /\ p \in shell.showing
  /\ shell' = [shell EXCEPT !.showing = @ \ {p}, !.surfaces[p] = {}]
  /\ Run("show_desktop",
         RequestMinimizeAll(desk, SelectSeq(shell.windows, LAMBDA w : w \in shell.surfaces[p]),
                            FALSE))

\* WlcomDbusManager::SetShowDesktop(true) minimizes the windows of every
\* workspace, in toplevels_ order, and remembers them: nothing takes one out when
\* it unmaps or is destroyed.  (false) tells the X windows among them that they are
\* back, leaves minimized and the scene as they are, and refocuses.
DbusShow ==
  /\ "dbus" \notin shell.showing
  /\ shell' = [shell EXCEPT !.showing = @ \cup {"dbus"},
                            !.dbus_windows = {w \in desk.mapped \ desk.minimized : CanMinimize(w)}]
  /\ Run("show_desktop",
         Lists!FoldLeft(Minimize, desk, [w \in 1 .. desk.created |-> w]))

DbusRestore ==
  /\ "dbus" \in shell.showing
  /\ shell' = [shell EXCEPT !.showing = @ \ {"dbus"}, !.dbus_windows = {}]
  /\ Run("show_desktop", FocusNextToplevel(desk, 0))

HighlightWindow(w) ==
  /\ w \in desk.mapped /\ shell.highlight_window # w
  /\ shell' = [shell EXCEPT !.highlight_window = w]
  /\ Run("highlight", SetHighlight(desk, w))

UnsetHighlightWindow ==
  /\ shell.highlight_window # 0
  /\ shell' = [shell EXCEPT !.highlight_window = 0]
  /\ Run("highlight", SetHighlight(desk, 0))

LowerToBottom(st, w) ==
  [st EXCEPT !.above = {p \in @ : p[1] # w /\ p[2] # w}
                         \cup {<<v, w>> : v \in st.scene_tree \ {w}}]

\* SetWindowState of KDE and of UKUI: the flagged states, in this order.  The
\* window is activated before it is unminimized.  Fullscreen, between maximized and
\* kept above, only tells the client.  Kept "below" is UKUI's KEEP_BELOW, which
\* counts when KEEP_ABOVE is not flagged.
SetWindowState(w, active, minimized, maximized, kept_above) ==
  /\ w \in desk.mapped
  /\ maximized # "keep" => "maximize" \in Operations
  /\ kept_above # "keep" => "kept_above" \in Operations
  /\ LET Flagged(flag, st, changed) == IF flag = "keep" THEN st ELSE changed
         focused == IF active THEN FocusToplevel(desk, w) ELSE desk
         hidden == Flagged(minimized, focused, RequestMinimize(focused, w, minimized = "on"))
         sized == Flagged(maximized, hidden,
                          IF CanManage(w)
                          THEN SetMaximized(hidden, w, maximized = "on" /\ CanMaximize(w))
                          ELSE hidden)
     IN Run("window_state",
            Flagged(kept_above, sized,
                    IF kept_above # "below" THEN SetKeptAbove(sized, w, kept_above = "on")
                    ELSE IF w \in sized.scene_tree THEN LowerToBottom(sized, w) ELSE sized))
  /\ UNCHANGED shell

(***************************************************************************)
(* MapToplevel and UnmapToplevel of the two managers, which OnMap and      *)
(* OnUnmap call.                                                           *)
(***************************************************************************)
\* At most one window maps or unmaps in a step.
Follow(sh, mapped) ==
  [sh EXCEPT !.windows = SelectSeq(@, LAMBDA w : w \in mapped)
                           \o Lists!SetToSeq(mapped \ Lists!ToSet(@)),
             !.surfaces = [p \in Protocols |-> @[p] \cap mapped],
             !.highlight_window = IF @ \in mapped THEN @ ELSE 0]

\* A step of Desktop under which the highlighted window, if any, stays.
DesktopStep ==
  /\ Next
  /\ shell.highlight_window # 0 => shell.highlight_window \in desk'.mapped
  /\ shell' = Follow(shell, desk'.mapped)

\* The highlighted window leaves: UnmapToplevel ends the highlight while the
\* window is still listed, and after the node of an X window was disabled.
HighlightedLeaves(w) ==
  /\ w # 0 /\ w = shell.highlight_window
  /\ LET shown == SetHighlight(desk, 0)
     IN \/ Run("unmap", IF w \in Xdg
                        THEN [OnUnmap(shown, w) EXCEPT !.initialized = @ \ {w}]
                        ELSE OnUnmap(shown, w))
        \/ w \in XWindows /\ Run("unmap", Dissociate(shown, w))
        \/ Run("destroy", OnDestroy(shown, w))
  /\ shell' = Follow(shell, desk'.mapped)

ShellNext ==
  \/ DesktopStep
  \/ HighlightedLeaves(shell.highlight_window)
  \/ \E p \in Protocols : Show(p) \/ Restore(p)
  \/ DbusShow \/ DbusRestore
  \/ \E w \in Windows : HighlightWindow(w)
  \/ UnsetHighlightWindow
  \/ \E w \in Windows, active \in BOOLEAN, minimized, maximized \in {"keep", "on", "off"},
        kept_above \in {"keep", "on", "off", "below"} :
       SetWindowState(w, active, minimized, maximized, kept_above)

ShellSpec == ShellInit /\ [][ShellNext]_shellVars

(***************************************************************************)
(* Properties.                                                             *)
(***************************************************************************)

\* Show desktop of KDE and of UKUI loses no window: one that it minimized is
\* remembered, and stays so until something brings it back or it unmaps, whatever
\* the other protocols, the D-Bus service, the user and the clients do meanwhile and
\* however often the desktop is shown (ShowDesktop and UnmapToplevel of the two
\* managers).  Leaving show desktop forgets nothing that stays minimized.
HiddenWindowsAreNotLost ==
  [][\A p \in Protocols :
       /\ (shell.surfaces[p] \cap desk.minimized \cap desk'.minimized) \cap desk'.mapped
            \subseteq shell'.surfaces[p]
       /\ p \in shell'.showing \ shell.showing =>
            desk'.minimized \ desk.minimized \subseteq shell'.surfaces[p]]_shellVars

\* No window is left out of the scene by a highlight: once it ends, by request
\* or because its window left, and no overview is open, every visible window is
\* shown and no minimized one, whatever mapped, moved or was minimized while it
\* lasted (SetHighlight, UnmapToplevel).
HighlightIsUndone ==
  shell.highlight_window = 0 /\ desk.sources_hidden = {} =>
    \A w \in desk.mapped :
      /\ IsToplevelVisible(desk, w) => w \in desk.enabled
      /\ w \in desk.minimized => w \notin desk.enabled
=============================================================================
