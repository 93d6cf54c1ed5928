---------------------------- MODULE SwitcherList ----------------------------
(***************************************************************************)
(* The list of the app switcher.  It is read from the windows when it is   *)
(* opened or cycled, ordered by when they were last focused, and then kept *)
(* while windows come, go and take the focus.  How keys open and close it  *)
(* is in module Keys, which window is focused next in module Desktop; here *)
(* the focus goes to any window it may go to.                              *)
(***************************************************************************)
EXTENDS Integers, Sequences
LOCAL INSTANCE SequencesExt

CONSTANTS
  Apps,       \* toplevels_: a sequence of windows, by their surfaces
  NoApp

ASSUME AppsAssumption == IsInjective(Apps) /\ NoApp \notin ToSet(Apps)

VARIABLES
  app_mapped,       \* the mapped windows
  app_here,         \* those that want focus and are on the current workspace
  app_focused,      \* the window with keyboard focus
  focus_history_,
  active_,
  entries_,
  current_index_,   \* counted from one; 0 is the code's -1
  chosen            \* the window the user last stepped to, while it is mapped

switcherVars ==
  <<app_mapped, app_here, app_focused, focus_history_, active_, entries_, current_index_, chosen>>
listVars == <<active_, entries_, current_index_, chosen>>

SwitcherTypeOK ==
  /\ app_mapped \subseteq ToSet(Apps) /\ app_here \subseteq ToSet(Apps)
  /\ app_focused \in ToSet(Apps) \cup {NoApp}
  /\ ToSet(focus_history_) \subseteq ToSet(Apps) /\ ToSet(entries_) \subseteq ToSet(Apps)
  /\ active_ \in BOOLEAN /\ current_index_ \in 0 .. Len(Apps)
  /\ chosen \in ToSet(Apps) \cup {NoApp}

SwitcherInit ==
  /\ app_mapped = {} /\ app_here = ToSet(Apps) /\ app_focused = NoApp
  /\ focus_history_ = <<>>
  /\ active_ = FALSE /\ entries_ = <<>> /\ current_index_ = 0 /\ chosen = NoApp

----------------------------------------------------------------------------
Except(s, w) == SelectSeq(s, LAMBDA v : v # w)

Position(s, w) == CHOOSE i \in 1 .. Len(s) : s[i] = w

\* FocusToplevel as far as the switcher sees it: SurfaceActivated puts the
\* window first.  NoApp is a focus that goes to no window.
Focused(w, history) ==
  /\ app_focused' = w
  /\ focus_history_' = IF w = NoApp THEN history ELSE <<w>> \o Except(history, w)

\* The windows the focus may go to, without the one that is leaving.
Focusable(leaving) == ((app_mapped \cap app_here) \ {leaving}) \cup {NoApp}

\* FocusNextToplevel, away from a window that leaves; the focus stays when the
\* one it picks takes none.
PassFocusOn(leaving, history) ==
  \/ \E next \in Focusable(leaving) : Focused(next, history)
  \/ focus_history_' = history /\ UNCHANGED app_focused

\* RefreshEntries: the windows by their last focus, then the others in their
\* order; the preferred one is selected, else the focused one, else the first.
Refreshed ==
  LET available == app_mapped \cap app_here IN
  SelectSeq(focus_history_, LAMBDA w : w \in available)
    \o SelectSeq(Apps, LAMBDA w : w \in available \ ToSet(focus_history_))

RefreshedIndex(entries, preferred) ==
  IF preferred \in ToSet(entries) THEN Position(entries, preferred)
  ELSE IF app_focused \in ToSet(entries) THEN Position(entries, app_focused) ELSE 1

Step(index, count, reverse) ==
  IF reverse THEN ((index - 1 + count - 1) % count) + 1 ELSE (index % count) + 1

\* The list is dropped.
Dropped == active_' = FALSE /\ entries_' = <<>> /\ current_index_' = 0 /\ chosen' = NoApp

\* A list of fewer than two windows opens nothing, yet stays behind as it was read.
Cycle(reverse) ==
  LET preferred == IF active_ THEN entries_[current_index_] ELSE NoApp
      entries == Refreshed
      start == RefreshedIndex(entries, preferred)
      index == Step(start, Len(entries), reverse) IN
  /\ \/ /\ Len(entries) >= 2
        /\ active_' = TRUE /\ entries_' = entries
        /\ current_index_' = index /\ chosen' = entries[index]
     \/ Len(entries) < 2 /\ active_ /\ Dropped
     \/ /\ Len(entries) < 2 /\ ~active_
        /\ entries_' = entries /\ current_index_' = start
        /\ UNCHANGED <<active_, chosen>>
  /\ UNCHANGED <<app_mapped, app_here, app_focused, focus_history_>>

\* Mutant: the index stays where it is when a window before it goes.
Faulty_SurfaceUnavailable(w) ==
  LET left == Except(entries_, w) IN
  IF ~active_ THEN UNCHANGED listVars
  ELSE IF left = <<>> THEN Dropped
  ELSE /\ entries_' = left
       /\ current_index_' = IF current_index_ > Len(left) THEN Len(left) ELSE current_index_
       /\ chosen' = IF chosen = w THEN NoApp ELSE chosen
       /\ UNCHANGED active_

\* SurfaceUnavailable, the list: the selection follows its window; when it is
\* the one that goes, its place is kept, or the last.
SurfaceUnavailable(w) ==
  LET left == Except(entries_, w)
      selected == entries_[current_index_] IN
  IF ~active_ THEN UNCHANGED listVars
  ELSE IF left = <<>> THEN Dropped
  ELSE /\ entries_' = left
       /\ current_index_' = IF selected \in ToSet(left) THEN Position(left, selected)
                            ELSE IF current_index_ > Len(left) THEN Len(left)
                            ELSE current_index_
       /\ chosen' = IF chosen = w THEN NoApp ELSE chosen
       /\ UNCHANGED active_

----------------------------------------------------------------------------
\* A window is mapped, and focused if it may be.
AppMapped(w) ==
  /\ w \notin app_mapped
  /\ app_mapped' = app_mapped \cup {w}
  /\ \/ w \in app_here /\ Focused(w, focus_history_)
     \/ UNCHANGED <<app_focused, focus_history_>>
  /\ UNCHANGED <<app_here, listVars>>

\* OnUnmap tells the switcher first and then passes the focus on.
AppUnmapped(w) ==
  /\ w \in app_mapped
  /\ app_mapped' = app_mapped \ {w}
  /\ SurfaceUnavailable(w)
  /\ LET history == Except(focus_history_, w) IN
     IF app_focused = w THEN PassFocusOn(w, history)
     ELSE focus_history_' = history /\ UNCHANGED app_focused
  /\ UNCHANGED app_here

\* Anything else that moves the focus: a click, a request, a layer surface.
MoveFocus(w) ==
  /\ w \in Focusable(NoApp)
  /\ Focused(w, focus_history_)
  /\ UNCHANGED <<app_mapped, app_here, listVars>>

\* MoveToplevelToWorkspace, and a change of WantsFocus, leave the list alone.
MoveApp(w) ==
  LET leaves == w \in app_here IN
  /\ app_here' = IF leaves THEN app_here \ {w} ELSE app_here \cup {w}
  /\ IF leaves /\ app_focused = w THEN PassFocusOn(w, focus_history_)
     ELSE UNCHANGED <<app_focused, focus_history_>>
  /\ UNCHANGED <<app_mapped, listVars>>

\* SwitchWorkspace, between two workspaces, cancels an open switcher; the windows
\* of the other one are here then and one of them is focused, or none.
SwitchApps ==
  LET here == ToSet(Apps) \ app_here IN
  /\ IF active_ THEN Dropped ELSE UNCHANGED listVars
  /\ app_here' = here
  /\ \E next \in (app_mapped \cap here) \cup {NoApp} : Focused(next, focus_history_)
  /\ UNCHANGED app_mapped

\* Finish of HandleKey and of Cancel, and the callback that focuses the
\* selected window unless it left the workspace or a layer keeps the keyboard.
Finish(activate) ==
  /\ active_
  /\ Dropped
  /\ IF activate /\ entries_[current_index_] \in app_mapped \cap app_here
     THEN \/ Focused(entries_[current_index_], focus_history_)
          \/ Focused(NoApp, focus_history_)
     ELSE UNCHANGED <<app_focused, focus_history_>>
  /\ UNCHANGED <<app_mapped, app_here>>

SwitcherNext ==
  \/ \E w \in ToSet(Apps) : AppMapped(w) \/ AppUnmapped(w) \/ MoveApp(w)
  \/ \E w \in ToSet(Apps) \cup {NoApp} : MoveFocus(w)
  \/ SwitchApps
  \/ \E reverse \in BOOLEAN : Cycle(reverse)
  \/ \E activate \in BOOLEAN : Finish(activate)

(***************************************************************************)
(* Properties.                                                             *)
(***************************************************************************)

\* The window that letting go of Alt activates is the one the user stepped to,
\* for as long as it is mapped, whichever windows come, go and take the focus
\* meanwhile; and neither the history nor the list of an open switcher holds a
\* window twice or one that is not mapped any more.  A list that opened nothing may
\* hold one: it is read anew before it is used (RefreshEntries, SurfaceUnavailable).
SelectionIsChosen ==
  /\ IsInjective(focus_history_) /\ ToSet(focus_history_) \subseteq app_mapped
  /\ active_ => /\ IsInjective(entries_) /\ ToSet(entries_) \subseteq app_mapped
                /\ current_index_ \in 1 .. Len(entries_)
  /\ chosen # NoApp => active_ /\ entries_[current_index_] = chosen
=============================================================================
