-------------------------------- MODULE Idle --------------------------------
(***************************************************************************)
(* Telling clients that the user is idle.  Two protocols do it: KDE's idle *)
(* timeouts (KdeIdleManager) and ext-idle-notify (wlr_idle_notifier_v1),   *)
(* whose notifications may obey the idle inhibitors of visible surfaces.   *)
(* ProtocolManager::UpdateIdleInhibition decides whether any inhibits, and *)
(* runs at some of the events that change the answer, not at all of them.  *)
(*                                                                         *)
(* Time is abstracted to timers that are armed and may then expire.  A     *)
(* timeout of zero has no timer.                                           *)
(***************************************************************************)
EXTENDS Naturals

CONSTANTS
  Timeouts,       \* idle timeouts of clients, of both protocols
  Kde,            \* those of KDE's protocol
  Obeying,        \* the others that obey inhibitors: get_idle_notification
  Instant,        \* those with timeout 0
  IdleSurfaces,   \* surfaces that may have an idle inhibitor
  LockSurfaces    \* those of them that are lock surfaces

ASSUME IdleAssumption ==
  /\ Kde \cup Obeying \cup Instant \subseteq Timeouts /\ Kde \cap Obeying = {}
  /\ LockSurfaces \subseteq IdleSurfaces

VARIABLES
  timeouts_,        \* the timeouts that exist
  idle,             \* those reported idle
  armed,            \* those whose timer runs
  notifier_inhibited,
  inhibitors,       \* surfaces with an inhibitor
  mapped_surfaces,
  idle_locked       \* session_locked_

idleVars == <<timeouts_, idle, armed, notifier_inhibited, inhibitors, mapped_surfaces,
              idle_locked>>

IdleInit ==
  /\ timeouts_ = {} /\ idle = {} /\ armed = {}
  /\ notifier_inhibited = FALSE /\ inhibitors = {} /\ mapped_surfaces = {}
  /\ idle_locked = FALSE

\* KdeIdleManager::Arm, and notification_reset_timer without inhibition, for
\* every timeout of a set; resumed are reported active first.
Arm(set, resumed) ==
  /\ armed' = (armed \cup set) \ Instant
  /\ idle' = (idle \ resumed) \cup (set \cap Instant)

\* Mutant: a notification that is inhibited no more waits for the next input.
Faulty_SetInhibited(inhibited) ==
  /\ notifier_inhibited' = inhibited
  /\ IF inhibited
     THEN armed' = armed \ Obeying /\ idle' = idle \ Obeying
     ELSE UNCHANGED <<armed, idle>>

\* wlr_idle_notifier_v1_set_inhibited: on a change the obeying notifications
\* are stopped, or started afresh.
SetInhibited(inhibited) ==
  /\ notifier_inhibited' = inhibited
  /\ IF inhibited = notifier_inhibited THEN UNCHANGED <<armed, idle>>
     ELSE IF inhibited
     THEN armed' = armed \ Obeying /\ idle' = idle \ Obeying
     ELSE Arm(timeouts_ \cap Obeying, {})

\* Whether some inhibitor counts: of a mapped surface, and under the lock only
\* of a lock surface.
Inhibits(surfaces, mapped, locked) ==
  \E s \in surfaces \cap mapped : locked => s \in LockSurfaces

\* ProtocolManager::UpdateIdleInhibition, with the values after the step.
UpdateIdleInhibition == SetInhibited(Inhibits(inhibitors', mapped_surfaces', idle_locked'))

\* NotifyKeyboard, NotifyPointer and NotifyTouch: the inhibition is settled,
\* then wlr_idle_notifier_v1_notify_activity restarts every notification that
\* is not inhibited, and KdeIdleManager::NotifyActivity every timeout.
NotifyActivity ==
  /\ LET inhibited == Inhibits(inhibitors, mapped_surfaces, idle_locked)
         held == IF inhibited THEN timeouts_ \cap Obeying ELSE {}
     IN  /\ notifier_inhibited' = inhibited
         /\ armed' = timeouts_ \ (held \cup Instant)
         /\ idle' = (timeouts_ \cap Instant) \ held
  /\ UNCHANGED <<timeouts_, inhibitors, mapped_surfaces, idle_locked>>

\* KdeIdleManager::GetIdleTimeout and construct_idle_notification.
GetTimeout(t) ==
  /\ t \notin timeouts_
  /\ timeouts_' = timeouts_ \cup {t}
  /\ IF t \in Obeying /\ notifier_inhibited THEN UNCHANGED <<armed, idle>> ELSE Arm({t}, {})
  /\ UNCHANGED <<notifier_inhibited, inhibitors, mapped_surfaces, idle_locked>>

\* KdeIdleManager::Remove and notification_destroy.
Remove(t) ==
  /\ t \in timeouts_
  /\ timeouts_' = timeouts_ \ {t} /\ armed' = armed \ {t} /\ idle' = idle \ {t}
  /\ UNCHANGED <<notifier_inhibited, inhibitors, mapped_surfaces, idle_locked>>

\* KdeIdleManager::SimulateUserActivity, which restarts only this timeout.
SimulateUserActivity(t) ==
  /\ t \in timeouts_ \cap Kde
  /\ Arm({t}, {t})
  /\ UNCHANGED <<timeouts_, notifier_inhibited, inhibitors, mapped_surfaces, idle_locked>>

\* KdeIdleManager::OnTimer and notification_handle_timer.
OnTimer(t) ==
  /\ t \in armed
  /\ armed' = armed \ {t} /\ idle' = idle \cup {t}
  /\ UNCHANGED <<timeouts_, notifier_inhibited, inhibitors, mapped_surfaces, idle_locked>>

\* manager_handle_create_inhibitor and OnNewIdleInhibitor.
NewIdleInhibitor(s) ==
  /\ s \notin inhibitors
  /\ inhibitors' = inhibitors \cup {s}
  /\ UNCHANGED <<timeouts_, mapped_surfaces, idle_locked>>
  /\ UpdateIdleInhibition

\* idle_inhibitor_v1_destroy, which nobody listens to.
InhibitorDestroyed(s) ==
  /\ s \in inhibitors
  /\ inhibitors' = inhibitors \ {s}
  /\ UNCHANGED <<timeouts_, idle, armed, notifier_inhibited, mapped_surfaces, idle_locked>>

\* A surface maps or unmaps.  UpdateKeyboardFocus and UnmapToplevel look again,
\* but not every surface is a window or takes the focus.
MapSurface(s, looks) ==
  /\ s \in LockSurfaces => idle_locked
  /\ mapped_surfaces' = IF s \in mapped_surfaces THEN mapped_surfaces \ {s}
                        ELSE mapped_surfaces \cup {s}
  /\ UNCHANGED <<timeouts_, inhibitors, idle_locked>>
  /\ IF looks THEN UpdateIdleInhibition ELSE UNCHANGED <<notifier_inhibited, armed, idle>>

\* BeginSessionLock and UnlockSession.
LockSession(locked) ==
  /\ idle_locked # locked
  /\ idle_locked' = locked
  /\ mapped_surfaces' = mapped_surfaces \ LockSurfaces
  /\ UNCHANGED <<timeouts_, inhibitors>>
  /\ UpdateIdleInhibition

IdleNext ==
  \/ \E t \in Timeouts : GetTimeout(t) \/ Remove(t) \/ SimulateUserActivity(t) \/ OnTimer(t)
  \/ \E s \in IdleSurfaces :
       \/ NewIdleInhibitor(s) \/ InhibitorDestroyed(s)
       \/ \E looks \in BOOLEAN : MapSurface(s, looks)
  \/ \E locked \in BOOLEAN : LockSession(locked)
  \/ NotifyActivity

IdleSpec == IdleInit /\ [][IdleNext]_idleVars

(***************************************************************************)
(* Properties.                                                             *)
(***************************************************************************)

\* No wake-up is lost: a timeout is idle, or its timer runs, or it obeys the
\* inhibitors and the notifier is inhibited; and not two of these at once
\* (Arm, notification_reset_timer, wlr_idle_notifier_v1_set_inhibited).
IdleIsNeverLost ==
  \A t \in timeouts_ :
    LET held == t \in Obeying /\ notifier_inhibited
    IN  /\ (t \in idle \/ t \in armed) = ~held
        /\ ~(t \in idle /\ t \in armed)
=============================================================================
