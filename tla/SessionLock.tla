----------------------------- MODULE SessionLock -----------------------------
(***************************************************************************)
(* Locking the session: ProtocolManager::BeginSessionLock and the class    *)
(* SessionLockState, with its OutputPresentation per tracked output and    *)
(* its Surface per lock surface.  The compositor blanks the outputs,       *)
(* waits until every enabled one has presented a frame committed after the *)
(* lock began, and then confirms with the "locked" event.                  *)
(*                                                                         *)
(* Outputs render through the scene: a frame event commits what the scene  *)
(* shows, and the backend presents (or discards) the commit later, so a    *)
(* desktop frame may still be in flight when the lock begins.  Commit      *)
(* sequence numbers only ever matter relative to minimum_commit_seq_, so   *)
(* fresh is the set of outputs whose commit in flight is at least that.    *)
(***************************************************************************)
EXTENDS Naturals, TLC

CONSTANTS
  Outputs,    \* monitors that may be plugged in
  MaxPlugs,   \* bound on how often a monitor is plugged in or powered on
  Events      \* the optional events of this instance

ASSUME PlugsAssumption == MaxPlugs \in Nat

Content == {"desktop", "blank", "locked"}

VARIABLES
  session_locked,
  session_lock,     \* a lock client is connected
  locked_sent,
  session_lock_parent_enabled,
  outputs_,         \* per output: untracked, waiting or presented
  connected,
  enabled,
  needs_frame,
  in_flight,        \* per output: what the commit in flight shows, or none
  fresh,
  screen,           \* per output: what it shows, or off
  manual,           \* outputs that a configuration placed; the others follow them
  covered,          \* outputs the blank rectangle covers completely
  moved,            \* history: outputs that left the blank and have not shown it since
  dropped,          \* history: outputs waited for whose last commit failed
  surfaces_,        \* per output: the lock surface: none, created or mapped
  plugs

lockVars == <<session_locked, session_lock, locked_sent, session_lock_parent_enabled>>
outputVars == <<outputs_, connected, enabled, needs_frame, in_flight, fresh, screen, plugs>>
historyVars == <<moved, dropped>>
vars == <<lockVars, outputVars, manual, covered, historyVars, surfaces_>>

TypeOK ==
  /\ session_locked \in BOOLEAN /\ session_lock \in BOOLEAN
  /\ locked_sent \in BOOLEAN /\ session_lock_parent_enabled \in BOOLEAN
  /\ outputs_ \in [Outputs -> {"untracked", "waiting", "presented"}]
  /\ connected \subseteq Outputs /\ enabled \subseteq connected
  /\ needs_frame \subseteq Outputs /\ fresh \subseteq Outputs /\ covered \subseteq Outputs
  /\ manual \subseteq connected /\ moved \subseteq Outputs /\ dropped \subseteq Outputs
  /\ in_flight \in [Outputs -> Content \cup {"none"}]
  /\ screen \in [Outputs -> Content \cup {"off"}]
  /\ surfaces_ \in [Outputs -> {"none", "created", "mapped"}]
  /\ plugs \in 0 .. MaxPlugs

Init ==
  /\ session_locked = FALSE /\ session_lock = FALSE
  /\ locked_sent = FALSE /\ session_lock_parent_enabled = FALSE
  /\ outputs_ = [o \in Outputs |-> "untracked"]
  /\ connected = Outputs /\ enabled = Outputs
  /\ needs_frame = {} /\ fresh = {} /\ covered = {}
  /\ manual = {} /\ moved = {} /\ dropped = {}
  /\ in_flight = [o \in Outputs |-> "none"]
  /\ screen = [o \in Outputs |-> "desktop"]
  /\ surfaces_ = [o \in Outputs |-> "none"]
  /\ plugs = 0

(***************************************************************************)
(* The lock itself.                                                        *)
(***************************************************************************)

\* MaybeSendLocked, given the outputs_ that the handler leaves.
MaybeSendLocked(tracked) ==
  locked_sent' = (locked_sent \/ (session_lock /\ \A o \in Outputs : tracked[o] # "waiting"))

\* Mutant: the frame already in flight counts as presented after the lock.
Faulty_Track(new, tracked) ==
  /\ outputs_' = [o \in Outputs |-> IF o \in new THEN "waiting" ELSE tracked[o]]
  /\ fresh' = fresh \cup new
  /\ dropped' = dropped \ new

\* SessionLockState::AddOutput for the outputs in new: a presentation counts
\* from the next commit on.
Track(new, tracked) ==
  /\ outputs_' = [o \in Outputs |-> IF o \in new THEN "waiting" ELSE tracked[o]]
  /\ fresh' = fresh \ new
  /\ dropped' = dropped \ new

\* Mutant: the blank keeps its size.
Faulty_UpdateSessionLockGeometry(changed) == covered' = covered \ changed

\* UpdateSessionLockGeometry, after the outputs in changed got a new place or
\* size in the layout: the blank takes the extent of the layout.
UpdateSessionLockGeometry(changed) == covered' = Outputs

\* The outputs in away leave the blank: nothing resizes it.
LeaveBlank(away) ==
  /\ covered' = covered \ away
  /\ moved' = IF session_locked THEN moved \cup away ELSE moved

\* A second locker is refused with "finished" and changes nothing.
BeginSessionLock ==
  /\ ~session_lock
  /\ session_locked' = TRUE /\ session_lock' = TRUE
  /\ locked_sent' = (enabled = {})
  /\ session_lock_parent_enabled' = TRUE
  /\ Track(enabled, [o \in Outputs |-> "untracked"])
  /\ needs_frame' = needs_frame \cup enabled
  /\ UpdateSessionLockGeometry(Outputs)
  /\ UNCHANGED <<connected, enabled, in_flight, screen, surfaces_, plugs, manual, moved>>

\* OnUnlock and then OnDestroy, in one request that wlroots accepts only after
\* "locked" was sent: UnlockSession, FinishSessionLock(true).
UnlockAndDestroy ==
  /\ session_lock /\ locked_sent
  /\ session_locked' = FALSE /\ session_lock' = FALSE /\ locked_sent' = FALSE
  /\ session_lock_parent_enabled' = FALSE
  /\ outputs_' = [o \in Outputs |-> "untracked"]
  /\ surfaces_' = [o \in Outputs |-> "none"]
  /\ needs_frame' = needs_frame \cup enabled
  /\ dropped' = {}
  /\ UNCHANGED <<connected, enabled, in_flight, fresh, screen, covered, plugs, manual, moved>>

\* Mutant: the session is unlocked with its locker.
Faulty_LockerGone ==
  /\ session_lock
  /\ session_lock' = FALSE /\ session_locked' = FALSE
  /\ locked_sent' = FALSE /\ session_lock_parent_enabled' = FALSE
  /\ outputs_' = [o \in Outputs |-> "untracked"]
  /\ surfaces_' = [o \in Outputs |-> "none"]
  /\ needs_frame' = needs_frame \cup enabled
  /\ dropped' = {}
  /\ UNCHANGED <<connected, enabled, in_flight, fresh, screen, covered, plugs, manual, moved>>

\* FinishSessionLock(false): the locker died; the blank stays.
LockerGone ==
  /\ session_lock
  /\ session_lock' = FALSE /\ session_locked' = TRUE
  /\ locked_sent' = FALSE /\ session_lock_parent_enabled' = TRUE
  /\ outputs_' = [o \in Outputs |-> "untracked"]
  /\ surfaces_' = [o \in Outputs |-> "none"]
  /\ needs_frame' = needs_frame \cup enabled
  /\ dropped' = {}
  /\ UNCHANGED <<connected, enabled, in_flight, fresh, screen, covered, plugs, manual, moved>>

(***************************************************************************)
(* Lock surfaces.                                                          *)
(***************************************************************************)
OnNewSurface(o) ==
  /\ "surface" \in Events
  /\ session_lock /\ o \in connected /\ surfaces_[o] = "none"
  /\ surfaces_' = [surfaces_ EXCEPT ![o] = "created"]
  /\ UNCHANGED <<lockVars, outputVars, manual, covered, historyVars>>

OnMap(o) ==
  /\ surfaces_[o] = "created"
  /\ surfaces_' = [surfaces_ EXCEPT ![o] = "mapped"]
  /\ needs_frame' = needs_frame \cup ({o} \cap enabled)
  /\ UNCHANGED <<lockVars, outputs_, connected, enabled, in_flight, fresh, screen, plugs,
                 manual, covered, historyVars>>

OnSurfaceDestroy(o) ==
  /\ surfaces_[o] # "none"
  /\ surfaces_' = [surfaces_ EXCEPT ![o] = "none"]
  /\ needs_frame' = needs_frame \cup ({o} \cap enabled)
  /\ UNCHANGED <<lockVars, outputs_, connected, enabled, in_flight, fresh, screen, plugs,
                 manual, covered, historyVars>>

(***************************************************************************)
(* Outputs.                                                                *)
(***************************************************************************)

\* A client draws on the desktop.
Damage(o) ==
  /\ o \in enabled \ needs_frame
  /\ needs_frame' = needs_frame \cup {o}
  /\ UNCHANGED <<lockVars, outputs_, connected, enabled, in_flight, fresh, screen, plugs,
                 manual, covered, historyVars, surfaces_>>

\* Output::OnFrame: one commit at a time is in flight.  The blank hides the
\* desktop where it covers the output.
OnFrame(o) ==
  /\ o \in enabled \cap needs_frame /\ in_flight[o] = "none"
  /\ in_flight' = [in_flight EXCEPT ![o] =
                     IF session_lock_parent_enabled /\ o \in covered THEN "locked"
                     ELSE "desktop"]
  /\ fresh' = fresh \cup {o}
  /\ needs_frame' = needs_frame \ {o}
  /\ dropped' = dropped \ {o}
  /\ UNCHANGED <<lockVars, outputs_, connected, enabled, screen, plugs, manual, covered, moved,
                 surfaces_>>

\* Output::OnFrame when the commit fails: the output waits for the next damage.
OnFrameRejected(o) ==
  /\ "discard" \in Events
  /\ o \in enabled \cap needs_frame /\ in_flight[o] = "none"
  /\ needs_frame' = needs_frame \ {o}
  /\ dropped' = dropped \cup {p \in {o} : outputs_[p] = "waiting"}
  /\ UNCHANGED <<lockVars, outputs_, connected, enabled, in_flight, fresh, screen, plugs,
                 manual, covered, moved, surfaces_>>

\* OutputPresentation::OnPresent with event->presented.
OnPresent(o) ==
  /\ in_flight[o] # "none"
  /\ screen' = [screen EXCEPT ![o] = in_flight[o]]
  /\ in_flight' = [in_flight EXCEPT ![o] = "none"]
  /\ outputs_' = [outputs_ EXCEPT ![o] =
                    IF @ = "waiting" /\ o \in fresh THEN "presented" ELSE @]
  /\ MaybeSendLocked(outputs_')
  /\ moved' = IF o \in covered /\ in_flight[o] # "desktop" THEN moved \ {o} ELSE moved
  /\ UNCHANGED <<session_locked, session_lock, session_lock_parent_enabled, connected,
                 enabled, needs_frame, fresh, plugs, manual, covered, dropped, surfaces_>>

\* The backend drops the commit: event->presented is false.
OnPresentDiscarded(o) ==
  /\ "discard" \in Events
  /\ in_flight[o] # "none"
  /\ in_flight' = [in_flight EXCEPT ![o] = "none"]
  /\ dropped' = dropped \cup {p \in {o} : outputs_[p] = "waiting"}
  /\ UNCHANGED <<lockVars, outputs_, connected, enabled, needs_frame, fresh, screen, plugs,
                 manual, covered, moved, surfaces_>>

\* OnNewOutput and ProtocolManager::AddOutput: the mode set shows black, and
\* UpdateOutputs resizes the blank.
OnNewOutput(o) ==
  /\ "hotplug" \in Events
  /\ o \notin connected /\ plugs < MaxPlugs
  /\ plugs' = plugs + 1
  /\ connected' = connected \cup {o} /\ enabled' = enabled \cup {o}
  /\ needs_frame' = needs_frame \cup {o}
  /\ in_flight' = [in_flight EXCEPT ![o] = "blank"]
  /\ IF session_lock /\ ~locked_sent THEN Track({o}, outputs_)
     ELSE fresh' = fresh \ {o} /\ UNCHANGED <<outputs_, dropped>>
  /\ UpdateSessionLockGeometry({o})
  /\ UNCHANGED <<lockVars, screen, manual, moved, surfaces_>>

\* output_layout_reconfigure after o is gone: the outputs that were placed stay,
\* the others line up to the right of them, from the origin if there is none.
\* Without o in their line they come closer, within the blank; without the
\* placed output they lined up with, they may be anywhere.
LayoutRemove(o) ==
  /\ manual' = manual \ {o}
  /\ \E away \in IF o \in manual THEN SUBSET (connected \ (manual \cup {o})) ELSE {{}} :
       LeaveBlank(away)

\* Mutant: the lock goes on waiting for an output that is gone.
Faulty_OnOutputDestroy(o) ==
  /\ "hotplug" \in Events
  /\ o \in connected
  /\ connected' = connected \ {o} /\ enabled' = enabled \ {o}
  /\ needs_frame' = needs_frame \ {o}
  /\ in_flight' = [in_flight EXCEPT ![o] = "none"]
  /\ screen' = [screen EXCEPT ![o] = "off"]
  /\ surfaces_' = [surfaces_ EXCEPT ![o] = "none"]
  /\ dropped' = dropped \ {o}
  /\ LayoutRemove(o)
  /\ UNCHANGED <<lockVars, outputs_, fresh, plugs>>

\* Output::OnDestroy and OutputPresentation::OnDestroy: an output that is gone
\* holds nothing up.  wlroots takes it out of the layout and destroys its lock
\* surface; neither handler updates the blank.
OnOutputDestroy(o) ==
  /\ "hotplug" \in Events
  /\ o \in connected
  /\ connected' = connected \ {o} /\ enabled' = enabled \ {o}
  /\ needs_frame' = needs_frame \ {o}
  /\ in_flight' = [in_flight EXCEPT ![o] = "none"]
  /\ screen' = [screen EXCEPT ![o] = "off"]
  /\ surfaces_' = [surfaces_ EXCEPT ![o] = "none"]
  /\ outputs_' = [outputs_ EXCEPT ![o] = "untracked"]
  /\ MaybeSendLocked(outputs_')
  /\ dropped' = dropped \ {o}
  /\ LayoutRemove(o)
  /\ UNCHANGED <<session_locked, session_lock, session_lock_parent_enabled, fresh, plugs>>

\* ApplyOutputConfiguration, and KDE's, place an output; UpdateOutputs resizes
\* the blank.
PlaceOutput(o) ==
  /\ "place" \in Events
  /\ o \in connected
  /\ manual' = manual \cup {o}
  /\ needs_frame' = needs_frame \cup enabled
  /\ UpdateSessionLockGeometry(Outputs)
  /\ UNCHANGED <<lockVars, outputs_, connected, enabled, in_flight, fresh, screen, plugs,
                 historyVars, surfaces_>>

\* OnOutputPower, and an output configuration that disables the output.
PowerOff(o) ==
  /\ "power" \in Events
  /\ o \in enabled
  /\ enabled' = enabled \ {o}
  /\ needs_frame' = needs_frame \ {o}
  /\ in_flight' = [in_flight EXCEPT ![o] = "none"]
  /\ screen' = [screen EXCEPT ![o] = "off"]
  /\ UpdateSessionLockGeometry({o})
  /\ UNCHANGED <<lockVars, outputs_, connected, fresh, plugs, manual, historyVars, surfaces_>>

\* The mode set is a commit of its own, and black.
PowerOn(o) ==
  /\ "power" \in Events
  /\ o \in connected \ enabled /\ plugs < MaxPlugs
  /\ plugs' = plugs + 1
  /\ enabled' = enabled \cup {o}
  /\ needs_frame' = needs_frame \cup {o}
  /\ in_flight' = [in_flight EXCEPT ![o] = "blank"]
  /\ fresh' = fresh \cup {o}
  /\ dropped' = dropped \ {o}
  /\ UpdateSessionLockGeometry({o})
  /\ UNCHANGED <<lockVars, outputs_, connected, screen, manual, moved, surfaces_>>

\* Output::OnRequestState and ApplyDeferredMode: the backend changes the mode,
\* which moves the outputs next to it.  Only a lock surface on the output makes
\* the blank follow (Surface::OnOutputCommit).
BackendResize(o) ==
  /\ "backend_resize" \in Events
  /\ o \in enabled
  /\ needs_frame' = needs_frame \cup {o}
  /\ \E changed \in SUBSET Outputs :
       /\ o \in changed
       /\ IF surfaces_[o] # "none" THEN UpdateSessionLockGeometry(changed) /\ UNCHANGED moved
          ELSE LeaveBlank(changed)
  /\ UNCHANGED <<lockVars, outputs_, connected, enabled, in_flight, fresh, screen, plugs,
                 manual, dropped, surfaces_>>

OutputNext(o) ==
  \/ OnNewSurface(o) \/ OnMap(o) \/ OnSurfaceDestroy(o)
  \/ Damage(o) \/ OnFrame(o) \/ OnFrameRejected(o) \/ OnPresent(o) \/ OnPresentDiscarded(o)
  \/ OnNewOutput(o) \/ OnOutputDestroy(o) \/ PlaceOutput(o)
  \/ PowerOff(o) \/ PowerOn(o) \/ BackendResize(o)

Next ==
  \/ BeginSessionLock \/ UnlockAndDestroy \/ LockerGone
  \/ \E o \in Outputs : OutputNext(o)

Spec == Init /\ [][Next]_vars

\* The backend sends frame events to an output that needs a frame and has no
\* commit in flight, and says of every commit whether it was presented; clients
\* need not do anything.  Both may fail: OnFrameRejected and OnPresentDiscarded
\* take the place of the step that is due.
Fairness == \A o \in Outputs : WF_vars(OnFrame(o)) /\ WF_vars(OnPresent(o))

FairSpec == Spec /\ Fairness

\* The outputs are interchangeable: nothing depends on their order.
OutputSymmetry == Permutations(Outputs)

(***************************************************************************)
(* Properties.  An output in moved has left the blank while the session    *)
(* was locked, with a mode that its backend changed or an output placed by *)
(* hand that was unplugged, and has not presented a frame under the blank  *)
(* since: it may show the desktop.                                         *)
(***************************************************************************)

\* After "locked" was sent no output shows the desktop, nor is about to, unless
\* it left the blank (OutputPresentation's minimum_commit_seq_, MaybeSendLocked).
LockedMeansHidden ==
  session_lock /\ locked_sent =>
    \A o \in Outputs \ moved : screen[o] # "desktop" /\ in_flight[o] # "desktop"

\* While the session is locked the blank is enabled and covers every output,
\* across hotplug, power, configurations and a crash of the locker, but for those
\* that left it in one of the two ways that do not resize it
\* (BeginSessionLock, FinishSessionLock, UpdateSessionLockGeometry).
BlankCoversOutputs ==
  session_locked => session_lock_parent_enabled /\ enabled \subseteq covered \cup moved

\* An output that the lock waits for and that is powered off, or whose last commit
\* failed: nothing but its user or new damage goes on.
HeldUp == \E o \in connected : outputs_[o] = "waiting" /\ (o \notin enabled \/ o \in dropped)

\* A lock request is answered: "locked" is sent or its client goes, unless an output
\* holds it up; one that is unplugged does not
\* (MaybeSendLocked on every presentation and on every output that goes).
LockIsAnswered ==
  session_lock /\ ~locked_sent ~> locked_sent \/ ~session_lock \/ HeldUp

phase ==
  IF ~session_locked THEN "unlocked"
  ELSE IF ~session_lock THEN "orphaned"
  ELSE IF locked_sent THEN "locked" ELSE "locking"

exposed == {o \in Outputs \ moved : screen[o] = "desktop"}

hidden ==
  session_locked /\ \A o \in Outputs \ moved :
                      screen[o] # "desktop" /\ in_flight[o] # "desktop"

Promise == INSTANCE LockPromise WITH phase <- phase, hidden <- hidden, exposed <- exposed

\* The lock keeps the promise of LockPromise: a confirmed lock hides the desktop
\* until its client unlocks, also across a crash of the locker, on every output
\* that does not leave the blank.
KeepsPromise == Promise!Spec
=============================================================================
