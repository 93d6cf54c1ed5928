-------------------------- MODULE SessionLockProofs --------------------------
(***************************************************************************)
(* For any set of outputs: the session lock is type correct, a confirmed   *)
(* lock hides the desktop, and SessionLock implements LockPromise, whatever *)
(* the outputs, their backends, clients and configurations do.  Only an    *)
(* output that moved, one that left the blank while locked and has not     *)
(* shown it since, is exempt.                                              *)
(***************************************************************************)
EXTENDS SessionLock, TLAPS

\* The output shows the desktop, or will when its commit is presented.
Shows(o) == screen[o] = "desktop" \/ in_flight[o] = "desktop"

\* The blank is up while the session is locked, and only what moved is outside.
Blanked ==
  /\ session_lock => session_locked
  /\ session_locked => session_lock_parent_enabled /\ Outputs \subseteq covered \cup moved

\* Only a connected locker waits for outputs, and for none once confirmed.
Tracking ==
  /\ locked_sent => session_lock /\ \A o \in Outputs : outputs_[o] # "waiting"
  /\ ~session_lock => \A o \in Outputs : outputs_[o] = "untracked"

\* An output that has presented, or that the lock need not wait for, is done
\* with the desktop, and so is a fresh commit.
Draining ==
  session_lock => \A o \in Outputs \ moved :
    /\ outputs_[o] # "waiting" => ~Shows(o)
    /\ o \in fresh => in_flight[o] # "desktop"

\* A disabled output shows nothing.
DisabledIsDark == \A o \in Outputs \ enabled : screen[o] = "off" /\ in_flight[o] = "none"

LockGood == TypeOK /\ Blanked /\ Tracking /\ Draining /\ DisabledIsDark

\* The initial state is good.
LEMMA InitGood == Init => LockGood
<1> SUFFICES ASSUME Init PROVE LockGood
  OBVIOUS
<1>1. TypeOK
  <2>1. plugs \in 0 .. MaxPlugs
    BY PlugsAssumption, SMT DEF Init
  <2>2. /\ session_locked \in BOOLEAN /\ session_lock \in BOOLEAN
        /\ locked_sent \in BOOLEAN /\ session_lock_parent_enabled \in BOOLEAN
    BY Zenon DEF Init
  <2> QED
    BY <2>1, <2>2 DEF Init, TypeOK, Content
<1>2. Blanked /\ Tracking /\ Draining /\ DisabledIsDark
  BY DEF Init, Blanked, Tracking, Draining, DisabledIsDark
<1> QED
  BY <1>1, <1>2 DEF LockGood

\* Locking tracks every enabled output, so nothing is confirmed early.
LEMMA BeginSessionLockGood == ASSUME LockGood, BeginSessionLock PROVE LockGood'
<1>1. TypeOK'
  BY PlugsAssumption DEF LockGood, TypeOK, Content, BeginSessionLock, Track, UpdateSessionLockGeometry, lockVars, outputVars, historyVars
<1>2. Blanked'
  BY DEF LockGood, TypeOK, Blanked, BeginSessionLock, Track, UpdateSessionLockGeometry, lockVars, outputVars, historyVars
<1>3. Tracking'
  BY DEF LockGood, TypeOK, Tracking, BeginSessionLock, Track, UpdateSessionLockGeometry, lockVars, outputVars, historyVars
<1>4. Draining'
  BY DEF LockGood, TypeOK, Blanked, Tracking, Draining, DisabledIsDark, Shows, BeginSessionLock, Track, UpdateSessionLockGeometry, lockVars, outputVars, historyVars
<1>5. DisabledIsDark'
  BY DEF LockGood, TypeOK, DisabledIsDark, BeginSessionLock, Track, UpdateSessionLockGeometry, lockVars, outputVars, historyVars
<1> QED
  BY <1>1, <1>2, <1>3, <1>4, <1>5 DEF LockGood

\* Unlocking forgets what was tracked.
LEMMA UnlockAndDestroyGood == ASSUME LockGood, UnlockAndDestroy PROVE LockGood'
<1>1. TypeOK'
  BY PlugsAssumption, Zenon DEF LockGood, TypeOK, Content, UnlockAndDestroy, lockVars, outputVars, historyVars
<1>2. Blanked'
  BY DEF LockGood, TypeOK, Blanked, UnlockAndDestroy, lockVars, outputVars, historyVars
<1>3. Tracking'
  BY DEF LockGood, TypeOK, Tracking, UnlockAndDestroy, lockVars, outputVars, historyVars
<1>4. Draining'
  BY DEF LockGood, TypeOK, Blanked, Tracking, Draining, DisabledIsDark, Shows, UnlockAndDestroy, lockVars, outputVars, historyVars
<1>5. DisabledIsDark'
  BY DEF LockGood, TypeOK, DisabledIsDark, UnlockAndDestroy, lockVars, outputVars, historyVars
<1> QED
  BY <1>1, <1>2, <1>3, <1>4, <1>5 DEF LockGood

\* A dead locker leaves the session locked and the blank up.
LEMMA LockerGoneGood == ASSUME LockGood, LockerGone PROVE LockGood'
<1>1. TypeOK'
  BY PlugsAssumption, Zenon DEF LockGood, TypeOK, Content, LockerGone, lockVars, outputVars, historyVars
<1>2. Blanked'
  BY DEF LockGood, TypeOK, Blanked, LockerGone, lockVars, outputVars, historyVars
<1>3. Tracking'
  BY DEF LockGood, TypeOK, Tracking, LockerGone, lockVars, outputVars, historyVars
<1>4. Draining'
  BY DEF LockGood, TypeOK, Blanked, Tracking, Draining, DisabledIsDark, Shows, LockerGone, lockVars, outputVars, historyVars
<1>5. DisabledIsDark'
  BY DEF LockGood, TypeOK, DisabledIsDark, LockerGone, lockVars, outputVars, historyVars
<1> QED
  BY <1>1, <1>2, <1>3, <1>4, <1>5 DEF LockGood

\* A new lock surface changes no output.
LEMMA OnNewSurfaceGood == ASSUME LockGood, NEW o \in Outputs, OnNewSurface(o) PROVE LockGood'
<1>1. TypeOK'
  BY PlugsAssumption DEF LockGood, TypeOK, Content, OnNewSurface, lockVars, outputVars, historyVars
<1>2. Blanked'
  BY DEF LockGood, TypeOK, Blanked, OnNewSurface, lockVars, outputVars, historyVars
<1>3. Tracking'
  BY DEF LockGood, TypeOK, Tracking, OnNewSurface, lockVars, outputVars, historyVars
<1>4. Draining'
  BY DEF LockGood, TypeOK, Blanked, Tracking, Draining, DisabledIsDark, Shows, OnNewSurface, lockVars, outputVars, historyVars
<1>5. DisabledIsDark'
  BY DEF LockGood, TypeOK, DisabledIsDark, OnNewSurface, lockVars, outputVars, historyVars
<1> QED
  BY <1>1, <1>2, <1>3, <1>4, <1>5 DEF LockGood

\* A mapped lock surface only asks for a frame.
LEMMA OnMapGood == ASSUME LockGood, NEW o \in Outputs, OnMap(o) PROVE LockGood'
<1>1. TypeOK'
  BY PlugsAssumption DEF LockGood, TypeOK, Content, OnMap, lockVars, outputVars, historyVars
<1>2. Blanked'
  BY DEF LockGood, TypeOK, Blanked, OnMap, lockVars, outputVars, historyVars
<1>3. Tracking'
  BY DEF LockGood, TypeOK, Tracking, OnMap, lockVars, outputVars, historyVars
<1>4. Draining'
  BY DEF LockGood, TypeOK, Blanked, Tracking, Draining, DisabledIsDark, Shows, OnMap, lockVars, outputVars, historyVars
<1>5. DisabledIsDark'
  BY DEF LockGood, TypeOK, DisabledIsDark, OnMap, lockVars, outputVars, historyVars
<1> QED
  BY <1>1, <1>2, <1>3, <1>4, <1>5 DEF LockGood

\* A destroyed lock surface only asks for a frame.
LEMMA OnSurfaceDestroyGood == ASSUME LockGood, NEW o \in Outputs, OnSurfaceDestroy(o) PROVE LockGood'
<1>1. TypeOK'
  BY PlugsAssumption DEF LockGood, TypeOK, Content, OnSurfaceDestroy, lockVars, outputVars, historyVars
<1>2. Blanked'
  BY DEF LockGood, TypeOK, Blanked, OnSurfaceDestroy, lockVars, outputVars, historyVars
<1>3. Tracking'
  BY DEF LockGood, TypeOK, Tracking, OnSurfaceDestroy, lockVars, outputVars, historyVars
<1>4. Draining'
  BY DEF LockGood, TypeOK, Blanked, Tracking, Draining, DisabledIsDark, Shows, OnSurfaceDestroy, lockVars, outputVars, historyVars
<1>5. DisabledIsDark'
  BY DEF LockGood, TypeOK, DisabledIsDark, OnSurfaceDestroy, lockVars, outputVars, historyVars
<1> QED
  BY <1>1, <1>2, <1>3, <1>4, <1>5 DEF LockGood

\* A client that draws only asks for a frame.
LEMMA DamageGood == ASSUME LockGood, NEW o \in Outputs, Damage(o) PROVE LockGood'
<1>1. TypeOK'
  BY PlugsAssumption DEF LockGood, TypeOK, Content, Damage, lockVars, outputVars, historyVars
<1>2. Blanked'
  BY DEF LockGood, TypeOK, Blanked, Damage, lockVars, outputVars, historyVars
<1>3. Tracking'
  BY DEF LockGood, TypeOK, Tracking, Damage, lockVars, outputVars, historyVars
<1>4. Draining'
  BY DEF LockGood, TypeOK, Blanked, Tracking, Draining, DisabledIsDark, Shows, Damage, lockVars, outputVars, historyVars
<1>5. DisabledIsDark'
  BY DEF LockGood, TypeOK, DisabledIsDark, Damage, lockVars, outputVars, historyVars
<1> QED
  BY <1>1, <1>2, <1>3, <1>4, <1>5 DEF LockGood

\* A commit made while locked shows the blank.
LEMMA OnFrameGood == ASSUME LockGood, NEW o \in Outputs, OnFrame(o) PROVE LockGood'
<1>1. TypeOK'
  BY PlugsAssumption DEF LockGood, TypeOK, Content, OnFrame, lockVars, outputVars, historyVars
<1>2. Blanked'
  BY DEF LockGood, TypeOK, Blanked, OnFrame, lockVars, outputVars, historyVars
<1>3. Tracking'
  BY DEF LockGood, TypeOK, Tracking, OnFrame, lockVars, outputVars, historyVars
<1>4. Draining'
  BY DEF LockGood, TypeOK, Blanked, Tracking, Draining, DisabledIsDark, Shows, OnFrame, lockVars, outputVars, historyVars
<1>5. DisabledIsDark'
  BY DEF LockGood, TypeOK, DisabledIsDark, OnFrame, lockVars, outputVars, historyVars
<1> QED
  BY <1>1, <1>2, <1>3, <1>4, <1>5 DEF LockGood

\* A rejected commit shows nothing.
LEMMA OnFrameRejectedGood == ASSUME LockGood, NEW o \in Outputs, OnFrameRejected(o) PROVE LockGood'
<1>1. TypeOK'
  BY PlugsAssumption DEF LockGood, TypeOK, Content, OnFrameRejected, lockVars, outputVars, historyVars
<1>2. Blanked'
  BY DEF LockGood, TypeOK, Blanked, OnFrameRejected, lockVars, outputVars, historyVars
<1>3. Tracking'
  BY DEF LockGood, TypeOK, Tracking, OnFrameRejected, lockVars, outputVars, historyVars
<1>4. Draining'
  BY DEF LockGood, TypeOK, Blanked, Tracking, Draining, DisabledIsDark, Shows, OnFrameRejected, lockVars, outputVars, historyVars
<1>5. DisabledIsDark'
  BY DEF LockGood, TypeOK, DisabledIsDark, OnFrameRejected, lockVars, outputVars, historyVars
<1> QED
  BY <1>1, <1>2, <1>3, <1>4, <1>5 DEF LockGood

\* The last presentation of a fresh commit confirms the lock.
LEMMA OnPresentGood == ASSUME LockGood, NEW o \in Outputs, OnPresent(o) PROVE LockGood'
<1>1. TypeOK'
  BY PlugsAssumption DEF LockGood, TypeOK, Content, OnPresent, MaybeSendLocked, lockVars, outputVars, historyVars
<1>2. Blanked'
  BY DEF LockGood, TypeOK, Blanked, OnPresent, MaybeSendLocked, lockVars, outputVars, historyVars
<1>3. Tracking'
  BY DEF LockGood, TypeOK, Tracking, OnPresent, MaybeSendLocked, lockVars, outputVars, historyVars
<1>4. Draining'
  BY DEF LockGood, TypeOK, Blanked, Tracking, Draining, DisabledIsDark, Shows, OnPresent, MaybeSendLocked, lockVars, outputVars, historyVars
<1>5. DisabledIsDark'
  BY DEF LockGood, TypeOK, DisabledIsDark, OnPresent, MaybeSendLocked, lockVars, outputVars, historyVars
<1> QED
  BY <1>1, <1>2, <1>3, <1>4, <1>5 DEF LockGood

\* A discarded commit is presented nowhere.
LEMMA OnPresentDiscardedGood == ASSUME LockGood, NEW o \in Outputs, OnPresentDiscarded(o) PROVE LockGood'
<1>1. TypeOK'
  BY PlugsAssumption DEF LockGood, TypeOK, Content, OnPresentDiscarded, lockVars, outputVars, historyVars
<1>2. Blanked'
  BY DEF LockGood, TypeOK, Blanked, OnPresentDiscarded, lockVars, outputVars, historyVars
<1>3. Tracking'
  BY DEF LockGood, TypeOK, Tracking, OnPresentDiscarded, lockVars, outputVars, historyVars
<1>4. Draining'
  BY DEF LockGood, TypeOK, Blanked, Tracking, Draining, DisabledIsDark, Shows, OnPresentDiscarded, lockVars, outputVars, historyVars
<1>5. DisabledIsDark'
  BY DEF LockGood, TypeOK, DisabledIsDark, OnPresentDiscarded, lockVars, outputVars, historyVars
<1> QED
  BY <1>1, <1>2, <1>3, <1>4, <1>5 DEF LockGood

\* An output plugged in starts black, and is waited for before the confirmation.
LEMMA OnNewOutputGood == ASSUME LockGood, NEW o \in Outputs, OnNewOutput(o) PROVE LockGood'
<1>1. TypeOK'
  BY PlugsAssumption DEF LockGood, TypeOK, Content, OnNewOutput, Track, UpdateSessionLockGeometry, lockVars, outputVars, historyVars
<1>2. Blanked'
  BY DEF LockGood, TypeOK, Blanked, OnNewOutput, Track, UpdateSessionLockGeometry, lockVars, outputVars, historyVars
<1>3. Tracking'
  BY DEF LockGood, TypeOK, Tracking, OnNewOutput, Track, UpdateSessionLockGeometry, lockVars, outputVars, historyVars
<1>4. Draining'
  BY DEF LockGood, TypeOK, Blanked, Tracking, Draining, DisabledIsDark, Shows, OnNewOutput, Track, UpdateSessionLockGeometry, lockVars, outputVars, historyVars
<1>5. DisabledIsDark'
  BY DEF LockGood, TypeOK, DisabledIsDark, OnNewOutput, Track, UpdateSessionLockGeometry, lockVars, outputVars, historyVars
<1> QED
  BY <1>1, <1>2, <1>3, <1>4, <1>5 DEF LockGood

\* An output that is gone shows nothing, and may confirm the lock.
LEMMA OnOutputDestroyGood == ASSUME LockGood, NEW o \in Outputs, OnOutputDestroy(o) PROVE LockGood'
<1>1. TypeOK'
  BY PlugsAssumption DEF LockGood, TypeOK, Content, OnOutputDestroy, LayoutRemove, LeaveBlank, MaybeSendLocked, lockVars, outputVars, historyVars
<1>2. Blanked'
  BY DEF LockGood, TypeOK, Blanked, OnOutputDestroy, LayoutRemove, LeaveBlank, MaybeSendLocked, lockVars, outputVars, historyVars
<1>3. Tracking'
  BY DEF LockGood, TypeOK, Tracking, OnOutputDestroy, LayoutRemove, LeaveBlank, MaybeSendLocked, lockVars, outputVars, historyVars
<1>4. Draining'
  BY DEF LockGood, TypeOK, Blanked, Tracking, Draining, DisabledIsDark, Shows, OnOutputDestroy, LayoutRemove, LeaveBlank, MaybeSendLocked, lockVars, outputVars, historyVars
<1>5. DisabledIsDark'
  BY DEF LockGood, TypeOK, DisabledIsDark, OnOutputDestroy, LayoutRemove, LeaveBlank, MaybeSendLocked, lockVars, outputVars, historyVars
<1> QED
  BY <1>1, <1>2, <1>3, <1>4, <1>5 DEF LockGood

\* A configuration makes the blank follow.
LEMMA PlaceOutputGood == ASSUME LockGood, NEW o \in Outputs, PlaceOutput(o) PROVE LockGood'
<1>1. TypeOK'
  BY PlugsAssumption DEF LockGood, TypeOK, Content, PlaceOutput, UpdateSessionLockGeometry, lockVars, outputVars, historyVars
<1>2. Blanked'
  BY DEF LockGood, TypeOK, Blanked, PlaceOutput, UpdateSessionLockGeometry, lockVars, outputVars, historyVars
<1>3. Tracking'
  BY DEF LockGood, TypeOK, Tracking, PlaceOutput, UpdateSessionLockGeometry, lockVars, outputVars, historyVars
<1>4. Draining'
  BY DEF LockGood, TypeOK, Blanked, Tracking, Draining, DisabledIsDark, Shows, PlaceOutput, UpdateSessionLockGeometry, lockVars, outputVars, historyVars
<1>5. DisabledIsDark'
  BY DEF LockGood, TypeOK, DisabledIsDark, PlaceOutput, UpdateSessionLockGeometry, lockVars, outputVars, historyVars
<1> QED
  BY <1>1, <1>2, <1>3, <1>4, <1>5 DEF LockGood

\* An output powered off shows nothing.
LEMMA PowerOffGood == ASSUME LockGood, NEW o \in Outputs, PowerOff(o) PROVE LockGood'
<1>1. TypeOK'
  BY PlugsAssumption DEF LockGood, TypeOK, Content, PowerOff, UpdateSessionLockGeometry, lockVars, outputVars, historyVars
<1>2. Blanked'
  BY DEF LockGood, TypeOK, Blanked, PowerOff, UpdateSessionLockGeometry, lockVars, outputVars, historyVars
<1>3. Tracking'
  BY DEF LockGood, TypeOK, Tracking, PowerOff, UpdateSessionLockGeometry, lockVars, outputVars, historyVars
<1>4. Draining'
  BY DEF LockGood, TypeOK, Blanked, Tracking, Draining, DisabledIsDark, Shows, PowerOff, UpdateSessionLockGeometry, lockVars, outputVars, historyVars
<1>5. DisabledIsDark'
  BY DEF LockGood, TypeOK, DisabledIsDark, PowerOff, UpdateSessionLockGeometry, lockVars, outputVars, historyVars
<1> QED
  BY <1>1, <1>2, <1>3, <1>4, <1>5 DEF LockGood

\* An output powered on starts black.
LEMMA PowerOnGood == ASSUME LockGood, NEW o \in Outputs, PowerOn(o) PROVE LockGood'
<1>1. TypeOK'
  BY PlugsAssumption DEF LockGood, TypeOK, Content, PowerOn, UpdateSessionLockGeometry, lockVars, outputVars, historyVars
<1>2. Blanked'
  BY DEF LockGood, TypeOK, Blanked, PowerOn, UpdateSessionLockGeometry, lockVars, outputVars, historyVars
<1>3. Tracking'
  BY DEF LockGood, TypeOK, Tracking, PowerOn, UpdateSessionLockGeometry, lockVars, outputVars, historyVars
<1>4. Draining'
  BY DEF LockGood, TypeOK, Blanked, Tracking, Draining, DisabledIsDark, Shows, PowerOn, UpdateSessionLockGeometry, lockVars, outputVars, historyVars
<1>5. DisabledIsDark'
  BY DEF LockGood, TypeOK, DisabledIsDark, PowerOn, UpdateSessionLockGeometry, lockVars, outputVars, historyVars
<1> QED
  BY <1>1, <1>2, <1>3, <1>4, <1>5 DEF LockGood

\* What a mode moves from under the blank has moved.
LEMMA BackendResizeGood == ASSUME LockGood, NEW o \in Outputs, BackendResize(o) PROVE LockGood'
<1>1. TypeOK'
  BY PlugsAssumption DEF LockGood, TypeOK, Content, BackendResize, UpdateSessionLockGeometry, LeaveBlank, lockVars, outputVars, historyVars
<1>2. Blanked'
  BY DEF LockGood, TypeOK, Blanked, BackendResize, UpdateSessionLockGeometry, LeaveBlank, lockVars, outputVars, historyVars
<1>3. Tracking'
  BY DEF LockGood, TypeOK, Tracking, BackendResize, UpdateSessionLockGeometry, LeaveBlank, lockVars, outputVars, historyVars
<1>4. Draining'
  BY DEF LockGood, TypeOK, Blanked, Tracking, Draining, DisabledIsDark, Shows, BackendResize, UpdateSessionLockGeometry, LeaveBlank, lockVars, outputVars, historyVars
<1>5. DisabledIsDark'
  BY DEF LockGood, TypeOK, DisabledIsDark, BackendResize, UpdateSessionLockGeometry, LeaveBlank, lockVars, outputVars, historyVars
<1> QED
  BY <1>1, <1>2, <1>3, <1>4, <1>5 DEF LockGood

\* A step of any event keeps the invariant.
LEMMA NextGood == ASSUME LockGood, [Next]_vars PROVE LockGood'
<1>1. CASE UNCHANGED vars
  BY <1>1 DEF vars, lockVars, outputVars, historyVars, LockGood, TypeOK, Blanked, Tracking, Draining,
              DisabledIsDark, Shows
<1>2. CASE BeginSessionLock \/ UnlockAndDestroy \/ LockerGone
  BY <1>2, BeginSessionLockGood, UnlockAndDestroyGood, LockerGoneGood
<1>3. ASSUME NEW o \in Outputs, OutputNext(o) PROVE LockGood'
  <2>1. CASE OnNewSurface(o) \/ OnMap(o) \/ OnSurfaceDestroy(o)
    BY <2>1, OnNewSurfaceGood, OnMapGood, OnSurfaceDestroyGood
  <2>2. CASE Damage(o) \/ OnFrame(o) \/ OnFrameRejected(o) \/ OnPresent(o)
            \/ OnPresentDiscarded(o)
    BY <2>2, DamageGood, OnFrameGood, OnFrameRejectedGood, OnPresentGood, OnPresentDiscardedGood
  <2>3. CASE OnNewOutput(o) \/ OnOutputDestroy(o) \/ PlaceOutput(o)
    BY <2>3, OnNewOutputGood, OnOutputDestroyGood, PlaceOutputGood
  <2>4. CASE PowerOff(o) \/ PowerOn(o) \/ BackendResize(o)
    BY <2>4, PowerOffGood, PowerOnGood, BackendResizeGood
  <2> QED
    BY <1>3, <2>1, <2>2, <2>3, <2>4 DEF OutputNext
<1> QED
  BY <1>1, <1>2, <1>3 DEF Next

\* The invariant holds of every behaviour.
THEOREM LockStaysGood == Spec => []LockGood
<1>1. Init => LockGood
  BY InitGood
<1>2. LockGood /\ [Next]_vars => LockGood'
  BY NextGood
<1> QED
  BY <1>1, <1>2, PTL DEF Spec

\* After "locked" was sent no output shows the desktop, nor is about to, unless
\* it left the blank, for any number of outputs and any events
\* (MaybeSendLocked, OutputPresentation::OnPresent).
THEOREM LockedHides == Spec => []LockedMeansHidden
<1>1. LockGood => LockedMeansHidden
  BY Zenon DEF LockGood, Blanked, Tracking, Draining, Shows, LockedMeansHidden
<1> QED
  BY <1>1, LockStaysGood, PTL

\* While the session is locked the blank is up and covers every output that did
\* not leave it by a mode of its backend or an unplugged placed output
\* (BeginSessionLock, FinishSessionLock, UpdateSessionLockGeometry).
THEOREM BlankStays == Spec => []BlankCoversOutputs
<1>1. LockGood => BlankCoversOutputs
  BY DEF LockGood, TypeOK, Blanked, BlankCoversOutputs
<1> QED
  BY <1>1, LockStaysGood, PTL

\* A request is a Request of the promise.
LEMMA RequestRefines == ASSUME LockGood, LockGood', BeginSessionLock PROVE Promise!Request
<1>1. phase \in {"unlocked", "orphaned"}
  BY DEF BeginSessionLock, phase
<1>2. /\ screen' = screen /\ in_flight' = in_flight /\ moved' = moved
      /\ session_locked' /\ session_lock'
  BY DEF BeginSessionLock
<1>3. hidden => hidden'
  BY <1>2 DEF hidden
<1>4. (hidden' => exposed' = {}) /\ exposed' \subseteq Outputs
  BY DEF hidden, exposed
<1>5. locked_sent' => hidden'
  BY <1>2 DEF LockGood, Blanked, Tracking, Draining, Shows, hidden
<1>6. phase' \in {"locking"} \cup {p \in {"locked"} : hidden'}
  BY <1>2, <1>5 DEF phase
<1> QED
  BY <1>1, <1>3, <1>4, <1>6 DEF Promise!Request

\* Unlocking is an Unlock of the promise.
LEMMA UnlockRefines == ASSUME LockGood, UnlockAndDestroy PROVE Promise!Unlock
<1>1. phase = "locked" /\ phase' = "unlocked" /\ hidden' = FALSE
  BY DEF LockGood, Blanked, UnlockAndDestroy, phase, hidden
<1>2. exposed' = exposed
  BY DEF UnlockAndDestroy, exposed
<1> QED
  BY <1>1, <1>2 DEF Promise!Unlock

\* The end of the locker is a Die of the promise.
LEMMA DieRefines == ASSUME LockGood, LockerGone PROVE Promise!Die
<1>1. phase \in {"locking", "locked"} /\ phase' = "orphaned"
  BY DEF LockGood, Blanked, LockerGone, phase
<1>2. exposed' = exposed /\ hidden' = hidden
  BY DEF LockGood, Blanked, LockerGone, exposed, hidden
<1> QED
  BY <1>1, <1>2 DEF Promise!Die

\* What outputs do neither takes back a confirmation nor shows the desktop on
\* a blanked one.
LEMMA OutputKeeps ==
  ASSUME LockGood, NEW o \in Outputs, OutputNext(o)
  PROVE  /\ session_locked' = session_locked /\ session_lock' = session_lock
         /\ locked_sent => locked_sent'
         /\ session_locked => \A p \in Outputs \ moved' :
              /\ in_flight'[p] = "desktop" => p \notin moved /\ in_flight[p] = "desktop"
              /\ screen'[p] = "desktop" => p \notin moved /\ Shows(p)
<1> USE DEF historyVars
<1>1. CASE OnNewSurface(o) \/ OnMap(o) \/ OnSurfaceDestroy(o) \/ Damage(o)
  BY <1>1 DEF OnNewSurface, OnMap, OnSurfaceDestroy, Damage, lockVars, outputVars, Shows
<1>2. CASE OnFrame(o) \/ OnFrameRejected(o)
  BY <1>2 DEF OnFrame, OnFrameRejected, lockVars, LockGood, TypeOK, Blanked, Shows
<1>3. CASE OnPresent(o)
  BY <1>3 DEF OnPresent, MaybeSendLocked, LockGood, TypeOK, Shows
<1>4. CASE OnPresentDiscarded(o)
  BY <1>4 DEF OnPresentDiscarded, lockVars, LockGood, TypeOK, Shows
<1>5. CASE OnNewOutput(o)
  BY <1>5 DEF OnNewOutput, lockVars, LockGood, TypeOK, Shows
<1>6. CASE OnOutputDestroy(o)
  BY <1>6 DEF OnOutputDestroy, LayoutRemove, LeaveBlank, MaybeSendLocked, LockGood, TypeOK, Shows
<1>7. CASE PowerOff(o)
  BY <1>7 DEF PowerOff, lockVars, LockGood, TypeOK, Shows
<1>8. CASE PowerOn(o)
  BY <1>8 DEF PowerOn, lockVars, LockGood, TypeOK, Shows
<1>9. CASE PlaceOutput(o) \/ BackendResize(o)
  BY <1>9 DEF PlaceOutput, BackendResize, LeaveBlank, lockVars, LockGood, TypeOK, Shows
<1> QED
  BY <1>1, <1>2, <1>3, <1>4, <1>5, <1>6, <1>7, <1>8, <1>9 DEF OutputNext

\* Every step of an output is a Draw of the promise.
LEMMA DrawRefines ==
  ASSUME LockGood, LockGood', NEW o \in Outputs, OutputNext(o)
  PROVE  Promise!Draw
<1>1. hidden => hidden'
  BY OutputKeeps, Zenon DEF hidden, Shows
<1>2. hidden' => phase # "unlocked" /\ exposed' = {}
  BY OutputKeeps, Zenon DEF hidden, phase, exposed
<1>3. exposed' \subseteq Outputs
  BY DEF exposed
<1>4. session_lock' /\ locked_sent' => hidden'
  BY DEF LockGood, Blanked, Tracking, Draining, Shows, hidden
<1>5. phase' = phase \/ (phase = "locking" /\ phase' = "locked" /\ hidden')
  BY <1>4, OutputKeeps DEF phase
<1> QED
  BY <1>1, <1>2, <1>3, <1>5 DEF Promise!Draw

\* SessionLock implements LockPromise: a confirmed lock hides the desktop until
\* its client unlocks, also across a crash of the locker, on every output that
\* does not leave the blank, for any number of outputs and any events.
THEOREM LockKeepsPromise == Spec => KeepsPromise
<1>1. Init => Promise!Init
  BY DEF Init, Promise!Init, phase, hidden, exposed
<1>2. LockGood /\ LockGood' /\ [Next]_vars => [Promise!Next]_(Promise!vars)
  <2> SUFFICES ASSUME LockGood, LockGood', [Next]_vars
               PROVE  [Promise!Next]_(Promise!vars)
    OBVIOUS
  <2>1. CASE UNCHANGED vars
    BY <2>1 DEF vars, lockVars, outputVars, historyVars, Promise!vars, phase, hidden, exposed
  <2>2. CASE BeginSessionLock
    BY <2>2, RequestRefines DEF Promise!Next
  <2>3. CASE UnlockAndDestroy
    BY <2>3, UnlockRefines DEF Promise!Next
  <2>4. CASE LockerGone
    BY <2>4, DieRefines DEF Promise!Next
  <2>5. ASSUME NEW o \in Outputs, OutputNext(o) PROVE Promise!Next
    BY <2>5, DrawRefines DEF Promise!Next
  <2> QED
    BY <2>1, <2>2, <2>3, <2>4, <2>5 DEF Next
<1> QED
  BY <1>1, <1>2, LockStaysGood, PTL DEF Spec, KeepsPromise, Promise!Spec

=============================================================================
