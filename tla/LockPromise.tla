----------------------------- MODULE LockPromise -----------------------------
(***************************************************************************)
(* What ext-session-lock promises its client, whatever the compositor does *)
(* inside: once "locked" is confirmed no output shows the desktop, and it  *)
(* stays so until the client itself unlocks, even if the client dies and   *)
(* another takes over.                                                     *)
(***************************************************************************)
CONSTANT Outputs

VARIABLES
  phase,    \* unlocked, locking (requested), locked (confirmed), orphaned
  hidden,   \* no output can show the desktop any more
  exposed   \* the outputs that show the desktop

vars == <<phase, hidden, exposed>>

Init ==
  /\ phase = "unlocked"
  /\ hidden = FALSE
  /\ exposed \subseteq Outputs

Request ==
  /\ phase \in {"unlocked", "orphaned"}
  /\ phase' \in {"locking"} \cup {p \in {"locked"} : hidden'}
  /\ hidden => hidden'
  /\ hidden' => exposed' = {}
  /\ exposed' \subseteq Outputs

\* Frames reach the screens; the promise only ever gets firmer.
Draw ==
  /\ phase' = phase \/ (phase = "locking" /\ phase' = "locked" /\ hidden')
  /\ hidden => hidden'
  /\ hidden' => phase # "unlocked" /\ exposed' = {}
  /\ exposed' \subseteq Outputs

Die ==
  /\ phase \in {"locking", "locked"}
  /\ phase' = "orphaned"
  /\ UNCHANGED <<hidden, exposed>>

Unlock ==
  /\ phase = "locked"
  /\ phase' = "unlocked"
  /\ hidden' = FALSE
  /\ UNCHANGED exposed

Next == Request \/ Draw \/ Die \/ Unlock

Spec == Init /\ [][Next]_vars
=============================================================================
