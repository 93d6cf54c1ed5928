---------------------------- MODULE SeatServices ----------------------------
(***************************************************************************)
(* The services of the seat beside focus and keys: blocked shortcuts,      *)
(* gestures, idle notification, the persistent clipboard and input         *)
(* methods.  They share no state in the code either: each is told of its   *)
(* own events.  So what holds of one holds whatever the others do, and a   *)
(* behaviour below follows one of them, chosen at the start.               *)
(***************************************************************************)
EXTENDS ShortcutBlocks, Gestures, Idle, SelectionPersist, InputMethod

VARIABLE service   \* the one followed

seatVars == <<service, blocksVars, gestureVars, idleVars, selectionVars, relay>>

\* Two gestures of three fingers on any device and two on the touchpad, for
\* every stage.
ThreeFingerBindings ==
  {[type |-> "swipe", device |-> "any", fingers |-> 3, direction |-> "up", stage |-> "trigger"],
   [type |-> "swipe", device |-> "touchpad", fingers |-> 3, direction |-> "none", stage |-> "after"],
   [type |-> "swipe", device |-> "touchpad", fingers |-> 3, direction |-> "left", stage |-> "stop"],
   [type |-> "pinch", device |-> "any", fingers |-> 3, direction |-> "inward", stage |-> "trigger"]}

SeatInit ==
  /\ service \in {"blocks", "gestures", "idle", "selection", "input_method"}
  /\ BlocksInit /\ GestureInit /\ IdleInit /\ SelectionInit /\ RelayInit

SeatNext ==
  \/ service = "blocks" /\ BlocksNext
     /\ UNCHANGED <<service, gestureVars, idleVars, selectionVars, relay>>
  \/ service = "gestures" /\ GestureNext
     /\ UNCHANGED <<service, blocksVars, idleVars, selectionVars, relay>>
  \/ service = "idle" /\ IdleNext
     /\ UNCHANGED <<service, blocksVars, gestureVars, selectionVars, relay>>
  \/ service = "selection" /\ SelectionNext
     /\ UNCHANGED <<service, blocksVars, gestureVars, idleVars, relay>>
  \/ service = "input_method" /\ RelayNext
     /\ UNCHANGED <<service, blocksVars, gestureVars, idleVars, selectionVars>>

SeatSpec == SeatInit /\ [][SeatNext]_seatVars /\ SelectionFairness
=============================================================================
