------------------------------ MODULE Gestures ------------------------------
(***************************************************************************)
(* TouchpadManager's two gesture recognisers.  The touchpad one is told    *)
(* by libinput when a swipe, pinch or hold begins and ends; the            *)
(* touchscreen one makes its own gestures of the points it sees and of a   *)
(* timer of 800 ms.  Both report the stages of a swipe (trigger, after and *)
(* stop) to the actions configured over D-Bus, and the touchpad one        *)
(* decides what the clients are told when the gesture ends.                *)
(*                                                                         *)
(* Distances are abstracted to whether a threshold is passed, so an event  *)
(* that moves may or may not pass it.                                      *)
(***************************************************************************)
EXTENDS Naturals, FiniteSets

CONSTANTS
  Touches,      \* touchscreens
  Ids,          \* finger numbers on a touchscreen
  PadFingers,   \* how many fingers a touchpad reports
  Directions,   \* what SwipeDirection may answer
  Bindings,     \* configured actions: type, device, fingers, direction, stage
  Service       \* whether the Deepin gesture service is on the bus

ASSUME GestureAssumption == IsFiniteSet(Ids) /\ PadFingers \subseteq Nat /\ Service \in BOOLEAN

VARIABLES
  gesture_,
  pad,                \* the gesture the touchpad is in, by libinput's events
  touch_gesture_,
  touch_points_,      \* the recogniser's points: touch, id, moved
  touch_hold_timer_,  \* the timer is running
  fingers_down,       \* what is on the screens: pairs of touch and id
  plugged,            \* the touchscreens there are
  \* history of what the recognisers reported
  pad_swipe,          \* the swipe triggered and not stopped, or NoSwipe
  touch_swipe,
  pad_acted,          \* an action took part of the present touchpad gesture
  pad_end             \* how clients saw it end: open, ended or cancelled

gestureVars == <<gesture_, pad, touch_gesture_, touch_points_, touch_hold_timer_, fingers_down,
                 plugged, pad_swipe, touch_swipe, pad_acted, pad_end>>
padVars == <<gesture_, pad, pad_swipe, pad_acted, pad_end>>
touchVars == <<touch_gesture_, touch_points_, touch_hold_timer_, fingers_down, plugged,
               touch_swipe>>

NoGesture == [type |-> "none", fingers |-> 0, triggered |-> FALSE, handled |-> FALSE,
              direction |-> "none"]
NoSwipe == [fingers |-> 0, direction |-> "none"]
Swipe(gesture) == [fingers |-> gesture.fingers, direction |-> gesture.direction]

GestureInit ==
  /\ gesture_ = NoGesture /\ pad = "none"
  /\ touch_gesture_ = NoGesture /\ touch_points_ = {} /\ touch_hold_timer_ = FALSE
  /\ fingers_down = {} /\ plugged = Touches
  /\ pad_swipe = NoSwipe /\ touch_swipe = NoSwipe
  /\ pad_acted = FALSE /\ pad_end = "ended"

(***************************************************************************)
(* WlcomDbusManager::HandleGestureAction: some enabled binding fits.       *)
(***************************************************************************)
HandleGestureAction(type, device, gesture, stage) ==
  \E b \in Bindings :
    /\ b.type = type /\ b.device \in {device, "any"} /\ b.fingers = gesture.fingers
    /\ b.stage = stage /\ b.direction \in {gesture.direction, "none"}

\* What ExecuteGesture may answer.  An "after" binding fits only some of the
\* motions that follow; without a binding a trigger goes to the service.
ExecuteGesture(type, device, gesture, stage) ==
  IF HandleGestureAction(type, device, gesture, stage)
  THEN IF stage = "after" THEN BOOLEAN ELSE {TRUE}
  ELSE {stage = "trigger" /\ Service}

(***************************************************************************)
(* The touchpad.                                                           *)
(***************************************************************************)

\* OnSwipeBegin, OnPinchBegin and OnHoldBegin.
BeginGesture(type, fingers) ==
  /\ pad = "none" /\ pad' = type
  /\ gesture_' = [NoGesture EXCEPT !.type = type, !.fingers = fingers]
  /\ pad_acted' = FALSE /\ pad_end' = "open"
  /\ UNCHANGED <<pad_swipe, touchVars>>

\* The trigger of a swipe: its direction is settled and reported.
TriggerSwipe(direction, acted) ==
  LET triggered == [gesture_ EXCEPT !.triggered = TRUE, !.direction = direction]
  IN  /\ acted \in ExecuteGesture("swipe", "touchpad", triggered, "trigger")
      /\ gesture_' = [triggered EXCEPT !.handled = gesture_.handled \/ acted]
      /\ pad_swipe' = Swipe(triggered)
      /\ pad_acted' = (pad_acted \/ acted)

\* OnSwipeUpdate and UpdateSwipe.
UpdateSwipe(far, direction) ==
  /\ pad = "swipe" /\ gesture_.type = "swipe"
  /\ \E acted \in BOOLEAN :
       \/ /\ ~gesture_.triggered /\ far
          /\ TriggerSwipe(direction, acted)
       \/ /\ gesture_.triggered
          /\ acted \in ExecuteGesture("swipe", "touchpad", gesture_, "after")
          /\ gesture_' = [gesture_ EXCEPT !.handled = @ \/ acted]
          /\ pad_acted' = (pad_acted \/ acted)
          /\ UNCHANGED pad_swipe
  /\ UNCHANGED <<pad, pad_end, touchVars>>

\* The end is passed on to the clients, as cancelled if it was handled here.
SendEnd(cancelled, handled) == pad_end' = IF cancelled \/ handled THEN "cancelled" ELSE "ended"

\* Mutant: the handling of the earlier stages is forgotten.
Faulty_EndSwipe(cancelled, direction) ==
  /\ pad = "swipe" /\ gesture_.type = "swipe" /\ pad' = "none"
  /\ \E triggered \in BOOLEAN, stopped \in BOOLEAN :
       LET gesture == IF gesture_.triggered THEN gesture_
                      ELSE [gesture_ EXCEPT !.triggered = TRUE, !.direction = direction]
       IN  /\ IF gesture_.triggered THEN triggered = gesture_.handled
              ELSE triggered \in ExecuteGesture("swipe", "touchpad", gesture, "trigger")
           /\ stopped \in ExecuteGesture("swipe", "touchpad", gesture, "stop")
           /\ SendEnd(cancelled, stopped)
           /\ pad_acted' = (pad_acted \/ triggered \/ stopped)
  /\ pad_swipe' = NoSwipe
  /\ gesture_' = NoGesture
  /\ UNCHANGED touchVars

\* OnSwipeEnd and EndSwipe.
EndSwipe(cancelled, direction) ==
  /\ pad = "swipe" /\ gesture_.type = "swipe" /\ pad' = "none"
  /\ \/ /\ gesture_.fingers < 3 \/ cancelled
        /\ SendEnd(cancelled, FALSE)
        /\ pad_swipe' = IF gesture_.fingers < 3 THEN pad_swipe ELSE NoSwipe
        /\ UNCHANGED pad_acted
     \/ /\ gesture_.fingers >= 3 /\ ~cancelled
        /\ \E triggered \in BOOLEAN, stopped \in BOOLEAN :
             LET gesture == IF gesture_.triggered THEN gesture_
                            ELSE [gesture_ EXCEPT !.triggered = TRUE, !.direction = direction]
             IN  /\ IF gesture_.triggered THEN triggered = gesture_.handled
                    ELSE triggered \in ExecuteGesture("swipe", "touchpad", gesture, "trigger")
                 /\ stopped \in ExecuteGesture("swipe", "touchpad", gesture, "stop")
                 /\ SendEnd(cancelled, triggered \/ stopped)
                 /\ pad_acted' = (pad_acted \/ triggered \/ stopped)
        /\ pad_swipe' = NoSwipe
  /\ gesture_' = NoGesture
  /\ UNCHANGED touchVars

\* OnPinchEnd and OnHoldEnd, with EndPinch and EndHold: one trigger at the end.
EndPinchOrHold(cancelled, direction) ==
  /\ pad \in {"pinch", "hold"} /\ gesture_.type = pad /\ pad' = "none"
  /\ \E acted \in BOOLEAN :
       LET gesture == [gesture_ EXCEPT !.direction = IF pad = "pinch" THEN direction ELSE "none"]
       IN  /\ IF cancelled \/ gesture.fingers < 3 THEN ~acted
              ELSE acted \in ExecuteGesture(pad, "touchpad", gesture, "trigger")
           /\ SendEnd(cancelled, acted)
           /\ pad_acted' = acted
  /\ gesture_' = NoGesture
  /\ UNCHANGED <<pad_swipe, touchVars>>

(***************************************************************************)
(* The touchscreen.                                                        *)
(***************************************************************************)
Point(touch, id) == {p \in touch_points_ : p.touch = touch /\ p.id = id}

ResetTouchGesture ==
  /\ touch_hold_timer_' = FALSE
  /\ touch_points_' = {}
  /\ touch_gesture_' = NoGesture

\* Mutant: the new finger does not stop the swipe of the others.
Faulty_TouchDown(touch, id) ==
  /\ touch \in plugged /\ <<touch, id>> \notin fingers_down
  /\ fingers_down' = fingers_down \cup {<<touch, id>>}
  /\ LET points == {p \in touch_points_ : p.touch = touch}
                     \cup {[touch |-> touch, id |-> id, moved |-> FALSE]}
     IN  /\ touch_points_' = points
         /\ touch_gesture_' = [NoGesture EXCEPT !.type = "hold", !.fingers = Cardinality(points)]
  /\ touch_swipe' = IF \E p \in touch_points_ : p.touch # touch THEN NoSwipe ELSE touch_swipe
  /\ touch_hold_timer_' = TRUE
  /\ UNCHANGED <<padVars, plugged>>

\* OnTouchDown and TouchDown.  The points of another touchscreen are dropped,
\* and a swipe of theirs is not stopped; one of this touchscreen is.
TouchDown(touch, id) ==
  /\ touch \in plugged /\ <<touch, id>> \notin fingers_down
  /\ fingers_down' = fingers_down \cup {<<touch, id>>}
  /\ LET points == {p \in touch_points_ : p.touch = touch}
                     \cup {[touch |-> touch, id |-> id, moved |-> FALSE]}
     IN  /\ touch_points_' = points
         /\ touch_gesture_' = [NoGesture EXCEPT !.type = "hold", !.fingers = Cardinality(points)]
  /\ touch_swipe' = IF touch_gesture_.triggered \/ \E p \in touch_points_ : p.touch # touch
                    THEN NoSwipe ELSE touch_swipe
  /\ touch_hold_timer_' = TRUE
  /\ UNCHANGED <<padVars, plugged>>

\* Mutant: a finger that moves leaves the timer running.
Faulty_TouchMotion(touch, id, moved, far, direction) ==
  /\ <<touch, id>> \in fingers_down /\ Point(touch, id) # {}
  /\ LET points == (touch_points_ \ Point(touch, id))
                     \cup {[touch |-> touch, id |-> id, moved |-> moved]}
         swipe == [touch_gesture_ EXCEPT !.type = "swipe", !.fingers = Cardinality(points)]
     IN  /\ touch_points_' = points
         /\ touch_gesture_' = IF \A p \in points : p.moved THEN swipe ELSE touch_gesture_
  /\ UNCHANGED <<padVars, fingers_down, plugged, touch_swipe, touch_hold_timer_>>

\* OnTouchMotion and TouchMotion.
TouchMotion(touch, id, moved, far, direction) ==
  /\ <<touch, id>> \in fingers_down /\ Point(touch, id) # {}
  /\ touch_hold_timer_' = (touch_hold_timer_ /\ ~moved)
  /\ LET points == (touch_points_ \ Point(touch, id))
                     \cup {[touch |-> touch, id |-> id, moved |-> moved]}
         swipe == [touch_gesture_ EXCEPT !.type = "swipe", !.fingers = Cardinality(points)]
         triggered == [swipe EXCEPT !.triggered = TRUE, !.direction = direction]
     IN  /\ touch_points_' = points
         /\ \/ /\ \E p \in points : ~p.moved
               /\ UNCHANGED <<touch_gesture_, touch_swipe>>
            \/ /\ \A p \in points : p.moved
               /\ ~touch_gesture_.triggered /\ far
               /\ touch_gesture_' = triggered
               /\ touch_swipe' = Swipe(triggered)
            \/ /\ \A p \in points : p.moved
               /\ touch_gesture_.triggered \/ ~far
               /\ touch_gesture_' = swipe
               /\ UNCHANGED touch_swipe
  /\ UNCHANGED <<padVars, fingers_down, plugged>>

\* OnTouchUp and OnTouchCancel with TouchUp: the swipe is stopped, and every
\* point is forgotten with the first finger that goes.
TouchUp(touch, id, cancelled) ==
  /\ <<touch, id>> \in fingers_down
  /\ fingers_down' = fingers_down \ {<<touch, id>>}
  /\ \/ /\ Point(touch, id) = {}
        /\ UNCHANGED <<touch_gesture_, touch_points_, touch_hold_timer_, touch_swipe>>
     \/ /\ Point(touch, id) # {}
        /\ touch_swipe' = IF touch_gesture_.type = "swipe" THEN NoSwipe ELSE touch_swipe
        /\ ResetTouchGesture
  /\ UNCHANGED <<padVars, plugged>>

\* The timer of the constructor: the fingers have not moved for 800 ms.
HoldTimeout ==
  /\ touch_hold_timer_ /\ touch_hold_timer_' = FALSE
  /\ touch_gesture_' =
       IF touch_gesture_.type # "hold" \/ touch_points_ = {} THEN touch_gesture_
       ELSE [touch_gesture_ EXCEPT !.triggered = TRUE]
  /\ UNCHANGED <<padVars, touch_points_, fingers_down, plugged, touch_swipe>>

\* TouchDevice::OnDestroy: the device goes with the fingers on it, and the
\* recogniser is not told.
Unplug(touch) ==
  /\ touch \in plugged
  /\ plugged' = plugged \ {touch}
  /\ fingers_down' = {f \in fingers_down : f[1] # touch}
  /\ UNCHANGED <<padVars, touch_gesture_, touch_points_, touch_hold_timer_, touch_swipe>>

\* libinput reports swipes of three fingers and more only.
GestureNext ==
  \/ \E type \in {"swipe", "pinch", "hold"}, fingers \in PadFingers :
       (type = "swipe" => fingers >= 3) /\ BeginGesture(type, fingers)
  \/ \E far \in BOOLEAN, direction \in Directions : UpdateSwipe(far, direction)
  \/ \E cancelled \in BOOLEAN, direction \in Directions : EndSwipe(cancelled, direction)
  \/ \E cancelled \in BOOLEAN, direction \in {"none", "inward"} :
       EndPinchOrHold(cancelled, direction)
  \/ \E touch \in Touches, id \in Ids :
       \/ TouchDown(touch, id)
       \/ \E moved \in BOOLEAN, far \in BOOLEAN, direction \in Directions :
            TouchMotion(touch, id, moved, far, direction)
       \/ \E cancelled \in BOOLEAN : TouchUp(touch, id, cancelled)
  \/ HoldTimeout
  \/ \E touch \in Touches : Unplug(touch)

GestureSpec == GestureInit /\ [][GestureNext]_gestureVars

(***************************************************************************)
(* Properties.                                                             *)
(***************************************************************************)

\* A swipe that was triggered will be stopped, with the direction and the
\* fingers of its trigger: the recogniser remembers it until then (EndSwipe,
\* TouchDown, TouchUp).  Only a second touchscreen makes it forget one.
SwipeIsRemembered ==
  /\ pad_swipe # NoSwipe =>
       gesture_.type = "swipe" /\ gesture_.triggered /\ Swipe(gesture_) = pad_swipe
  /\ touch_swipe # NoSwipe =>
       /\ touch_gesture_.type = "swipe" /\ touch_gesture_.triggered
       /\ Swipe(touch_gesture_) = touch_swipe /\ touch_points_ # {}

\* The clients see a touchpad gesture end cancelled if any stage of it ran an
\* action of the compositor (OnSwipeEnd, OnPinchEnd, OnHoldEnd).
HandledIsCancelled == pad_acted /\ pad_end # "open" => pad_end = "cancelled"

\* The hold timer only runs for as many fingers as are down, one of them unmoved
\* since it came (TouchMotion and ResetTouchGesture stop it).  Fingers that went
\* with their touchscreen still count: nothing tells the recogniser.
HoldIsOfFingersDown ==
  touch_hold_timer_ =>
    /\ touch_gesture_.type = "hold" /\ touch_gesture_.fingers = Cardinality(touch_points_)
    /\ \E p \in touch_points_ : ~p.moved
    /\ \A p \in touch_points_ : p.touch \in plugged => <<p.touch, p.id>> \in fingers_down
=============================================================================
