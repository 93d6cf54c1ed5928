----------------------------- MODULE InputMethod -----------------------------
(***************************************************************************)
(* InputMethodRelay: it connects the one input method of the seat to the   *)
(* text input that is enabled on the surface with the keyboard.  Text      *)
(* inputs come in three protocol versions: v1 and v2 are enabled for a     *)
(* surface, v3 for whichever surface of its client has the focus.  Focus,  *)
(* text inputs, surfaces and the input method come and go independently.   *)
(*                                                                         *)
(* The state is one record; a method is an operator from state to state.   *)
(***************************************************************************)
EXTENDS Naturals, FiniteSets, FiniteSetsExt

CONSTANTS
  NumInputs,       \* text inputs, numbered in the order of text_inputs_
  V1, V2,          \* which of them are of version 1 and 2; the others are v3
  Surfaces,
  OtherInputs,     \* there are two clients: these text inputs and
  OtherSurfaces,   \* surfaces belong to the second
  InputEvents      \* the optional events of this instance

Inputs == 1 .. NumInputs
V3 == Inputs \ (V1 \cup V2)

ASSUME InputsAssumption ==
  /\ NumInputs \in Nat \ {0}
  /\ V1 \subseteq Inputs /\ V2 \subseteq Inputs \ V1 /\ OtherInputs \subseteq Inputs
  /\ OtherSurfaces \subseteq Surfaces
  /\ "none" \notin Surfaces

VARIABLE relay

NoSurface == "none"
Places == Surfaces \cup {NoSurface}

RelayType ==
  [created          : 0 .. NumInputs,
   text_inputs_     : SUBSET Inputs,
   enabled          : SUBSET Inputs,
   surface_         : [Inputs -> Places],    \* of v1 and v2
   asked            : [Inputs -> Places],    \* where the client last enabled it
   relay_focused    : [Inputs -> Places],
   entered          : [Inputs -> Places],    \* the last enter without a leave
   focused_surface_ : Places,
   surfaces         : SUBSET Surfaces,       \* that exist
   input_method_    : BOOLEAN,
   active           : 0 .. NumInputs,        \* active_text_input_, 0 for none
   pending          : 0 .. NumInputs,        \* pending_text_input_
   im_active        : BOOLEAN]               \* as the input method was told

RelayTypeOK == relay \in RelayType

Nowhere == [i \in Inputs |-> NoSurface]

RelayInit ==
  relay = [created |-> 0, text_inputs_ |-> {}, enabled |-> {}, surface_ |-> Nowhere,
           asked |-> Nowhere, relay_focused |-> Nowhere, entered |-> Nowhere, focused_surface_ |-> NoSurface,
           surfaces |-> Surfaces, input_method_ |-> FALSE, active |-> 0, pending |-> 0,
           im_active |-> FALSE]

SameClient(i, s) == i \in OtherInputs <=> s \in OtherSurfaces

\* MatchesSurface of each version.
MatchesSurface(st, i, s) ==
  s # NoSurface /\ IF i \in V3 THEN SameClient(i, s) ELSE st.surface_[i] = s

(***************************************************************************)
(* The methods of the relay.                                               *)
(***************************************************************************)
Deactivate(st, i) ==
  IF st.active # i THEN st
  ELSE [st EXCEPT !.active = 0, !.im_active = @ /\ ~st.input_method_]

Activate(st, i) ==
  IF \/ i = 0 \/ st.focused_surface_ = NoSurface \/ i \notin st.enabled
     \/ st.relay_focused[i] # st.focused_surface_ THEN st
  ELSE IF ~st.input_method_ THEN [st EXCEPT !.pending = i]
  ELSE [Deactivate(st, st.active) EXCEPT !.active = i, !.pending = 0, !.im_active = TRUE]

\* SendEnter and SendLeave for a set of text inputs.  A v1 or v2 input forgets
\* its surface with the leave, and sends none when it has no surface.
Enter(st, inputs, s) ==
  [st EXCEPT !.entered = [i \in Inputs |-> IF i \in inputs THEN s ELSE @[i]],
             !.relay_focused = [i \in Inputs |-> IF i \in inputs THEN s ELSE @[i]]]

Leave(st, inputs) ==
  LET told == {i \in inputs : i \in V3 \/ st.surface_[i] # NoSurface} IN
  [st EXCEPT !.entered = [i \in Inputs |-> IF i \in told THEN NoSurface ELSE @[i]],
             !.surface_ = [i \in Inputs |-> IF i \in told THEN NoSurface ELSE @[i]],
             !.relay_focused = [i \in Inputs |-> IF i \in inputs THEN NoSurface ELSE @[i]]]

\* The first of the text inputs, or 0.
FirstOf(inputs) == IF inputs = {} THEN 0 ELSE Min(inputs)

Candidates(st) ==
  {i \in st.text_inputs_ \cap st.enabled : st.relay_focused[i] = st.focused_surface_}

\* Mutant: the text input that loses the focus stays active.
Faulty_UpdateFocus(old, s) ==
  LET st == [old EXCEPT !.focused_surface_ = s]
      leaving == {i \in st.text_inputs_ : st.relay_focused[i] \notin {NoSurface, s}}
      left == Leave(st, leaving)
      entering == {i \in left.text_inputs_ :
                     left.relay_focused[i] = NoSurface /\ MatchesSurface(left, i, s)}
      entered == Enter(left, entering, s)
      candidate == FirstOf(Candidates(entered))
  IN  IF s # NoSurface /\ candidate # entered.active THEN Activate(entered, candidate)
      ELSE entered

UpdateFocus(old, s) ==
  LET st == [old EXCEPT !.focused_surface_ = s]
      leaving == {i \in st.text_inputs_ : st.relay_focused[i] \notin {NoSurface, s}}
      left == Leave(IF st.active \in leaving THEN Deactivate(st, st.active) ELSE st, leaving)
      entering == {i \in left.text_inputs_ :
                     left.relay_focused[i] = NoSurface /\ MatchesSurface(left, i, s)}
      entered == Enter(left, entering, s)
      candidate == FirstOf(Candidates(entered))
  IN  IF s # NoSurface /\ candidate # entered.active THEN Activate(entered, candidate)
      ELSE entered

HandleEnable(old, i) ==
  LET st == UpdateFocus(old, old.focused_surface_) IN Activate(st, i)

HandleDisable(st, i) ==
  Deactivate([st EXCEPT !.pending = IF @ = i THEN 0 ELSE @], i)

\* The surfaces of some text inputs are forgotten.
Cleared(at, inputs) == [i \in Inputs |-> IF i \in inputs THEN NoSurface ELSE at[i]]

\* Mutant: a text input that waits for an input method is forgotten by name only.
Faulty_HandleDestroy(st, inputs) ==
  LET left == IF st.active \in inputs THEN Deactivate(st, st.active) ELSE st IN
  [left EXCEPT
     !.text_inputs_ = @ \ inputs, !.enabled = @ \ inputs,
     !.surface_ = Cleared(@, inputs), !.asked = Cleared(@, inputs),
     !.relay_focused = Cleared(@, inputs), !.entered = Cleared(@, inputs)]

\* HandleDestroy for each of a set of text inputs.
HandleDestroy(st, inputs) ==
  LET left == IF st.active \in inputs THEN Deactivate(st, st.active) ELSE st IN
  [left EXCEPT
     !.pending = IF @ \in inputs THEN 0 ELSE @,
     !.text_inputs_ = @ \ inputs, !.enabled = @ \ inputs,
     !.surface_ = Cleared(@, inputs), !.asked = Cleared(@, inputs),
     !.relay_focused = Cleared(@, inputs), !.entered = Cleared(@, inputs)]

(***************************************************************************)
(* Text inputs.                                                            *)
(***************************************************************************)
AddTextInput(i) ==
  LET st == [relay EXCEPT !.created = i, !.text_inputs_ = @ \cup {i}] IN
  /\ i = relay.created + 1
  /\ relay' = IF MatchesSurface(st, i, st.focused_surface_)
              THEN Enter(st, {i}, st.focused_surface_) ELSE st

\* Unless "second" is among the events, a client enables one text input at a
\* time, as the protocol asks.
MayEnable(i) ==
  "second" \in InputEvents \/ \A j \in relay.enabled \ {i} : i \in OtherInputs <=> j \notin OtherInputs

\* A commit of v3 that enables.
EnableV3(i) ==
  /\ i \in (V3 \cap relay.text_inputs_) \ relay.enabled
  /\ MayEnable(i)
  /\ relay' = HandleEnable([relay EXCEPT !.enabled = @ \cup {i}], i)

DisableV3(i) ==
  /\ i \in V3 \cap relay.enabled
  /\ relay' = HandleDisable([relay EXCEPT !.enabled = @ \ {i}], i)

\* TextInputV1::Activate.
ActivateV1(i, s) ==
  /\ i \in V1 \cap relay.text_inputs_
  /\ s \in relay.surfaces /\ SameClient(i, s) /\ MayEnable(i)
  /\ relay' = HandleEnable([relay EXCEPT !.enabled = @ \cup {i}, !.surface_[i] = s,
                                         !.asked[i] = s], i)

\* TextInputV1::Deactivate: seat_ is set while the text input is activated.
DeactivateV1(i) ==
  /\ i \in V1 \cap relay.enabled
  /\ relay' = [HandleDisable([relay EXCEPT !.enabled = @ \ {i}], i) EXCEPT
                 !.surface_[i] = NoSurface, !.asked[i] = NoSurface]

\* TextInputV2::Enable.
EnableV2(i, s) ==
  /\ i \in V2 \cap relay.text_inputs_
  /\ s \in relay.surfaces /\ SameClient(i, s) /\ MayEnable(i)
  /\ relay' = HandleEnable([relay EXCEPT !.enabled = @ \cup {i}, !.surface_[i] = s,
                                         !.asked[i] = s], i)

\* TextInputV2::Disable, which does nothing when the text input has lost the
\* surface that it was enabled for.
DisableV2(i) ==
  LET st == [relay EXCEPT !.asked[i] = NoSurface] IN
  /\ i \in V2 \cap relay.text_inputs_
  /\ relay.asked[i] # NoSurface
  /\ relay' = IF st.surface_[i] # relay.asked[i] THEN st
              ELSE [HandleDisable([st EXCEPT !.enabled = @ \ {i}], i) EXCEPT
                      !.surface_[i] = NoSurface]

DestroyTextInput(i) ==
  /\ i \in relay.text_inputs_
  /\ relay' = HandleDestroy(relay, {i})

(***************************************************************************)
(* Surfaces and the focus.                                                 *)
(***************************************************************************)
OnKeyboardFocusChange(s) ==
  /\ s \in relay.surfaces \cup {NoSurface}
  /\ s # relay.focused_surface_
  /\ relay' = UpdateFocus(relay, s)

\* What the text inputs do when their surface is destroyed: v1 becomes inert and
\* is removed, v2 forgets it, and wlroots forgets it for v3.
ForgetSurface(st, s) ==
  LET inert == {i \in V1 : st.surface_[i] = s}
      forgotten == [st EXCEPT
        !.surface_ = [i \in Inputs |-> IF @[i] = s THEN NoSurface ELSE @[i]],
        !.asked = [i \in Inputs |-> IF @[i] = s THEN NoSurface ELSE @[i]],
        !.entered = [i \in Inputs |-> IF i \in V3 /\ @[i] = s THEN NoSurface ELSE @[i]]]
  IN  HandleDestroy(forgotten, inert)

LoseFocus(st, s) == IF st.focused_surface_ = s THEN UpdateFocus(st, NoSurface) ELSE st

\* The seat and the text inputs listen to the same signal; who connected first
\* is called first.
OnSurfaceDestroy(s) ==
  LET st == [relay EXCEPT !.surfaces = @ \ {s}] IN
  /\ s \in relay.surfaces
  /\ \/ relay' = ForgetSurface(LoseFocus(st, s), s)
     \/ relay' = LoseFocus(ForgetSurface(st, s), s)

(***************************************************************************)
(* The input method.  A second one is told that it is unavailable.         *)
(***************************************************************************)
\* Mutant: the new input method waits for the focus to change.
Faulty_OnNewInputMethod ==
  /\ ~relay.input_method_
  /\ relay' = [relay EXCEPT !.input_method_ = TRUE, !.pending = 0]

OnNewInputMethod ==
  LET st == UpdateFocus([relay EXCEPT !.input_method_ = TRUE], relay.focused_surface_)
      candidate == IF st.pending # 0 THEN st.pending ELSE FirstOf(Candidates(st))
  IN
  /\ ~relay.input_method_
  /\ relay' = Activate([st EXCEPT !.pending = 0], candidate)

OnInputMethodDestroy ==
  /\ relay.input_method_
  /\ relay' = [relay EXCEPT !.input_method_ = FALSE, !.im_active = FALSE,
                            !.pending = relay.active, !.active = 0]

InputNext ==
  \E i \in Inputs :
    \/ AddTextInput(i) \/ DestroyTextInput(i)
    \/ EnableV3(i) \/ DisableV3(i) \/ DeactivateV1(i) \/ DisableV2(i)
    \/ \E s \in Surfaces : ActivateV1(i, s) \/ EnableV2(i, s)

RelayNext ==
  \/ InputNext
  \/ \E s \in Places : OnKeyboardFocusChange(s)
  \/ \E s \in Surfaces : OnSurfaceDestroy(s)
  \/ OnNewInputMethod \/ OnInputMethodDestroy

RelaySpec == RelayInit /\ [][RelayNext]_relay

(***************************************************************************)
(* Properties.                                                             *)
(***************************************************************************)

\* No pointer dangles: active_text_input_ and pending_text_input_ are text
\* inputs that exist, and the surface a text input was entered on is the focused
\* one, which exists.  What the relay knows of a v3 text input is what wlroots
\* knows, which asserts that an input is not entered twice (HandleDestroy,
\* OnInputMethodDestroy, UpdateFocus, SendEnter, SendLeave).
PointersAreAlive ==
  /\ {relay.active, relay.pending} \subseteq relay.text_inputs_ \cup {0}
  /\ relay.pending # 0 => ~relay.input_method_
  /\ \A i \in relay.text_inputs_ : relay.relay_focused[i] \in {NoSurface, relay.focused_surface_}
  /\ relay.focused_surface_ \in relay.surfaces \cup {NoSurface}
  /\ \A i \in V3 \cap relay.text_inputs_ : relay.entered[i] = relay.relay_focused[i]

\* The text of the input method goes to a text input that is enabled and on the
\* surface with the keyboard, and the input method believes itself active
\* exactly while there is one, so that its keyboard grab and popups end with it
\* (Activate, Deactivate, UpdateFocus, HandleDisable).
ActiveIsFocused ==
  /\ relay.im_active <=> relay.active # 0
  /\ relay.active # 0 =>
       /\ relay.input_method_
       /\ relay.active \in relay.enabled
       /\ relay.focused_surface_ # NoSurface
       /\ relay.relay_focused[relay.active] = relay.focused_surface_

\* While there is an input method, a text input that is enabled on the focused
\* surface is served, whatever came first: input method, focus or enable
\* (OnNewInputMethod, UpdateFocus, HandleEnable).
EnabledIsServed ==
  relay.input_method_ /\ relay.focused_surface_ # NoSurface /\ Candidates(relay) # {}
    => relay.active # 0

(***************************************************************************)
(* What the protocols say, and the relay does not do.                      *)
(***************************************************************************)

\* A v1 text input that its client deactivated has been left (TextInputV1::
\* Deactivate).
DeactivatedIsLeft == \A i \in V1 : i \notin relay.enabled => relay.entered[i] = NoSurface

\* A request to enable a v3 text input while another is enabled is ignored: the
\* active one stays active (HandleEnable).
SecondEnableIsIgnored ==
  [][\A i \in V3 : EnableV3(i) /\ relay.active # 0 => relay'.active = relay.active]_relay

\* A v2 text input is entered on the surface it is enabled for whenever that
\* surface has the keyboard (TextInputV2::SendLeave, UpdateFocus).
EnabledSurfaceIsEntered ==
  \A i \in V2 \cap relay.text_inputs_ :
    relay.asked[i] # NoSurface /\ relay.asked[i] = relay.focused_surface_
      => relay.entered[i] = relay.focused_surface_
=============================================================================
