--------------------------- MODULE InputMethodProofs ---------------------------
(***************************************************************************)
(* The input method relay, for any number of text inputs of each version,  *)
(* any surfaces and any order of events: no pointer of the relay dangles,  *)
(* text only goes to the focused surface, and an enabled text input is     *)
(* served.  There is a lemma for each method, and one for each action.     *)
(***************************************************************************)
EXTENDS InputMethod, TLAPS, WellFoundedInduction

\* What holds of the relay also between two calls of one handler: what it knows
\* of a text input is of one that exists, on a surface of its client.
Base(st) ==
  /\ st \in RelayType
  /\ st.text_inputs_ \subseteq 1 .. st.created /\ st.enabled \subseteq st.text_inputs_
  /\ \A i \in Inputs : st.relay_focused[i] # NoSurface =>
       i \in st.text_inputs_ /\ SameClient(i, st.relay_focused[i])
  /\ \A i \in Inputs : st.surface_[i] # NoSurface => SameClient(i, st.surface_[i])
  /\ st.active \in st.text_inputs_ \cup {0} /\ st.pending \in st.text_inputs_ \cup {0}
  /\ st.im_active <=> st.active # 0
  /\ st.active # 0 =>
       st.input_method_ /\ st.active \in st.enabled /\ st.relay_focused[st.active] # NoSurface

\* What holds besides at the end of a handler.
Settled(st) ==
  /\ Base(st)
  /\ st.focused_surface_ \in st.surfaces \cup {NoSurface}
  /\ \A i \in Inputs : st.relay_focused[i] \in {NoSurface, st.focused_surface_}
  /\ \A i \in V3 : st.entered[i] = st.relay_focused[i]

\* A text input waits only while there is no input method.
Waiting(st) == st.pending # 0 => ~st.input_method_

Served(st) ==
  st.input_method_ /\ st.focused_surface_ # NoSurface /\ Candidates(st) # {} => st.active # 0

\* A client has one text input enabled.
OneEnabled(st) ==
  \A i, j \in st.enabled : (i \in OtherInputs <=> j \in OtherInputs) => i = j

\* The parts of the state that no method of the relay changes, and those that
\* only a change of the focus does.
Same(r, st) ==
  /\ r.created = st.created /\ r.text_inputs_ = st.text_inputs_ /\ r.enabled = st.enabled
  /\ r.surfaces = st.surfaces /\ r.input_method_ = st.input_method_

SameFocus(r, st) ==
  /\ r.surface_ = st.surface_ /\ r.relay_focused = st.relay_focused /\ r.entered = st.entered
  /\ r.focused_surface_ = st.focused_surface_

\* Every set of numbers has a least one.
LEMMA Least == ASSUME NEW S \in SUBSET Nat, S # {} PROVE Min(S) \in S
<1> DEFINE R == OpToRel(<, Nat)
<1>1. PICK x \in S : \A y \in S : ~(<<y, x>> \in R)
  BY NatLessThanWellFounded, WFMin
<1>2. ASSUME NEW y \in S, y < x PROVE <<y, x>> \in R
  BY <1>2 DEF OpToRel
<1>3. \A y \in S : ~(y < x)
  BY <1>1, <1>2
<1>4. \A y \in S : x <= y
  BY <1>3
<1> QED
  BY <1>4, Zenon DEF Min

\* FirstOf finds a text input if there is one.
LEMMA FirstOfIsIn ==
  ASSUME NEW inputs \in SUBSET Inputs
  PROVE  FirstOf(inputs) \in inputs \cup {0} /\ (inputs # {} => FirstOf(inputs) \in inputs)
<1>1. inputs \in SUBSET Nat
  BY InputsAssumption DEF Inputs
<1> QED
  BY <1>1, Least DEF FirstOf

(***************************************************************************)
(* The methods.                                                            *)
(***************************************************************************)
LEMMA DeactivateGood ==
  ASSUME NEW st, Base(st), NEW i
  PROVE  LET r == Deactivate(st, i) IN
         /\ Base(r) /\ Same(r, st) /\ SameFocus(r, st) /\ r.pending = st.pending
         /\ r.active = IF st.active = i THEN 0 ELSE st.active
<1> DEFINE r == Deactivate(st, i)
<1>1. st \in RelayType /\ 0 \in 0 .. NumInputs
  BY InputsAssumption DEF Base
<1>2. CASE st.active # i
  <2>1. r = st
    BY <1>2 DEF Deactivate
  <2> QED
    BY <1>2, <2>1 DEF Same, SameFocus
<1>3. CASE st.active = i
  <2>1. r = [st EXCEPT !.active = 0, !.im_active = st.im_active /\ ~st.input_method_]
    BY <1>1, <1>3 DEF Deactivate, RelayType
  <2>2. /\ Same(r, st) /\ SameFocus(r, st) /\ r.pending = st.pending /\ r.active = 0
        /\ r.im_active = (st.im_active /\ ~st.input_method_)
    BY <1>1, <2>1 DEF RelayType, Same, SameFocus
  <2>3. r \in RelayType
    BY <1>1, <2>1 DEF RelayType
  <2> HIDE DEF r
  <2>4. ~r.im_active
    BY <2>2 DEF Base
  <2>5. Base(r)
    BY <2>2, <2>3, <2>4 DEF Base, Same, SameFocus
  <2> QED
    BY <1>3, <2>2, <2>5 DEF r
<1> QED
  BY <1>2, <1>3

\* An activated text input is enabled and on the focused surface.
LEMMA ActivateGood ==
  ASSUME NEW st, Base(st), NEW i
  PROVE  LET r == Activate(st, i) IN
         /\ Base(r) /\ Same(r, st) /\ SameFocus(r, st)
         /\ r.active = i \/ r.active = st.active
         /\ r.active = st.active \/ r.relay_focused[r.active] = r.focused_surface_
         /\ Waiting(st) => Waiting(r)
         /\ st.input_method_ /\ st.focused_surface_ # NoSurface /\ i \in Candidates(st)
              => r.active = i
<1> DEFINE refused == \/ i = 0 \/ st.focused_surface_ = NoSurface \/ i \notin st.enabled
                      \/ st.relay_focused[i] # st.focused_surface_
           d == Deactivate(st, st.active)
           r == Activate(st, i)
<1>1. CASE refused
  <2>1. r = st
    BY <1>1 DEF Activate
  <2>2. i \in Candidates(st) => i \in st.enabled /\ st.relay_focused[i] = st.focused_surface_ /\ i # 0
    BY InputsAssumption DEF Candidates, Base, RelayType, Inputs
  <2> QED
    BY <1>1, <2>1, <2>2 DEF Same, SameFocus
<1>2. CASE ~refused /\ ~st.input_method_
  <2>1. r = [st EXCEPT !.pending = i]
    BY <1>2 DEF Activate
  <2>2. i \in st.text_inputs_ /\ i \in 0 .. NumInputs
    BY <1>2, InputsAssumption DEF Base, RelayType, Inputs
  <2>3. r \in RelayType
    BY <2>1, <2>2 DEF Base, RelayType
  <2> QED
    BY <1>2, <2>1, <2>2, <2>3 DEF Base, RelayType, Same, SameFocus, Waiting
<1>3. CASE ~refused /\ st.input_method_
  <2>1. r = [d EXCEPT !.active = i, !.pending = 0, !.im_active = TRUE]
    BY <1>3 DEF Activate
  <2>2. Base(d) /\ Same(d, st) /\ SameFocus(d, st)
    BY DeactivateGood
  <2>3. i \in st.text_inputs_ /\ i \in 0 .. NumInputs /\ i # 0
    BY <1>3, InputsAssumption DEF Base, RelayType, Inputs
  <2>4. r \in RelayType
    <3>1. 0 \in 0 .. NumInputs
      BY InputsAssumption
    <3> HIDE DEF d
    <3> QED
      BY <2>1, <2>2, <2>3, <3>1 DEF Base, RelayType
  <2>5. /\ Same(r, d) /\ SameFocus(r, d)
        /\ r.active = i /\ r.pending = 0 /\ r.im_active = TRUE
    <3> HIDE DEF d
    <3> QED
      BY <2>1, <2>2 DEF Base, RelayType, Same, SameFocus
  <2> HIDE DEF d, r
  <2>6. Base(r)
    BY <1>3, <2>2, <2>3, <2>4, <2>5 DEF Base, Same, SameFocus
  <2> QED
    BY <1>3, <2>2, <2>5, <2>6 DEF Same, SameFocus, Waiting, r
<1> HIDE DEF r
<1> QED
  BY <1>1, <1>2, <1>3 DEF r

\* A text input that enters a surface of its client is on it.
LEMMA EnterGood ==
  ASSUME NEW st, Base(st), NEW s \in Places, NEW inputs \in SUBSET st.text_inputs_,
         \A i \in inputs : SameClient(i, s) /\ s # NoSurface
  PROVE  LET r == Enter(st, inputs, s) IN
         /\ Base(r) /\ Same(r, st) /\ r.focused_surface_ = st.focused_surface_
         /\ r.active = st.active /\ r.pending = st.pending
         /\ r.relay_focused = [i \in Inputs |-> IF i \in inputs THEN s ELSE st.relay_focused[i]]
         /\ r.entered = [i \in Inputs |-> IF i \in inputs THEN s ELSE st.entered[i]]
<1> DEFINE r == Enter(st, inputs, s)
           At(at) == [i \in Inputs |-> IF i \in inputs THEN s ELSE at[i]]
<1>1. At(st.entered) \in [Inputs -> Places] /\ At(st.relay_focused) \in [Inputs -> Places]
  BY DEF Base, RelayType, Places
<1> HIDE DEF At
<1>2. r = [st EXCEPT !.entered = At(st.entered), !.relay_focused = At(st.relay_focused)]
  BY DEF Enter, Base, RelayType, At
<1>3. r \in RelayType /\ r.relay_focused = At(st.relay_focused) /\ r.entered = At(st.entered)
  BY <1>1, <1>2 DEF Base, RelayType
<1>5. Same(r, st) /\ r.focused_surface_ = st.focused_surface_ /\ r.active = st.active
      /\ r.pending = st.pending /\ r.im_active = st.im_active /\ r.surface_ = st.surface_
  BY <1>2 DEF Base, RelayType, Same
<1> HIDE DEF r
<1>6. \A i \in Inputs : r.relay_focused[i] = IF i \in inputs THEN s ELSE st.relay_focused[i]
  BY <1>3 DEF At
<1>7. Base(r)
  BY <1>3, <1>5, <1>6 DEF Base, RelayType, Same, Inputs
<1> QED
  BY <1>3, <1>5, <1>7 DEF r, At

\* A text input that leaves is nowhere; the active one does not leave.
LEMMA LeaveGood ==
  ASSUME NEW st, Base(st), NEW inputs \in SUBSET Inputs, st.active \notin inputs
  PROVE  LET r == Leave(st, inputs) IN
         /\ Base(r) /\ Same(r, st) /\ r.focused_surface_ = st.focused_surface_
         /\ r.active = st.active /\ r.pending = st.pending
         /\ \A i \in Inputs : r.relay_focused[i] = IF i \in inputs THEN NoSurface
                                                   ELSE st.relay_focused[i]
         /\ \A i \in V3 : r.entered[i] = IF i \in inputs THEN NoSurface ELSE st.entered[i]
<1> DEFINE r == Leave(st, inputs)
           told == {i \in inputs : i \in V3 \/ st.surface_[i] # NoSurface}
           At(at, set) == [i \in Inputs |-> IF i \in set THEN NoSurface ELSE at[i]]
<1>1. /\ At(st.entered, told) \in [Inputs -> Places] /\ At(st.surface_, told) \in [Inputs -> Places]
      /\ At(st.relay_focused, inputs) \in [Inputs -> Places]
  BY DEF Base, RelayType, Places
<1> HIDE DEF At, told
<1>2. r = [st EXCEPT !.entered = At(st.entered, told), !.surface_ = At(st.surface_, told),
                     !.relay_focused = At(st.relay_focused, inputs)]
  BY DEF Leave, Base, RelayType, At, told
<1>3. /\ r \in RelayType /\ r.relay_focused = At(st.relay_focused, inputs)
      /\ r.entered = At(st.entered, told) /\ r.surface_ = At(st.surface_, told)
  BY <1>1, <1>2 DEF Base, RelayType
<1>4. Same(r, st) /\ r.focused_surface_ = st.focused_surface_ /\ r.active = st.active
      /\ r.pending = st.pending /\ r.im_active = st.im_active
  BY <1>2 DEF Base, RelayType, Same
<1> HIDE DEF r
<1>5. \A i \in Inputs : r.relay_focused[i] = IF i \in inputs THEN NoSurface ELSE st.relay_focused[i]
  BY <1>3 DEF At
<1>6. \A i \in V3 : r.entered[i] = IF i \in inputs THEN NoSurface ELSE st.entered[i]
  BY <1>3 DEF At, told, V3
<1>7. \A i \in Inputs : r.surface_[i] # NoSurface => r.surface_[i] = st.surface_[i]
  BY <1>3 DEF At
<1>8. st.active # 0 => st.active \in Inputs
  BY InputsAssumption DEF Base, RelayType, Inputs
<1>9. Base(r)
  BY <1>3, <1>4, <1>5, <1>7, <1>8 DEF Base, Same
<1> QED
  BY <1>4, <1>5, <1>6, <1>9 DEF r

\* Whatever was focused before, the relay is settled after a change of the
\* focus, and serves the first text input that can be.  A surface that was just
\* destroyed may have been forgotten already.
LEMMA UpdateFocusGood ==
  ASSUME NEW old, Base(old), NEW s \in old.surfaces \cup {NoSurface},
         \A i \in V3 :
           \/ old.entered[i] = old.relay_focused[i]
           \/ old.entered[i] = NoSurface /\ old.relay_focused[i] \notin {NoSurface, s}
  PROVE  LET r == UpdateFocus(old, s) IN
         /\ Settled(r) /\ Served(r) /\ Same(r, old) /\ r.focused_surface_ = s
         /\ Waiting(old) => Waiting(r)
<1> DEFINE st == [old EXCEPT !.focused_surface_ = s]
           leaving == {i \in st.text_inputs_ : st.relay_focused[i] \notin {NoSurface, s}}
           kept == IF st.active \in leaving THEN Deactivate(st, st.active) ELSE st
           left == Leave(kept, leaving)
           entering == {i \in left.text_inputs_ :
                          left.relay_focused[i] = NoSurface /\ MatchesSurface(left, i, s)}
           entered == Enter(left, entering, s)
           candidate == FirstOf(Candidates(entered))
           r == UpdateFocus(old, s)
<1>1. s \in Places
  BY DEF Places, Base, RelayType
<1>2. /\ Base(st) /\ Same(st, old) /\ st.focused_surface_ = s
      /\ st.relay_focused = old.relay_focused /\ st.entered = old.entered
      /\ st.pending = old.pending
  BY DEF Base, RelayType, Same, Places
<1>3. leaving \in SUBSET Inputs
  BY <1>2 DEF Base, RelayType
<1> HIDE DEF st
<1>4. /\ Base(kept) /\ Same(kept, st) /\ SameFocus(kept, st) /\ kept.active \notin leaving
      /\ kept.pending = st.pending
  <2>1. 0 \notin leaving
    BY <1>3, InputsAssumption DEF Inputs
  <2>2. Same(st, st) /\ SameFocus(st, st)
    BY DEF Same, SameFocus
  <2> QED
    BY <1>2, <2>1, <2>2, DeactivateGood
<1> HIDE DEF kept
<1>5. /\ Base(left) /\ Same(left, kept) /\ left.focused_surface_ = s /\ left.pending = kept.pending
      /\ \A i \in Inputs : left.relay_focused[i] = IF i \in leaving THEN NoSurface
                                                   ELSE old.relay_focused[i]
      /\ \A i \in V3 : left.entered[i] = IF i \in leaving THEN NoSurface ELSE old.entered[i]
  <2> HIDE DEF leaving
  <2> QED
    BY <1>2, <1>3, <1>4, LeaveGood DEF SameFocus
<1>6. \A i \in Inputs : left.relay_focused[i] \in {NoSurface, s}
  BY <1>2, <1>5 DEF Base, Same
<1>7. ASSUME NEW i \in V3 PROVE left.entered[i] = left.relay_focused[i]
  <2>1. i \in Inputs
    BY DEF V3
  <2>2. old.relay_focused[i] \notin {NoSurface, s} => i \in leaving
    BY <1>2, <2>1 DEF Base, Same
  <2>3. i \in leaving => old.relay_focused[i] \notin {NoSurface, s}
    BY <1>2
  <2> HIDE DEF leaving
  <2> QED
    BY <1>5, <2>1, <2>2, <2>3
<1> HIDE DEF left, leaving
<1>8. entering \in SUBSET left.text_inputs_ /\ \A i \in entering : SameClient(i, s) /\ s # NoSurface
  BY <1>5 DEF MatchesSurface, Base, RelayType
<1> HIDE DEF entering
<1>10. /\ Base(entered) /\ Same(entered, left) /\ entered.focused_surface_ = s
       /\ entered.pending = left.pending
       /\ entered.relay_focused = [i \in Inputs |-> IF i \in entering THEN s
                                                    ELSE left.relay_focused[i]]
       /\ entered.entered = [i \in Inputs |-> IF i \in entering THEN s ELSE left.entered[i]]
  BY <1>1, <1>5, <1>8, EnterGood
<1> HIDE DEF entered
<1>11. /\ \A i \in Inputs : entered.relay_focused[i] \in {NoSurface, s}
       /\ \A i \in V3 : entered.entered[i] = entered.relay_focused[i]
  BY <1>6, <1>7, <1>10 DEF Same, V3
<1>12. /\ Same(entered, old) /\ s \in entered.surfaces \cup {NoSurface}
       /\ Waiting(old) => Waiting(entered)
  BY <1>2, <1>4, <1>5, <1>10 DEF Same, Waiting
<1>13. r = IF s # NoSurface /\ candidate # entered.active THEN Activate(entered, candidate)
           ELSE entered
  BY DEF UpdateFocus, st, leaving, kept, left, entering, entered
<1>14. /\ Candidates(entered) \in SUBSET Inputs
       /\ Candidates(entered) # {} => candidate \in Candidates(entered) /\ candidate # 0
  <2>1. Candidates(entered) \in SUBSET Inputs
    BY <1>10 DEF Candidates, Base, RelayType
  <2> QED
    BY <2>1, FirstOfIsIn, InputsAssumption DEF Inputs
<1> HIDE DEF candidate, r
<1>15. CASE s # NoSurface /\ candidate # entered.active
  <2>1. /\ Base(r) /\ Same(r, entered) /\ SameFocus(r, entered)
        /\ Waiting(entered) => Waiting(r)
        /\ entered.input_method_ /\ candidate \in Candidates(entered) => r.active = candidate
    BY <1>10, <1>13, <1>15, ActivateGood
  <2>2. Settled(r)
    BY <2>1, <1>10, <1>11, <1>12 DEF Settled, Same, SameFocus
  <2>3. Candidates(r) = Candidates(entered)
    BY <2>1 DEF Candidates, Same, SameFocus
  <2>4. Served(r)
    BY <2>1, <2>3, <1>14 DEF Served, Same
  <2> QED
    BY <2>1, <2>2, <2>4, <1>10, <1>12 DEF Same, SameFocus, r
<1>16. CASE ~(s # NoSurface /\ candidate # entered.active)
  <2>1. Served(entered)
    BY <1>10, <1>14, <1>16 DEF Served
  <2> QED
    BY <2>1, <1>10, <1>11, <1>12, <1>13, <1>16 DEF Settled, r
<1> QED
  BY <1>15, <1>16

\* Activating a text input leaves the relay settled.
LEMMA ActivateSettled ==
  ASSUME NEW st, Settled(st), Served(st), NEW i
  PROVE  LET r == Activate(st, i) IN
         Settled(r) /\ Served(r) /\ Same(r, st) /\ (Waiting(st) => Waiting(r))
<1> DEFINE r == Activate(st, i)
<1>1. /\ Base(r) /\ Same(r, st) /\ SameFocus(r, st)
      /\ r.active = i \/ r.active = st.active
      /\ Waiting(st) => Waiting(r)
      /\ st.input_method_ /\ st.focused_surface_ # NoSurface /\ i \in Candidates(st) => r.active = i
  BY ActivateGood DEF Settled
<1>2. r.active # st.active => r.active # 0
  BY InputsAssumption DEF Activate, Deactivate, Settled, Base, RelayType, Inputs
<1> HIDE DEF r
<1>3. Settled(r)
  BY <1>1 DEF Settled, Same, SameFocus
<1>4. Candidates(r) = Candidates(st)
  BY <1>1 DEF Candidates, Same, SameFocus
<1>5. Served(r)
  BY <1>1, <1>2, <1>4 DEF Served, Same, SameFocus
<1> QED
  BY <1>1, <1>3, <1>5 DEF r

\* Only surface_ and asked differ.
SameButSurfaces(r, st) ==
  /\ Same(r, st) /\ r.relay_focused = st.relay_focused /\ r.entered = st.entered
  /\ r.focused_surface_ = st.focused_surface_ /\ r.active = st.active
  /\ r.pending = st.pending /\ r.im_active = st.im_active

LEMMA SurfacesGood ==
  ASSUME NEW st, Settled(st), NEW r \in RelayType, SameButSurfaces(r, st),
         \A i \in Inputs : r.surface_[i] # NoSurface => SameClient(i, r.surface_[i])
  PROVE  Settled(r) /\ (Waiting(st) => Waiting(r)) /\ (Served(st) => Served(r))
<1>1. Base(r)
  BY DEF Settled, Base, SameButSurfaces, Same
<1>2. Candidates(r) = Candidates(st)
  BY DEF Candidates, SameButSurfaces, Same
<1> QED
  BY <1>1, <1>2 DEF Settled, Served, Waiting, SameButSurfaces, Same

\* A text input that goes from enabled was the only one that could be served.
LEMMA NoOtherCandidate ==
  ASSUME NEW st, Settled(st), OneEnabled(st), st.active # 0, NEW j \in Candidates(st)
  PROVE  j = st.active \/ st.focused_surface_ = NoSurface
<1> SUFFICES ASSUME st.focused_surface_ # NoSurface PROVE j = st.active
  OBVIOUS
<1>1. /\ j \in Inputs /\ j \in st.enabled /\ st.relay_focused[j] = st.focused_surface_
      /\ st.active \in Inputs /\ st.active \in st.enabled
      /\ st.relay_focused[st.active] = st.focused_surface_
  BY DEF Settled, Base, RelayType, Candidates
<1>2. SameClient(j, st.focused_surface_) /\ SameClient(st.active, st.focused_surface_)
  BY <1>1 DEF Settled, Base
<1> QED
  BY <1>1, <1>2 DEF OneEnabled, SameClient

\* Disabling: nothing points to the text input, and no other was waiting.
LEMMA DisableGood ==
  ASSUME NEW st, Settled(st), NEW i \in Inputs
  PROVE  LET r == HandleDisable([st EXCEPT !.enabled = @ \ {i}], i) IN
         /\ Settled(r) /\ r.enabled = st.enabled \ {i} /\ r.surface_ = st.surface_
         /\ Waiting(st) => Waiting(r)
         /\ OneEnabled(st) /\ Served(st) => Served(r)
<1> DEFINE pending == IF st.pending = i THEN 0 ELSE st.pending
           left == [st EXCEPT !.enabled = st.enabled \ {i}, !.pending = pending]
           r == HandleDisable([st EXCEPT !.enabled = @ \ {i}], i)
<1>1. /\ r.created = st.created /\ r.text_inputs_ = st.text_inputs_ /\ r.enabled = st.enabled \ {i}
      /\ r.surfaces = st.surfaces /\ r.input_method_ = st.input_method_ /\ SameFocus(r, st)
      /\ r.pending = IF st.pending = i THEN 0 ELSE st.pending
      /\ r.active = IF st.active = i THEN 0 ELSE st.active
      /\ r.im_active = IF st.active = i THEN FALSE ELSE st.im_active
      /\ r \in RelayType
  <2>1. st \in RelayType /\ 0 \in 0 .. NumInputs /\ pending \in 0 .. NumInputs
    BY InputsAssumption DEF Settled, Base, RelayType
  <2>2. r = Deactivate(left, i)
    BY <2>1 DEF HandleDisable, RelayType
  <2> HIDE DEF pending
  <2>3. /\ left \in RelayType /\ left.created = st.created /\ left.text_inputs_ = st.text_inputs_
        /\ left.enabled = st.enabled \ {i} /\ left.surfaces = st.surfaces
        /\ left.input_method_ = st.input_method_ /\ SameFocus(left, st)
        /\ left.pending = pending /\ left.active = st.active /\ left.im_active = st.im_active
    BY <2>1 DEF RelayType, SameFocus
  <2> HIDE DEF left
  <2>4. CASE st.active # i
    BY <2>2, <2>3, <2>4 DEF Deactivate, pending
  <2>5. CASE st.active = i
    <3>1. r = [left EXCEPT !.active = 0, !.im_active = left.im_active /\ ~left.input_method_]
      BY <2>2, <2>3, <2>5 DEF Deactivate, RelayType
    <3>2. ~(left.im_active /\ ~left.input_method_)
      BY <2>3 DEF Settled, Base
    <3>3. r = [left EXCEPT !.active = 0, !.im_active = FALSE]
      BY <3>1, <3>2
    <3> QED
      BY <2>1, <2>3, <2>5, <3>3 DEF RelayType, SameFocus, pending
  <2> QED
    BY <2>4, <2>5
<1> HIDE DEF r
<1>2. Base(r)
  BY <1>1 DEF Settled, Base, SameFocus
<1>3. Settled(r)
  BY <1>1, <1>2 DEF Settled, SameFocus
<1>4. ASSUME OneEnabled(st), Served(st) PROVE Served(r)
  <2>1. Candidates(r) = Candidates(st) \ {i}
    BY <1>1 DEF Candidates, SameFocus
  <2>2. CASE st.active = i /\ i # 0
    BY <1>1, <1>4, <2>1, <2>2, NoOtherCandidate DEF Served, SameFocus
  <2>3. CASE ~(st.active = i /\ i # 0)
    BY <1>1, <1>4, <2>1, <2>3 DEF Served, SameFocus
  <2> QED
    BY <2>2, <2>3
<1> QED
  BY <1>1, <1>3, <1>4 DEF r, SameFocus, Waiting

\* Text inputs that are destroyed are forgotten everywhere.
LEMMA HandleDestroyGood ==
  ASSUME NEW st, Base(st), NEW inputs \in SUBSET Inputs
  PROVE  LET r == HandleDestroy(st, inputs) IN
         /\ Base(r) /\ r.text_inputs_ = st.text_inputs_ \ inputs /\ r.enabled = st.enabled \ inputs
         /\ r.surfaces = st.surfaces /\ r.input_method_ = st.input_method_
         /\ r.focused_surface_ = st.focused_surface_ /\ (Waiting(st) => Waiting(r))
         /\ r.active = IF st.active \in inputs THEN 0 ELSE st.active
         /\ r.relay_focused = Cleared(st.relay_focused, inputs)
         /\ r.entered = Cleared(st.entered, inputs)
<1> DEFINE r == HandleDestroy(st, inputs)
           left == IF st.active \in inputs THEN Deactivate(st, st.active) ELSE st
           pending == IF st.pending \in inputs THEN 0 ELSE st.pending
<1>1. /\ Base(left) /\ Same(left, st) /\ SameFocus(left, st) /\ left.pending = st.pending
      /\ left.active = IF st.active \in inputs THEN 0 ELSE st.active
  <2>1. Same(st, st) /\ SameFocus(st, st)
    BY DEF Same, SameFocus
  <2> QED
    BY <2>1, DeactivateGood
<1>2. r = [left EXCEPT !.pending = pending, !.text_inputs_ = st.text_inputs_ \ inputs,
                       !.enabled = st.enabled \ inputs,
                       !.surface_ = Cleared(left.surface_, inputs),
                       !.asked = Cleared(left.asked, inputs),
                       !.relay_focused = Cleared(left.relay_focused, inputs),
                       !.entered = Cleared(left.entered, inputs)]
  BY <1>1 DEF HandleDestroy, Base, RelayType, Same
<1> HIDE DEF left
<1>3. \A at \in [Inputs -> Places] :
        /\ Cleared(at, inputs) \in [Inputs -> Places]
        /\ \A i \in Inputs : Cleared(at, inputs)[i] = IF i \in inputs THEN NoSurface ELSE at[i]
  BY DEF Cleared, Places
<1>4. pending \in 0 .. NumInputs /\ pending \in (st.text_inputs_ \ inputs) \cup {0}
  BY <1>1, InputsAssumption DEF Base, RelayType
<1> HIDE DEF pending
<1>5. /\ left.surface_ \in [Inputs -> Places] /\ left.asked \in [Inputs -> Places]
      /\ left.relay_focused \in [Inputs -> Places] /\ left.entered \in [Inputs -> Places]
      /\ st.text_inputs_ \ inputs \in SUBSET Inputs /\ st.enabled \ inputs \in SUBSET Inputs
  BY <1>1 DEF Base, RelayType
<1>6. r \in RelayType
  <2>1. left \in RelayType
    BY <1>1 DEF Base
  <2>2. /\ Cleared(left.surface_, inputs) \in [Inputs -> Places]
        /\ Cleared(left.asked, inputs) \in [Inputs -> Places]
        /\ Cleared(left.relay_focused, inputs) \in [Inputs -> Places]
        /\ Cleared(left.entered, inputs) \in [Inputs -> Places]
    BY <1>3, <1>5
  <2> HIDE DEF r
  <2> QED
    BY <1>2, <1>4, <1>5, <2>1, <2>2, ZenonT(60) DEF RelayType
<1>7. /\ r.pending = pending /\ r.text_inputs_ = st.text_inputs_ \ inputs
      /\ r.enabled = st.enabled \ inputs /\ r.surface_ = Cleared(left.surface_, inputs)
      /\ r.relay_focused = Cleared(left.relay_focused, inputs)
      /\ r.entered = Cleared(left.entered, inputs)
      /\ r.created = left.created /\ r.surfaces = left.surfaces /\ r.active = left.active
      /\ r.input_method_ = left.input_method_ /\ r.im_active = left.im_active
      /\ r.focused_surface_ = left.focused_surface_
  BY <1>1, <1>2 DEF Base, RelayType
<1> HIDE DEF r
<1>8. /\ \A i \in Inputs : r.relay_focused[i] = IF i \in inputs THEN NoSurface ELSE st.relay_focused[i]
      /\ \A i \in Inputs : r.surface_[i] = IF i \in inputs THEN NoSurface ELSE st.surface_[i]
  BY <1>1, <1>3, <1>5, <1>7 DEF SameFocus
<1>9. left.active # 0 => left.active \notin inputs /\ left.active \in Inputs
  BY <1>1 DEF Base, RelayType
<1>10. Base(r)
  <2>1. \A i \in Inputs : r.relay_focused[i] # NoSurface =>
          i \in r.text_inputs_ /\ SameClient(i, r.relay_focused[i])
    BY <1>7, <1>8 DEF Base
  <2>2. \A i \in Inputs : r.surface_[i] # NoSurface => SameClient(i, r.surface_[i])
    BY <1>8 DEF Base
  <2>3. r.text_inputs_ \subseteq 1 .. r.created /\ r.enabled \subseteq r.text_inputs_
    BY <1>1, <1>7 DEF Base, Same
  <2>4. r.active # 0 =>
          r.input_method_ /\ r.active \in r.enabled /\ r.relay_focused[r.active] # NoSurface
    BY <1>1, <1>7, <1>8, <1>9 DEF Base, Same, SameFocus
  <2>5. r.active \in r.text_inputs_ \cup {0} /\ (r.im_active <=> r.active # 0)
    BY <1>1, <1>7, <1>9 DEF Base, Same
  <2>6. r.pending \in r.text_inputs_ \cup {0}
    BY <1>4, <1>7
  <2> QED
    BY <1>6, <2>1, <2>2, <2>3, <2>4, <2>5, <2>6 DEF Base
<1>11. Waiting(st) => Waiting(r)
  BY <1>1, <1>7 DEF Waiting, Same, pending
<1> QED
  BY <1>1, <1>7, <1>10, <1>11 DEF r, Same, SameFocus

\* While the focus stays, the relay is settled after text inputs went.
LEMMA DestroySettled ==
  ASSUME NEW st, Settled(st), NEW inputs \in SUBSET Inputs
  PROVE  LET r == HandleDestroy(st, inputs) IN
         /\ Settled(r) /\ r.enabled \subseteq st.enabled /\ (Waiting(st) => Waiting(r))
         /\ OneEnabled(st) /\ Served(st) => Served(r)
<1> DEFINE r == HandleDestroy(st, inputs)
<1>1. /\ Base(r) /\ r.text_inputs_ = st.text_inputs_ \ inputs /\ r.enabled = st.enabled \ inputs
      /\ r.surfaces = st.surfaces /\ r.input_method_ = st.input_method_
      /\ r.focused_surface_ = st.focused_surface_ /\ (Waiting(st) => Waiting(r))
      /\ r.active = IF st.active \in inputs THEN 0 ELSE st.active
      /\ r.relay_focused = Cleared(st.relay_focused, inputs)
      /\ r.entered = Cleared(st.entered, inputs)
  BY HandleDestroyGood DEF Settled
<1> HIDE DEF r
<1>2. Settled(r)
  BY <1>1 DEF Settled, Cleared, V3
<1>3. Candidates(r) = Candidates(st) \ inputs
  BY <1>1 DEF Candidates, Cleared, Settled, Base, RelayType
<1>4. ASSUME OneEnabled(st), Served(st) PROVE Served(r)
  <2>1. 0 \notin inputs
    BY InputsAssumption DEF Inputs
  <2>2. CASE st.active \in inputs
    BY <1>1, <1>3, <1>4, <2>1, <2>2, NoOtherCandidate DEF Served
  <2>3. CASE st.active \notin inputs
    BY <1>1, <1>3, <1>4, <2>3 DEF Served
  <2> QED
    BY <2>2, <2>3
<1> QED
  BY <1>1, <1>2, <1>4 DEF r

\* Clients enable one text input at a time, as the protocol asks.
OneAtATime == "second" \notin InputEvents

\* What every action keeps.
Keeps(st, r) ==
  /\ Settled(r)
  /\ Waiting(st) => Waiting(r)
  /\ OneAtATime /\ OneEnabled(st) /\ Served(st) => OneEnabled(r) /\ Served(r)

\* What is known of a surface that goes is forgotten.
LEMMA ForgetSurfaceGood ==
  ASSUME NEW st, Base(st), NEW s \in Surfaces
  PROVE  \E forgotten, inert :
           /\ Base(forgotten) /\ Same(forgotten, st) /\ inert \in SUBSET V1
           /\ forgotten.relay_focused = st.relay_focused
           /\ forgotten.focused_surface_ = st.focused_surface_
           /\ forgotten.active = st.active /\ forgotten.pending = st.pending
           /\ \A i \in V3 : forgotten.entered[i] = IF st.entered[i] = s THEN NoSurface
                                                   ELSE st.entered[i]
           /\ ForgetSurface(st, s) = HandleDestroy(forgotten, inert)
<1> DEFINE inert == {i \in V1 : st.surface_[i] = s}
           Gone(at) == [i \in Inputs |-> IF at[i] = s THEN NoSurface ELSE at[i]]
           entered == [i \in Inputs |-> IF i \in V3 /\ st.entered[i] = s THEN NoSurface
                                        ELSE st.entered[i]]
           f == [st EXCEPT !.surface_ = Gone(st.surface_), !.asked = Gone(st.asked),
                           !.entered = entered]
<1>1. ForgetSurface(st, s) = HandleDestroy(f, inert)
  BY DEF ForgetSurface, Base, RelayType
<1>2. /\ Gone(st.surface_) \in [Inputs -> Places] /\ Gone(st.asked) \in [Inputs -> Places]
      /\ entered \in [Inputs -> Places]
  BY DEF Base, RelayType, Places
<1>3. \A i \in Inputs : Gone(st.surface_)[i] # NoSurface => Gone(st.surface_)[i] = st.surface_[i]
  OBVIOUS
<1>4. \A i \in V3 : entered[i] = IF st.entered[i] = s THEN NoSurface ELSE st.entered[i]
  BY DEF V3
<1> HIDE DEF Gone, entered
<1>5. f \in RelayType
  BY <1>2 DEF Base, RelayType
<1>6. /\ Same(f, st) /\ f.relay_focused = st.relay_focused
      /\ f.focused_surface_ = st.focused_surface_ /\ f.active = st.active
      /\ f.pending = st.pending /\ f.im_active = st.im_active
      /\ f.surface_ = Gone(st.surface_) /\ f.entered = entered
  BY DEF Base, RelayType, Same
<1> HIDE DEF f
<1>7. Base(f)
  BY <1>3, <1>5, <1>6 DEF Base, Same
<1> HIDE DEF inert
<1>8. inert \in SUBSET V1
  BY DEF inert
<1> QED
  BY <1>1, <1>4, <1>6, <1>7, <1>8

\* A surface without the focus goes.
LEMMA ForgetSettled ==
  ASSUME NEW st, Settled(st), NEW s \in Surfaces, st.focused_surface_ # s
  PROVE  Keeps(st, ForgetSurface(st, s)) /\ ForgetSurface(st, s).enabled \subseteq st.enabled
<1>1. PICK f, inert :
        /\ Base(f) /\ Same(f, st) /\ inert \in SUBSET V1
        /\ f.relay_focused = st.relay_focused /\ f.focused_surface_ = st.focused_surface_
        /\ f.active = st.active /\ f.pending = st.pending
        /\ \A i \in V3 : f.entered[i] = IF st.entered[i] = s THEN NoSurface ELSE st.entered[i]
        /\ ForgetSurface(st, s) = HandleDestroy(f, inert)
  BY ForgetSurfaceGood DEF Settled
<1>2. s # NoSurface
  BY InputsAssumption DEF NoSurface
<1>3. \A i \in V3 : f.entered[i] = f.relay_focused[i]
  BY <1>1, <1>2 DEF Settled, Same, V3
<1>4. Settled(f)
  BY <1>1, <1>3 DEF Settled, Same
<1>5. Candidates(f) = Candidates(st)
  BY <1>1 DEF Candidates, Same
<1>6. /\ OneEnabled(st) /\ Served(st) => OneEnabled(f) /\ Served(f)
      /\ Waiting(st) => Waiting(f)
  BY <1>1, <1>5 DEF Served, OneEnabled, Waiting, Same
<1>7. inert \in SUBSET Inputs
  BY <1>1, InputsAssumption
<1>8. /\ Waiting(f) => Waiting(HandleDestroy(f, inert))
      /\ Settled(HandleDestroy(f, inert)) /\ HandleDestroy(f, inert).enabled \subseteq f.enabled
      /\ OneEnabled(f) /\ Served(f) => Served(HandleDestroy(f, inert))
  BY <1>4, <1>7, DestroySettled
<1> QED
  BY <1>1, <1>6, <1>8 DEF Keeps, OneEnabled, Same

(***************************************************************************)
(* The actions.                                                            *)
(***************************************************************************)
LEMMA AddTextInputGood ==
  ASSUME Settled(relay), NEW i \in Inputs, AddTextInput(i) PROVE Keeps(relay, relay')
<1> DEFINE st == [relay EXCEPT !.created = i, !.text_inputs_ = @ \cup {i}]
           focus == relay.focused_surface_
<1>1. /\ st \in RelayType /\ st.created = i /\ st.text_inputs_ = relay.text_inputs_ \cup {i}
      /\ st.enabled = relay.enabled /\ SameFocus(st, relay) /\ st.surfaces = relay.surfaces
      /\ st.input_method_ = relay.input_method_ /\ st.active = relay.active
      /\ st.pending = relay.pending /\ st.im_active = relay.im_active
  <2>1. i \in 0 .. NumInputs /\ relay \in RelayType
    BY InputsAssumption DEF Settled, Base, Inputs
  <2>2. relay.text_inputs_ \cup {i} \in SUBSET Inputs
    BY <2>1 DEF RelayType
  <2> QED
    BY <2>1, <2>2 DEF RelayType, SameFocus
<1>2. i \notin relay.text_inputs_ /\ i \notin relay.enabled /\ relay.relay_focused[i] = NoSurface
      /\ i = relay.created + 1
  <2>1. i = relay.created + 1 /\ relay.created \in Nat
    BY InputsAssumption DEF AddTextInput, Settled, Base, RelayType
  <2>2. i \notin 1 .. relay.created
    BY <2>1
  <2> QED
    BY <2>1, <2>2 DEF Settled, Base
<1>3. relay' = IF MatchesSurface(st, i, focus) THEN Enter(st, {i}, focus) ELSE st
  BY <1>1 DEF AddTextInput, SameFocus
<1> HIDE DEF st
<1>4. Base(st)
  <2>1. relay.created \in Nat
    BY InputsAssumption DEF Settled, Base, RelayType
  <2>2. st.text_inputs_ \subseteq 1 .. st.created
    BY <1>1, <1>2, <2>1 DEF Settled, Base
  <2> QED
    BY <1>1, <2>2 DEF Settled, Base, SameFocus
<1>5. CASE ~MatchesSurface(st, i, focus)
  <2>1. Settled(st) /\ Candidates(st) = Candidates(relay)
    BY <1>1, <1>2, <1>4 DEF Settled, Candidates, SameFocus
  <2> QED
    BY <1>1, <1>3, <1>5, <2>1 DEF Keeps, OneEnabled, Served, Waiting, SameFocus
<1>6. CASE MatchesSurface(st, i, focus)
  <2>1. focus \in Places /\ focus # NoSurface /\ SameClient(i, focus)
    BY <1>1, <1>4, <1>6 DEF MatchesSurface, Settled, Base, RelayType
  <2>2. /\ Base(relay') /\ Same(relay', st) /\ relay'.focused_surface_ = focus
        /\ relay'.active = relay.active /\ relay'.pending = relay.pending
        /\ relay'.relay_focused = [j \in Inputs |-> IF j \in {i} THEN focus ELSE st.relay_focused[j]]
        /\ relay'.entered = [j \in Inputs |-> IF j \in {i} THEN focus ELSE st.entered[j]]
    BY <1>1, <1>3, <1>4, <1>6, <2>1, EnterGood DEF SameFocus
  <2>3. Settled(relay')
    BY <1>1, <2>2 DEF Settled, Same, SameFocus, V3
  <2>4. Candidates(relay') = Candidates(relay)
    BY <1>1, <1>2, <2>2 DEF Candidates, Same, SameFocus, Settled, Base, RelayType
  <2> QED
    BY <1>1, <2>2, <2>3, <2>4 DEF Keeps, OneEnabled, Served, Waiting, Same
<1> QED
  BY <1>5, <1>6

\* Enabling a text input, for a surface of its client if it is of v1 or v2.
LEMMA EnableGood ==
  ASSUME Settled(relay), NEW i \in relay.text_inputs_, MayEnable(i), NEW st \in RelayType,
         st.enabled = relay.enabled \cup {i}, st.created = relay.created,
         st.text_inputs_ = relay.text_inputs_, st.surfaces = relay.surfaces,
         st.input_method_ = relay.input_method_, st.relay_focused = relay.relay_focused,
         st.entered = relay.entered, st.focused_surface_ = relay.focused_surface_,
         st.active = relay.active, st.pending = relay.pending, st.im_active = relay.im_active,
         \A j \in Inputs : st.surface_[j] # NoSurface => SameClient(j, st.surface_[j])
  PROVE  Keeps(relay, HandleEnable(st, i))
<1> DEFINE r == UpdateFocus(st, st.focused_surface_)
<1>1. Base(st)
  BY DEF Settled, Base
<1>2. Settled(r) /\ Served(r) /\ Same(r, st) /\ (Waiting(st) => Waiting(r))
  BY <1>1, UpdateFocusGood DEF Settled
<1> HIDE DEF r
<1>3. /\ Settled(Activate(r, i)) /\ Served(Activate(r, i)) /\ Same(Activate(r, i), r)
      /\ Waiting(r) => Waiting(Activate(r, i))
  BY <1>2, ActivateSettled
<1>4. HandleEnable(st, i) = Activate(r, i)
  BY DEF HandleEnable, r
<1>5. /\ OneAtATime /\ OneEnabled(relay) => OneEnabled(st)
      /\ Waiting(relay) => Waiting(st)
  BY DEF OneAtATime, OneEnabled, MayEnable, Waiting
<1> QED
  BY <1>2, <1>3, <1>4, <1>5 DEF Keeps, Same, OneEnabled

LEMMA EnableV3Good ==
  ASSUME Settled(relay), NEW i \in Inputs, EnableV3(i) PROVE Keeps(relay, relay')
<1> DEFINE st == [relay EXCEPT !.enabled = @ \cup {i}]
<1>1. /\ st \in RelayType /\ st.enabled = relay.enabled \cup {i} /\ st.created = relay.created
      /\ st.text_inputs_ = relay.text_inputs_ /\ st.surfaces = relay.surfaces
      /\ st.input_method_ = relay.input_method_ /\ st.relay_focused = relay.relay_focused
      /\ st.entered = relay.entered /\ st.focused_surface_ = relay.focused_surface_
      /\ st.active = relay.active /\ st.pending = relay.pending /\ st.im_active = relay.im_active
      /\ st.surface_ = relay.surface_
  BY DEF Settled, Base, RelayType
<1>2. \A j \in Inputs : st.surface_[j] # NoSurface => SameClient(j, st.surface_[j])
  BY <1>1 DEF Settled, Base
<1>3. relay' = HandleEnable(st, i) /\ i \in relay.text_inputs_ /\ MayEnable(i)
  BY DEF EnableV3
<1> HIDE DEF st
<1> QED
  BY <1>1, <1>2, <1>3, EnableGood

LEMMA EnableSurfaceGood ==
  ASSUME Settled(relay), NEW i \in Inputs, NEW s \in Surfaces, ActivateV1(i, s) \/ EnableV2(i, s)
  PROVE  Keeps(relay, relay')
<1> DEFINE st == [relay EXCEPT !.enabled = @ \cup {i}, !.surface_[i] = s, !.asked[i] = s]
<1>1. /\ st \in RelayType /\ st.enabled = relay.enabled \cup {i} /\ st.created = relay.created
      /\ st.text_inputs_ = relay.text_inputs_ /\ st.surfaces = relay.surfaces
      /\ st.input_method_ = relay.input_method_ /\ st.relay_focused = relay.relay_focused
      /\ st.entered = relay.entered /\ st.focused_surface_ = relay.focused_surface_
      /\ st.active = relay.active /\ st.pending = relay.pending /\ st.im_active = relay.im_active
      /\ st.surface_ = [relay.surface_ EXCEPT ![i] = s]
  BY DEF Settled, Base, RelayType, Places
<1>2. relay' = HandleEnable(st, i) /\ i \in relay.text_inputs_ /\ MayEnable(i) /\ SameClient(i, s)
  BY DEF ActivateV1, EnableV2
<1> HIDE DEF st
<1>3. \A j \in Inputs : st.surface_[j] # NoSurface => SameClient(j, st.surface_[j])
  BY <1>1, <1>2 DEF Settled, Base, RelayType
<1> QED
  BY <1>1, <1>2, <1>3, EnableGood

LEMMA DisableV3Good ==
  ASSUME Settled(relay), NEW i \in Inputs, DisableV3(i) PROVE Keeps(relay, relay')
<1>1. /\ Settled(relay') /\ relay'.enabled = relay.enabled \ {i}
      /\ Waiting(relay) => Waiting(relay')
      /\ OneEnabled(relay) /\ Served(relay) => Served(relay')
  BY DisableGood DEF DisableV3
<1> QED
  BY <1>1 DEF Keeps, OneEnabled

LEMMA DeactivateV1Good ==
  ASSUME Settled(relay), NEW i \in Inputs, DeactivateV1(i) PROVE Keeps(relay, relay')
<1> DEFINE d == HandleDisable([relay EXCEPT !.enabled = @ \ {i}], i)
<1>1. /\ Settled(d) /\ d.enabled = relay.enabled \ {i} /\ d.surface_ = relay.surface_
      /\ Waiting(relay) => Waiting(d)
      /\ OneEnabled(relay) /\ Served(relay) => Served(d)
  BY DisableGood
<1>2. relay' = [d EXCEPT !.surface_[i] = NoSurface, !.asked[i] = NoSurface]
  BY DEF DeactivateV1
<1> HIDE DEF d
<1>3. /\ relay' \in RelayType /\ SameButSurfaces(relay', d)
      /\ relay'.surface_ = [d.surface_ EXCEPT ![i] = NoSurface]
  BY <1>1, <1>2 DEF Settled, Base, RelayType, Places, SameButSurfaces, Same
<1>4. \A j \in Inputs : relay'.surface_[j] # NoSurface => SameClient(j, relay'.surface_[j])
  BY <1>1, <1>3 DEF Settled, Base, RelayType
<1>5. Settled(relay') /\ (Waiting(d) => Waiting(relay')) /\ (Served(d) => Served(relay'))
  BY <1>1, <1>3, <1>4, SurfacesGood
<1> QED
  BY <1>1, <1>3, <1>5 DEF Keeps, OneEnabled, SameButSurfaces, Same

LEMMA DisableV2Good ==
  ASSUME Settled(relay), NEW i \in Inputs, DisableV2(i) PROVE Keeps(relay, relay')
<1> DEFINE st == [relay EXCEPT !.asked[i] = NoSurface]
           d == HandleDisable([st EXCEPT !.enabled = @ \ {i}], i)
<1>1. st \in RelayType /\ SameButSurfaces(st, relay) /\ st.surface_ = relay.surface_
  BY DEF Settled, Base, RelayType, Places, SameButSurfaces, Same
<1>2. Settled(st) /\ (Waiting(relay) => Waiting(st)) /\ (Served(relay) => Served(st))
  <2>1. \A j \in Inputs : st.surface_[j] # NoSurface => SameClient(j, st.surface_[j])
    BY <1>1 DEF Settled, Base
  <2> HIDE DEF st
  <2> QED
    BY <1>1, <2>1, SurfacesGood
<1>3. relay' = st \/ relay' = [d EXCEPT !.surface_[i] = NoSurface]
  BY DEF DisableV2
<1> HIDE DEF st
<1>4. OneEnabled(relay) => OneEnabled(st)
  BY <1>1 DEF OneEnabled, SameButSurfaces, Same
<1>5. /\ Settled(d) /\ d.enabled = st.enabled \ {i} /\ d.surface_ = st.surface_
      /\ Waiting(st) => Waiting(d)
      /\ OneEnabled(st) /\ Served(st) => Served(d)
  BY <1>2, DisableGood
<1> HIDE DEF d
<1>6. CASE relay' = [d EXCEPT !.surface_[i] = NoSurface]
  <2>1. /\ relay' \in RelayType /\ SameButSurfaces(relay', d)
        /\ relay'.surface_ = [d.surface_ EXCEPT ![i] = NoSurface]
    BY <1>5, <1>6 DEF Settled, Base, RelayType, Places, SameButSurfaces, Same
  <2>2. \A j \in Inputs : relay'.surface_[j] # NoSurface => SameClient(j, relay'.surface_[j])
    BY <1>5, <2>1 DEF Settled, Base, RelayType
  <2>3. Settled(relay') /\ (Waiting(d) => Waiting(relay')) /\ (Served(d) => Served(relay'))
    BY <1>5, <2>1, <2>2, SurfacesGood
  <2> QED
    BY <1>2, <1>4, <1>5, <2>1, <2>3 DEF Keeps, OneEnabled, SameButSurfaces, Same
<1> QED
  BY <1>2, <1>3, <1>4, <1>6 DEF Keeps

LEMMA DestroyTextInputGood ==
  ASSUME Settled(relay), NEW i \in Inputs, DestroyTextInput(i) PROVE Keeps(relay, relay')
<1>1. {i} \in SUBSET Inputs /\ relay' = HandleDestroy(relay, {i})
  BY DEF DestroyTextInput
<1> QED
  BY <1>1, DestroySettled DEF Keeps, OneEnabled

LEMMA FocusChangeGood ==
  ASSUME Settled(relay), NEW s \in Places, OnKeyboardFocusChange(s) PROVE Keeps(relay, relay')
<1>1. Settled(relay') /\ Served(relay') /\ Same(relay', relay) /\ (Waiting(relay) => Waiting(relay'))
  BY UpdateFocusGood DEF OnKeyboardFocusChange, Settled
<1> QED
  BY <1>1 DEF Keeps, OneEnabled, Same

\* A surface goes: whether the seat or the text inputs hear of it first, the
\* relay is settled when both have.
LEMMA SurfaceDestroyGood ==
  ASSUME Settled(relay), NEW s \in Surfaces, OnSurfaceDestroy(s) PROVE Keeps(relay, relay')
<1> DEFINE st == [relay EXCEPT !.surfaces = @ \ {s}]
<1>1. /\ st \in RelayType /\ Same([st EXCEPT !.surfaces = relay.surfaces], relay)
      /\ st.surfaces = relay.surfaces \ {s} /\ SameFocus(st, relay)
      /\ st.created = relay.created /\ st.text_inputs_ = relay.text_inputs_
      /\ st.enabled = relay.enabled /\ st.input_method_ = relay.input_method_
      /\ st.active = relay.active /\ st.pending = relay.pending /\ st.im_active = relay.im_active
  BY DEF Settled, Base, RelayType, Same, SameFocus
<1>2. relay' = ForgetSurface(LoseFocus(st, s), s) \/ relay' = LoseFocus(ForgetSurface(st, s), s)
  BY DEF OnSurfaceDestroy
<1> HIDE DEF st
<1>3. /\ Base(st) /\ \A i \in V3 : st.entered[i] = st.relay_focused[i]
      /\ \A i \in Inputs : st.relay_focused[i] \in {NoSurface, st.focused_surface_}
  BY <1>1 DEF Settled, Base, SameFocus
<1>4. s # NoSurface
  BY InputsAssumption DEF NoSurface
<1>5. CASE st.focused_surface_ # s
  <2>1. Settled(st)
    BY <1>1, <1>3, <1>5 DEF Settled, SameFocus
  <2>2. Keeps(st, ForgetSurface(st, s)) /\ ForgetSurface(st, s).enabled \subseteq st.enabled
    BY <1>5, <2>1, ForgetSettled
  <2>3. Candidates(st) = Candidates(relay)
    BY <1>1 DEF Candidates, SameFocus
  <2>4. /\ OneEnabled(relay) /\ Served(relay) => OneEnabled(st) /\ Served(st)
        /\ Waiting(relay) => Waiting(st)
    BY <1>1, <2>3 DEF Served, OneEnabled, Waiting, SameFocus
  <2>5. ForgetSurface(st, s).focused_surface_ # s
    <3>1. PICK f, inert :
            /\ Base(f) /\ inert \in SUBSET V1 /\ f.focused_surface_ = st.focused_surface_
            /\ ForgetSurface(st, s) = HandleDestroy(f, inert)
      BY <1>3, ForgetSurfaceGood
    <3>2. inert \in SUBSET Inputs
      BY <3>1, InputsAssumption
    <3> QED
      BY <1>5, <3>1, <3>2, HandleDestroyGood
  <2>6. relay' = ForgetSurface(st, s)
    BY <1>2, <1>5, <2>5 DEF LoseFocus
  <2> QED
    BY <2>2, <2>4, <2>6 DEF Keeps
<1>6. CASE st.focused_surface_ = s /\ relay' = ForgetSurface(LoseFocus(st, s), s)
  <2> DEFINE u == UpdateFocus(st, NoSurface)
  <2>1. /\ Settled(u) /\ Served(u) /\ Same(u, st) /\ u.focused_surface_ = NoSurface
        /\ Waiting(st) => Waiting(u)
    BY <1>3, UpdateFocusGood
  <2>2. relay' = ForgetSurface(u, s)
    BY <1>6 DEF LoseFocus
  <2> HIDE DEF u
  <2>3. Keeps(u, relay')
    BY <1>4, <2>1, <2>2, ForgetSettled
  <2> QED
    BY <1>1, <2>1, <2>3 DEF Keeps, OneEnabled, Waiting, Same
<1>7. CASE st.focused_surface_ = s /\ relay' = LoseFocus(ForgetSurface(st, s), s)
  <2>1. PICK f, inert :
          /\ Base(f) /\ Same(f, st) /\ inert \in SUBSET V1
          /\ f.relay_focused = st.relay_focused /\ f.focused_surface_ = st.focused_surface_
          /\ f.active = st.active /\ f.pending = st.pending
          /\ \A i \in V3 : f.entered[i] = IF st.entered[i] = s THEN NoSurface ELSE st.entered[i]
          /\ ForgetSurface(st, s) = HandleDestroy(f, inert)
    BY <1>3, ForgetSurfaceGood
  <2>2. inert \in SUBSET Inputs
    BY <2>1, InputsAssumption
  <2> DEFINE d == HandleDestroy(f, inert)
             u == UpdateFocus(d, NoSurface)
  <2>3. /\ Base(d) /\ d.enabled = f.enabled \ inert /\ d.focused_surface_ = s
        /\ d.relay_focused = Cleared(f.relay_focused, inert)
        /\ d.entered = Cleared(f.entered, inert) /\ (Waiting(f) => Waiting(d))
    BY <1>7, <2>1, <2>2, HandleDestroyGood
  <2> HIDE DEF d
  <2>4. \A i \in V3 :
          \/ d.entered[i] = d.relay_focused[i]
          \/ d.entered[i] = NoSurface /\ d.relay_focused[i] \notin {NoSurface, NoSurface}
    BY <1>3, <1>4, <1>7, <2>1, <2>3 DEF Cleared, V3
  <2>5. /\ Settled(u) /\ Served(u) /\ Same(u, d) /\ (Waiting(d) => Waiting(u))
    BY <2>3, <2>4, UpdateFocusGood
  <2>6. relay' = u
    BY <1>7, <2>1, <2>3 DEF LoseFocus, d
  <2> HIDE DEF u
  <2> QED
    BY <1>1, <2>1, <2>3, <2>5, <2>6 DEF Keeps, OneEnabled, Waiting, Same
<1> QED
  BY <1>2, <1>5, <1>6, <1>7

\* The input method comes: the text input that waited is served, or the first.
LEMMA NewInputMethodGood ==
  ASSUME Settled(relay), OnNewInputMethod
  PROVE  Settled(relay') /\ Waiting(relay') /\ Served(relay') /\ relay'.enabled = relay.enabled
<1> DEFINE new == [relay EXCEPT !.input_method_ = TRUE]
           st == UpdateFocus(new, relay.focused_surface_)
           idle == [st EXCEPT !.pending = 0]
<1>1. /\ new \in RelayType /\ SameFocus(new, relay) /\ new.surfaces = relay.surfaces
      /\ new.created = relay.created /\ new.text_inputs_ = relay.text_inputs_
      /\ new.enabled = relay.enabled /\ new.input_method_ = TRUE
      /\ new.active = relay.active /\ new.pending = relay.pending /\ new.im_active = relay.im_active
  BY DEF Settled, Base, RelayType, SameFocus
<1>2. PICK candidate : relay' = Activate(idle, candidate)
  BY DEF OnNewInputMethod
<1> HIDE DEF new
<1>3. Base(new)
  BY <1>1 DEF Settled, Base, SameFocus
<1>4. Settled(st) /\ Served(st) /\ Same(st, new)
  BY <1>1, <1>3, UpdateFocusGood DEF Settled, SameFocus
<1> HIDE DEF st
<1>5. /\ idle \in RelayType /\ Same(idle, st) /\ SameFocus(idle, st) /\ idle.active = st.active
      /\ idle.pending = 0 /\ idle.im_active = st.im_active
  BY <1>4, InputsAssumption DEF Settled, Base, RelayType, Same, SameFocus
<1> HIDE DEF idle
<1>6. Settled(idle) /\ Served(idle) /\ Waiting(idle)
  <2>1. Candidates(idle) = Candidates(st)
    BY <1>5 DEF Candidates, Same, SameFocus
  <2>2. Base(idle)
    BY <1>4, <1>5 DEF Settled, Base, Same, SameFocus
  <2> QED
    BY <1>4, <1>5, <2>1, <2>2 DEF Settled, Served, Waiting, Same, SameFocus
<1>7. /\ Settled(relay') /\ Served(relay') /\ Same(relay', idle)
      /\ Waiting(idle) => Waiting(relay')
  BY <1>2, <1>6, ActivateSettled
<1> QED
  BY <1>1, <1>4, <1>5, <1>6, <1>7 DEF Same

\* The input method goes: the active text input waits for the next.
LEMMA InputMethodDestroyGood ==
  ASSUME Settled(relay), OnInputMethodDestroy
  PROVE  Settled(relay') /\ Waiting(relay') /\ Served(relay') /\ relay'.enabled = relay.enabled
<1>1. 0 \in 0 .. NumInputs /\ relay \in RelayType /\ relay.active \in 0 .. NumInputs
  BY InputsAssumption DEF Settled, Base, RelayType
<1>2. /\ relay' \in RelayType /\ SameFocus(relay', relay) /\ relay'.surfaces = relay.surfaces
      /\ relay'.created = relay.created /\ relay'.text_inputs_ = relay.text_inputs_
      /\ relay'.enabled = relay.enabled /\ relay'.input_method_ = FALSE
      /\ relay'.active = 0 /\ relay'.pending = relay.active /\ relay'.im_active = FALSE
  BY <1>1 DEF OnInputMethodDestroy, RelayType, SameFocus
<1>3. Base(relay')
  BY <1>2 DEF Settled, Base, SameFocus
<1> QED
  BY <1>2, <1>3 DEF Settled, Served, Waiting, SameFocus

(***************************************************************************)
(* The specification.                                                      *)
(***************************************************************************)
RelayGood == Settled(relay) /\ Waiting(relay)
RelayServed == RelayGood /\ OneEnabled(relay) /\ Served(relay)

LEMMA RelayInitGood == RelayInit => RelayServed
<1> SUFFICES ASSUME RelayInit PROVE RelayServed
  OBVIOUS
<1>1. 0 \in 0 .. NumInputs /\ Nowhere \in [Inputs -> Places] /\ \A i \in Inputs : Nowhere[i] = NoSurface
  BY InputsAssumption DEF Nowhere, Places
<1> HIDE DEF Nowhere
<1>2. relay \in RelayType
  BY <1>1 DEF RelayInit, RelayType, Places
<1>3. Base(relay)
  BY <1>1, <1>2 DEF RelayInit, Base
<1> QED
  BY <1>1, <1>3 DEF RelayInit, RelayServed, RelayGood, Settled, Waiting, OneEnabled, Served,
                    Candidates, V3

LEMMA RelayNextGood ==
  ASSUME RelayGood, [RelayNext]_relay
  PROVE  RelayGood' /\ (OneAtATime /\ RelayServed => RelayServed')
<1> USE DEF RelayGood, RelayServed
<1>1. Settled(relay)
  OBVIOUS
<1>2. SUFFICES ASSUME RelayNext PROVE RelayGood' /\ (OneAtATime /\ RelayServed => RelayServed')
  <2>1. CASE UNCHANGED relay
    BY <2>1 DEF Settled, Base, Waiting, OneEnabled, Served, Candidates
  <2> QED
    BY <2>1
<1>3. CASE InputNext
  <2>1. Keeps(relay, relay')
    BY <1>1, <1>3, AddTextInputGood, DestroyTextInputGood, EnableV3Good, DisableV3Good,
       DeactivateV1Good, DisableV2Good, EnableSurfaceGood DEF InputNext
  <2> QED
    BY <2>1 DEF Keeps
<1>4. ASSUME NEW s \in Places, OnKeyboardFocusChange(s) PROVE Keeps(relay, relay')
  BY <1>1, <1>4, FocusChangeGood
<1>5. ASSUME NEW s \in Surfaces, OnSurfaceDestroy(s) PROVE Keeps(relay, relay')
  BY <1>1, <1>5, SurfaceDestroyGood
<1>6. CASE OnNewInputMethod \/ OnInputMethodDestroy
  BY <1>1, <1>6, NewInputMethodGood, InputMethodDestroyGood DEF OneEnabled
<1> QED
  BY <1>2, <1>3, <1>4, <1>5, <1>6 DEF RelayNext, Keeps

\* The relay keeps no pointer to a text input or to a surface that is gone, and
\* agrees with wlroots on where each v3 text input is, whatever the order in
\* which text inputs, surfaces, the focus and the input method come and go
\* (HandleDestroy, OnInputMethodDestroy, UpdateFocus).
THEOREM RelayPointersAlive == RelaySpec => []PointersAreAlive
<1>1. RelayInit => RelayGood
  BY RelayInitGood DEF RelayServed
<1>2. RelayGood /\ [RelayNext]_relay => RelayGood'
  BY RelayNextGood
<1>3. RelayGood => PointersAreAlive
  BY DEF RelayGood, Settled, Base, RelayType, Waiting, PointersAreAlive
<1> QED
  BY <1>1, <1>2, <1>3, PTL DEF RelaySpec

\* Text goes to an enabled text input on the surface with the keyboard, and the
\* input method is active exactly while there is one (Activate, Deactivate).
THEOREM RelayActiveFocused == RelaySpec => []ActiveIsFocused
<1>1. RelayInit => RelayGood
  BY RelayInitGood DEF RelayServed
<1>2. RelayGood /\ [RelayNext]_relay => RelayGood'
  BY RelayNextGood
<1>3. RelayGood => ActiveIsFocused
  BY DEF RelayGood, Settled, Base, RelayType, ActiveIsFocused
<1> QED
  BY <1>1, <1>2, <1>3, PTL DEF RelaySpec

\* Provided that a client enables one text input at a time, the one enabled on
\* the focused surface is served as long as there is an input method, whichever
\* of the three came last (OnNewInputMethod, UpdateFocus, HandleEnable).
THEOREM RelayServesEnabled == ASSUME OneAtATime PROVE RelaySpec => []EnabledIsServed
<1>1. RelayInit => RelayServed
  BY RelayInitGood
<1>2. RelayServed /\ [RelayNext]_relay => RelayServed'
  BY RelayNextGood DEF RelayServed
<1>3. RelayServed => EnabledIsServed
  BY DEF RelayServed, Served, EnabledIsServed
<1> QED
  BY <1>1, <1>2, <1>3, PTL DEF RelaySpec
=============================================================================
