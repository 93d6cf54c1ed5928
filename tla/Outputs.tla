------------------------------ MODULE Outputs ------------------------------
(***************************************************************************)
(* Who switches outputs on and off, and who remembers which is primary.    *)
(* Four interfaces reconfigure outputs: KDE's output management            *)
(* (KdeOutputManager, with configurations a client fills in over several   *)
(* requests and then applies, and DPMS), wlr-output-management,            *)
(* wlr-output-power and the D-Bus display service (WlcomDbusManager, which *)
(* also saves what it did and restores it when an output comes back).      *)
(* Each does its own share of the bookkeeping, and outputs come and go at  *)
(* any moment.                                                             *)
(*                                                                         *)
(* An output is its connector's name.  Of an output's state only whether   *)
(* it is enabled is kept; modes, scales and positions are abstracted away. *)
(* The outputs KdeOutputManager knows are those of the compositor, in the  *)
(* same order, so one sequence stands for both.                            *)
(***************************************************************************)
EXTENDS Naturals, Sequences

LOCAL INSTANCE SequencesExt

CONSTANTS
  Outputs,    \* connectors
  Configs,    \* KDE output configurations, reused once destroyed
  NoOutput    \* nullptr

ASSUME OutputsAssumption == NoOutput \notin Outputs

VARIABLES
  outputs_,         \* the outputs connected, in the order they came
  display,          \* what the interfaces know of them, see InitialDisplay
  configurations_   \* KDE configurations by name, for those that exist

outputVars == <<outputs_, display, configurations_>>

\* What the handlers change together:
\*   enabled    outputs with wlr_output.enabled
\*   placed     outputs in output_layout_
\*   attached   outputs whose scene output follows the layout (scene_layout_)
\*   primary    KdeOutputManager's primary_output_
\*   announced  outputs the UKUI output management announced
\*   saved      the "outputs" object of the D-Bus manager's config_
InitialDisplay ==
  [enabled |-> {}, placed |-> {}, attached |-> {}, primary |-> NoOutput, announced |-> {},
   saved |-> << >>]

OutputInit == outputs_ = << >> /\ display = InitialDisplay /\ configurations_ = << >>

Connected == ToSet(outputs_)

\* The first enabled output, as RemoveOutput and UpdateOutputs look for it.
FirstEnabled(outputs, enabled) ==
  IF ToSet(outputs) \cap enabled = {} THEN NoOutput
  ELSE SelectSeq(outputs, LAMBDA o : o \in enabled)[1]

\* Mutant: only a primary output that is gone is replaced.
Faulty_KdeUpdateOutputs(outputs, d) ==
  [d EXCEPT !.primary = IF d.primary = NoOutput THEN FirstEnabled(outputs, d.enabled)
                        ELSE d.primary]

\* KdeOutputManager::UpdateOutputs
KdeUpdateOutputs(outputs, d) ==
  [d EXCEPT !.primary = IF d.primary \notin d.enabled THEN FirstEnabled(outputs, d.enabled)
                        ELSE d.primary]

\* ProtocolManager::UpdateOutputs: KDE's, then UKUI's, which announces the
\* outputs that are enabled and withdraws the others.
UpdateOutputs(outputs, d) ==
  [KdeUpdateOutputs(outputs, d) EXCEPT !.announced = ToSet(outputs) \cap d.enabled]

\* wlr_output_commit_state of the enabled flag of the outputs of heads.
Committed(d, heads) ==
  [d EXCEPT !.enabled = (@ \ DOMAIN heads) \cup {o \in DOMAIN heads : heads[o]}]

One(o, on) == [h \in {o} |-> on]

-----------------------------------------------------------------------------
(* The D-Bus display service.                                              *)

\* PrimaryOutputName: the first saved output marked as primary.
PrimaryOutputName(saved) ==
  IF \E o \in DOMAIN saved : saved[o].primary
  THEN CHOOSE o \in DOMAIN saved : saved[o].primary ELSE NoOutput

\* SetPrimaryOutputName of an output that is saved.
SetPrimaryOutputName(saved, name) ==
  [o \in DOMAIN saved |-> [saved[o] EXCEPT !.primary = (o = name)]]

\* PersistOutput
PersistOutput(d, o) ==
  LET entry == [enabled |-> o \in d.enabled, primary |-> PrimaryOutputName(d.saved) = o]
  IN  [d EXCEPT !.saved = [p \in DOMAIN @ \cup {o} |-> IF p = o THEN entry ELSE @[p]]]

\* ConfigureOutput once its commit is accepted: the layout follows the flag.
ConfigureOutput(outputs, d, o, on) ==
  LET committed == Committed(d, One(o, on))
      moved == IF on /\ o \notin d.placed
               THEN [committed EXCEPT !.placed = @ \cup {o}, !.attached = @ \cup {o}]
               ELSE IF ~on THEN [committed EXCEPT !.placed = @ \ {o}, !.attached = @ \ {o}]
               ELSE committed
  IN  PersistOutput(UpdateOutputs(outputs, moved), o)

\* MoveOutput, of an enabled output.
MoveOutput(outputs, d, o) ==
  LET moved == [d EXCEPT !.placed = @ \cup {o}, !.attached = @ \cup {o}]
  IN  PersistOutput(UpdateOutputs(outputs, moved), o)

\* SetScreenEnabled, when the request is carried out: never for the last
\* enabled output.
SetScreenEnabled(o, on) ==
  /\ o \in Connected
  /\ ~on => display.enabled # {o}
  /\ display' = ConfigureOutput(outputs_, display, o, on)
  /\ UNCHANGED <<outputs_, configurations_>>

\* SetPrimaryScreen.  KDE's primary output is not told.
SetPrimaryScreen(o) ==
  /\ o \in display.enabled
  /\ LET chosen == [display EXCEPT !.saved = SetPrimaryOutputName(@, o)]
     IN  display' = FoldLeft(PersistOutput, chosen, outputs_)
  /\ UNCHANGED <<outputs_, configurations_>>

\* SetScreenPosition, and one entry of SetScreenLayout.
SetScreenPosition(o) ==
  /\ o \in display.enabled
  /\ display' = MoveOutput(outputs_, display, o)
  /\ UNCHANGED <<outputs_, configurations_>>

\* SetScreenMode: all outputs in on are enabled, the others disabled, one after
\* the other, and the first commit that is refused ends the request where it
\* is (done outputs were configured).  With one output asked for (mode 2),
\* that one becomes the saved primary.
SetScreenMode(on, done) ==
  /\ outputs_ # << >>
  /\ on = Connected \/ \E only \in Connected : on = {only}
  /\ LET Step(d, o) == LET c == ConfigureOutput(outputs_, d, o, o \in on)
                       IN  IF o \in on THEN MoveOutput(outputs_, c, o) ELSE c
         d == FoldLeft(Step, display, SubSeq(outputs_, 1, done))
     IN  \/ done < Len(outputs_) /\ display' = d
         \/ /\ done = Len(outputs_) /\ on = Connected
            /\ display' = d
         \/ \E only \in on : /\ done = Len(outputs_) /\ on = {only}
                             /\ display' = [d EXCEPT !.saved = SetPrimaryOutputName(@, only)]
  /\ UNCHANGED <<outputs_, configurations_>>

-----------------------------------------------------------------------------
(* KDE output management.                                                  *)

\* CreateConfiguration remembers the primary output of that moment.
CreateConfiguration(c) ==
  /\ c \notin DOMAIN configurations_
  /\ configurations_' = [k \in DOMAIN configurations_ \cup {c} |->
       IF k = c THEN [heads |-> << >>, primary |-> display.primary, applied |-> FALSE]
       ELSE configurations_[k]]
  /\ UNCHANGED <<outputs_, display>>

\* DestroyConfiguration
DestroyConfiguration(c) ==
  /\ c \in DOMAIN configurations_
  /\ configurations_' = [k \in DOMAIN configurations_ \ {c} |-> configurations_[k]]
  /\ UNCHANGED <<outputs_, display>>

\* GetHead: the head of an output, taken from its state at the first request
\* about it (ConfigureMode, ConfigureScale and the like).
GetHead(heads, o) ==
  IF o \in DOMAIN heads THEN heads
  ELSE [h \in DOMAIN heads \cup {o} |-> IF h = o THEN o \in display.enabled ELSE heads[h]]

Configure(c, o) ==
  /\ c \in DOMAIN configurations_ /\ o \in Connected
  /\ configurations_' = [configurations_ EXCEPT ![c].heads = GetHead(@, o)]
  /\ UNCHANGED <<outputs_, display>>

ConfigureEnable(c, o, on) ==
  /\ c \in DOMAIN configurations_ /\ o \in Connected
  /\ configurations_' = [configurations_ EXCEPT ![c].heads = [GetHead(@, o) EXCEPT ![o] = on]]
  /\ UNCHANGED <<outputs_, display>>

\* ConfigurePrimary, of an output that need not be enabled.
ConfigurePrimary(c, o) ==
  /\ c \in DOMAIN configurations_ /\ o \in Connected
  /\ configurations_' = [configurations_ EXCEPT ![c].primary = o]
  /\ UNCHANGED <<outputs_, display>>

\* ConfigureApply and Apply: once, and the backend may refuse all of it.  The
\* layout takes every head in, enabled or not.
ConfigureApply(c, accepted) ==
  /\ c \in DOMAIN configurations_ /\ ~configurations_[c].applied
  /\ configurations_' = [configurations_ EXCEPT ![c].applied = TRUE]
  /\ LET heads == configurations_[c].heads
         applied == [Committed(display, heads) EXCEPT
                       !.placed = @ \cup DOMAIN heads, !.primary = configurations_[c].primary]
     IN  IF accepted \/ heads = << >>
         THEN display' = UpdateOutputs(outputs_, KdeUpdateOutputs(outputs_, applied))
         ELSE UNCHANGED display
  /\ UNCHANGED outputs_

\* SetDpms, accepted; only KDE's own view is updated.
SetDpms(o, on) ==
  /\ o \in Connected
  /\ display' = KdeUpdateOutputs(outputs_, Committed(display, One(o, on)))
  /\ UNCHANGED <<outputs_, configurations_>>

-----------------------------------------------------------------------------
(* wlr-output-power and wlr-output-management.                             *)

\* OnOutputPower, accepted.
OnOutputPower(o, on) ==
  /\ o \in Connected
  /\ display' = UpdateOutputs(outputs_, Committed(display, One(o, on)))
  /\ UNCHANGED <<outputs_, configurations_>>

\* ApplyOutputConfiguration, accepted and not only a test, with any heads.
ApplyOutputConfiguration(heads) ==
  /\ display' = UpdateOutputs(outputs_,
       [Committed(display, heads) EXCEPT !.placed = @ \cup DOMAIN heads])
  /\ UNCHANGED <<outputs_, configurations_>>

-----------------------------------------------------------------------------
(* Outputs come and go.                                                    *)

\* KdeOutputManager::AddOutput, in ProtocolManager::AddOutput.
AddOutput(outputs, d, o) ==
  UpdateOutputs(outputs, [d EXCEPT !.primary = IF @ = NoOutput THEN o ELSE @])

\* WlcomDbusManager::AddOutput restores what is saved of the output; refused
\* when the saved mode is gone or the commit fails.
RestoreOutput(outputs, d, o, refused) ==
  LET known == o \in DOMAIN d.saved
      on == IF known THEN d.saved[o].enabled ELSE TRUE
      named == IF PrimaryOutputName(d.saved) # NoOutput THEN d
               ELSE [d EXCEPT !.saved =
                      LET blank == [p \in DOMAIN @ \cup {o} |->
                            IF p \in DOMAIN @ THEN @[p] ELSE [enabled |-> TRUE, primary |-> FALSE]]
                      IN  SetPrimaryOutputName(blank, o)]
      configured == IF known /\ ~refused THEN ConfigureOutput(outputs, named, o, on) ELSE named
  IN  PersistOutput(IF known /\ on THEN MoveOutput(outputs, configured, o) ELSE configured, o)

\* OnNewOutput: enabled, placed, then made known to every interface.
OnNewOutput(o, refused) ==
  /\ o \notin Connected
  /\ outputs_' = Append(outputs_, o)
  /\ LET shown == [display EXCEPT !.enabled = @ \cup {o}, !.placed = @ \cup {o},
                                  !.attached = @ \cup {o}]
     IN  display' = RestoreOutput(outputs_', AddOutput(outputs_', shown, o), o, refused)
  /\ UNCHANGED configurations_

\* Mutant: the configurations being filled in keep the output.
Faulty_RemoveOutput(o) ==
  /\ outputs_' = SelectSeq(outputs_, LAMBDA p : p # o)
  /\ display' = [display EXCEPT
       !.enabled = @ \ {o}, !.placed = @ \ {o}, !.attached = @ \ {o}, !.announced = @ \ {o},
       !.primary = IF @ = o THEN FirstEnabled(outputs_', display.enabled) ELSE @]
  /\ UNCHANGED configurations_

\* Output::OnDestroy, KDE's and UKUI's RemoveOutput, and the layout's own
\* listener.
RemoveOutput(o) ==
  /\ outputs_' = SelectSeq(outputs_, LAMBDA p : p # o)
  /\ display' = [display EXCEPT
       !.enabled = @ \ {o}, !.placed = @ \ {o}, !.attached = @ \ {o}, !.announced = @ \ {o},
       !.primary = IF @ = o THEN FirstEnabled(outputs_', display.enabled) ELSE @]
  /\ configurations_' = [c \in DOMAIN configurations_ |-> [configurations_[c] EXCEPT
       !.heads = [h \in DOMAIN @ \ {o} |-> @[h]],
       !.primary = IF @ = o THEN NoOutput ELSE @]]

-----------------------------------------------------------------------------
OutputNext ==
  \/ \E o \in Outputs, on \in BOOLEAN : SetScreenEnabled(o, on)
  \/ \E o \in Outputs : SetPrimaryScreen(o)
  \/ \E o \in Outputs : SetScreenPosition(o)
  \/ \E on \in SUBSET Connected, done \in 0 .. Len(outputs_) : SetScreenMode(on, done)
  \/ \E c \in Configs : CreateConfiguration(c)
  \/ \E c \in Configs : DestroyConfiguration(c)
  \/ \E c \in Configs, o \in Outputs : Configure(c, o)
  \/ \E c \in Configs, o \in Outputs, on \in BOOLEAN : ConfigureEnable(c, o, on)
  \/ \E c \in Configs, o \in Outputs : ConfigurePrimary(c, o)
  \/ \E c \in Configs, accepted \in BOOLEAN : ConfigureApply(c, accepted)
  \/ \E o \in Outputs, on \in BOOLEAN : SetDpms(o, on)
  \/ \E o \in Outputs, on \in BOOLEAN : OnOutputPower(o, on)
  \/ \E set \in SUBSET Connected : \E heads \in [set -> BOOLEAN] : ApplyOutputConfiguration(heads)
  \/ \E o \in Outputs, refused \in BOOLEAN : OnNewOutput(o, refused)
  \/ \E o \in Connected : RemoveOutput(o)

OutputSpec == OutputInit /\ [][OutputNext]_outputVars

-----------------------------------------------------------------------------
\* Each of the two primary outputs is well defined.  KDE's is always an enabled
\* output, and there is one whenever any output is enabled: whichever interface
\* switched the last one off, unplugged it or applied a configuration made for
\* another set of outputs (KdeOutputManager::UpdateOutputs, RemoveOutput, Apply).
\* The saved settings mark exactly one output once any was seen, across hotplug,
\* restores and display-mode requests that stopped half way
\* (SetPrimaryOutputName, PersistOutput, AddOutput).
PrimariesAreDefined ==
  /\ IF display.enabled = {} THEN display.primary = NoOutput
     ELSE display.primary \in display.enabled
  /\ display.saved # << >> => \E o \in DOMAIN display.saved :
       \A p \in DOMAIN display.saved : display.saved[p].primary <=> p = o

\* A configuration a client is still filling in names only outputs that exist,
\* so applying it late never reaches a freed output
\* (KdeOutputManager::RemoveOutput, Apply).
ConfigurationsAreAlive ==
  \A c \in DOMAIN configurations_ :
    /\ DOMAIN configurations_[c].heads \subseteq Connected
    /\ configurations_[c].primary \in Connected \cup {NoOutput}

=============================================================================
