--------------------------- MODULE DesktopServices ---------------------------
(***************************************************************************)
(* What the desktop's tools and clients work with: outputs as they are     *)
(* configured (Outputs) and as they are captured (Capture), who owns a     *)
(* shortcut (ShortcutRegistry) and the list of the app switcher            *)
(* (SwitcherList).  They share no state in the code; all that passes       *)
(* between the first two is the destroy event of an output, an action of   *)
(* each.  So a behaviour follows one of them, chosen at the start.         *)
(***************************************************************************)
EXTENDS Outputs, Capture, ShortcutRegistry, SwitcherList, TLC

VARIABLE service   \* the one followed

servicesVars == <<service, outputVars, captureVars, registryVars, switcherVars>>

\* A shortcut of the user and one of the system that is on and is spelled
\* differently; an action of an application and one of the compositor.
ActionNames == <<"Control+k", "Ctrl+K">>
SameKey == [n \in {"Control+k", "Ctrl+K"} |-> "ctrl_k"]
SystemActions == [n \in {"Control+k", "Ctrl+K"} |-> IF n = "Ctrl+K" THEN "on" ELSE "none"]
TwoActions == {<<"wlcom", "ctrl_k">>, <<"app", "open">>}

ThreeApps == <<"a1", "a2", "a3">>

\* Captures and their contexts are handled alike.
CaptureSymmetry == Permutations(Contexts) \cup Permutations(Objects)

ServicesInit ==
  /\ service \in {"outputs", "capture", "registry", "switcher"}
  /\ OutputInit /\ CaptureInit /\ RegistryInit /\ SwitcherInit

ServicesNext ==
  \/ service = "outputs" /\ OutputNext
     /\ UNCHANGED <<service, captureVars, registryVars, switcherVars>>
  \/ service = "capture" /\ CaptureNext
     /\ UNCHANGED <<service, outputVars, registryVars, switcherVars>>
  \/ service = "registry" /\ RegistryNext
     /\ UNCHANGED <<service, outputVars, captureVars, switcherVars>>
  \/ service = "switcher" /\ SwitcherNext
     /\ UNCHANGED <<service, outputVars, captureVars, registryVars>>

ServicesSpec == ServicesInit /\ [][ServicesNext]_servicesVars
=============================================================================
