----------------------------- MODULE MCServices -----------------------------
(***************************************************************************)
(* The heap, the device control and the commands for TLC: three parts with *)
(* safety properties only.  They share no state; a behaviour is one of one *)
(* of them.                                                                *)
(***************************************************************************)
EXTENDS HeapUse, DeviceControl, LibC

VARIABLE service        \* which of them it is

ServicesInit ==
    /\ service \in {"heap", "control", "commands"}
    /\ Init /\ (service # "heap" => \A e \in Elements : key[e] = CHOOSE k \in Keys : TRUE)
    /\ ControlInit /\ LibCInit

HeapStep     == service = "heap" /\ Next /\ UNCHANGED <<service, controlVars, libcVars>>
ControlStep  == service = "control" /\ ControlNext /\ UNCHANGED <<service, vars, libcVars>>
CommandsStep == service = "commands" /\ LibCNext /\ UNCHANGED <<service, vars, controlVars>>

ServicesNext == HeapStep \/ ControlStep \/ CommandsStep

ServicesSpec == ServicesInit /\ [][ServicesNext]_<<service, vars, controlVars, libcVars>>
=============================================================================
