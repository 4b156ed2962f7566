------------------------------ MODULE Sessions ------------------------------
(***************************************************************************)
(* A program with sessions.  vpk_system_init registers the operations of   *)
(* the serial port and of the device control, each in the container of its *)
(* component (vpk_cdevice.c); loading a session finds them there.  What    *)
(* the program then does is that of Serial or of DeviceControl; the two    *)
(* share nothing but the registration.                                     *)
(***************************************************************************)
EXTENDS Serial, DeviceControl

CONSTANT MAX_STANDARD_NUM       \* places of a container: 16

ASSUME SessionsAssumption == MAX_STANDARD_NUM \in Nat \ {0}

VARIABLES items,        \* per container, the entries in use
          session       \* what the program has loaded, and with which operations

sessionsVars == <<items, session, serialVars, controlVars>>

Standards == {"serial", "nvtuctrl"}
NoSession == [asked |-> "none", ops |-> "none"]

SessionsInit ==
    /\ items = [s \in Standards |-> <<>>]
    /\ session = NoSession
    /\ SerialInit /\ ControlInit

vpk_register_cdevice(container, standard) ==
    IF Len(container) >= MAX_STANDARD_NUM THEN container
    ELSE Append(container, [standard |-> standard, ops |-> standard])

vpk_system_init ==
    /\ session = NoSession
    /\ items' = [s \in Standards |-> vpk_register_cdevice(items[s], s)]
    /\ UNCHANGED <<session, serialVars, controlVars>>

\* The operations that are found are those of the first entry, whichever matches.
FindAndLoad(standard) ==
    /\ session = NoSession
    /\ \E i \in DOMAIN items[standard] : items[standard][i].standard = standard
    /\ session' = [asked |-> standard, ops |-> items[standard][1].ops]
    /\ UNCHANGED <<items, serialVars, controlVars>>

UseSerial ==
    /\ session.ops = "serial"
    /\ SerialNext
    /\ UNCHANGED <<items, session, controlVars>>

UseControl ==
    /\ session.ops = "nvtuctrl"
    /\ ControlNext
    /\ UNCHANGED <<items, session, serialVars>>

SessionsNext ==
    \/ vpk_system_init
    \/ \E s \in Standards : FindAndLoad(s)
    \/ UseSerial \/ UseControl

SessionsSpec == SessionsInit /\ [][SessionsNext]_sessionsVars
=============================================================================
