------------------------------ MODULE Programs ------------------------------
(***************************************************************************)
(* The programs of src/main that use the parts of the library without a    *)
(* module of their own run: one uses sessions, one downloads               *)
(* (sample_download.c), one works on files (sample_filesys.c, which makes  *)
(* directories, maps a file and runs commands).  The parts share no state; *)
(* a program uses one of them at a time, and this module lets each use one *)
(* for good, chosen as find_demo chooses it.                               *)
(***************************************************************************)
EXTENDS EventQueue, Sessions, LibC, MakeDirs, FileMap, Download

VARIABLE demo           \* what the program does

vars == <<demo, eventQueueVars, sessionsVars, libcVars, makeDirsVars, fileMapVars, downloadVars>>

Init ==
    /\ demo = "none"
    /\ EventQueueInit /\ SessionsInit /\ LibCInit /\ MakeDirsInit /\ FileMapInit /\ DownloadInit

find_demo ==
    /\ demo = "none"
    /\ demo' \in {"mqsend", "sessions", "commands", "dirs", "map", "download"}
    /\ UNCHANGED <<eventQueueVars, sessionsVars, libcVars, makeDirsVars, fileMapVars, downloadVars>>

EventQueueStep ==
    /\ demo = "mqsend" /\ EventQueueNext
    /\ UNCHANGED <<demo, sessionsVars, libcVars, makeDirsVars, fileMapVars, downloadVars>>
SessionsStep ==
    /\ demo = "sessions" /\ SessionsNext
    /\ UNCHANGED <<demo, eventQueueVars, libcVars, makeDirsVars, fileMapVars, downloadVars>>
LibCStep ==
    /\ demo = "commands" /\ LibCNext
    /\ UNCHANGED <<demo, eventQueueVars, sessionsVars, makeDirsVars, fileMapVars, downloadVars>>
MakeDirsStep ==
    /\ demo = "dirs" /\ MakeDirsNext
    /\ UNCHANGED <<demo, eventQueueVars, sessionsVars, libcVars, fileMapVars, downloadVars>>
FileMapStep ==
    /\ demo = "map" /\ FileMapNext
    /\ UNCHANGED <<demo, eventQueueVars, sessionsVars, libcVars, makeDirsVars, downloadVars>>
DownloadStep ==
    /\ demo = "download" /\ DownloadNext
    /\ UNCHANGED <<demo, eventQueueVars, sessionsVars, libcVars, makeDirsVars, fileMapVars>>

Next ==
    \/ find_demo
    \/ EventQueueStep \/ SessionsStep \/ LibCStep \/ MakeDirsStep \/ FileMapStep \/ DownloadStep

Spec == Init /\ [][Next]_vars

\* A read of the serial port that is under way goes on.
ReadGoesOn ==
    /\ demo = "sessions" /\ session.ops = "serial" /\ ReadStep
    /\ UNCHANGED <<items, session, controlVars>>
    /\ UNCHANGED <<demo, eventQueueVars, libcVars, makeDirsVars, fileMapVars, downloadVars>>

\* Of the processes around the event queue, those that run go on.
Within(EventQueueAction) ==
    /\ demo = "mqsend" /\ EventQueueAction
    /\ UNCHANGED <<demo, sessionsVars, libcVars, makeDirsVars, fileMapVars, downloadVars>>

FairSpec ==
    /\ Spec
    /\ WF_vars(ReadGoesOn)
    /\ \A p \in Procs : WF_vars(Within(GoesOn(p)))
    /\ \A p \in Posters : SF_vars(Within(PostSent(p)))
=============================================================================
