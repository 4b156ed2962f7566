---------------------------- MODULE DeviceControl ----------------------------
(***************************************************************************)
(* Commands to the camera: vpk_actions.c over vpk_nvtuctrl.c and, on a PC, *)
(* x86_nvtuctrl.c, which answers in the firmware's stead.  A client is a   *)
(* thread or process with an action object of its own; it makes the object *)
(* for a command, executes it, gives it other commands, and destroys it.   *)
(*                                                                         *)
(* A command is a record: its kind in the table of actions ("set" or "get" *)
(* of a menu item; "canned" for those with a fixed answer; "info" for      *)
(* -gpsinfo and -getdevinfo, which copy it from a file; "other" for those  *)
(* that the PC does not know; a menu command without MENUMOCK in its       *)
(* parameter is one of these), its item and its value.  What is replied is *)
(* left out.  All clients share the file with the menu settings, which is  *)
(* read as a whole, and written by opening it with "w" (which empties it)  *)
(* and dumping all settings.  Each of these steps may fail, and a set that *)
(* has not been stored returns 0 all the same.                             *)
(***************************************************************************)
EXTENDS Integers

CONSTANTS Clients,
          MenuItems, MenuValues,
          Missing, Empty,       \* no settings file, or one that cannot be parsed
          NULL

\* What the settings file can hold when it is complete.
Menus == UNION {[S -> MenuValues] : S \in SUBSET MenuItems}

ASSUME DeviceControlAssumption ==
    /\ MenuValues \subseteq Int
    /\ NULL \notin MenuValues
    /\ Missing # Empty
    /\ {Missing, Empty, NULL} \cap Menus = {}

VARIABLES file,         \* the settings: a function on items, Missing or Empty
          command,      \* per client, the command of its action object
          stage,        \* "none" (no object), "ready", or where the execution is;
                        \* "unsaved" is the end of a set whose dump has failed
          root,         \* the JSON object it has loaded, or NULL
          actionRet,    \* what its last call has returned
          settled,      \* ghost: per item, what the last set has made of it, or NULL
          crowded,      \* ghost: clients whose last set has overlapped with another
          wrecked       \* ghost: a dump was not completed, or met another one

ghosts == <<settled, crowded, wrecked>>
controlVars == <<file, command, stage, root, actionRet, ghosts>>

Commands ==
    [kind : {"set"}, item : MenuItems, value : MenuValues]
    \cup [kind : {"get"}, item : MenuItems, value : {0}]
    \cup [kind : {"canned", "info", "other"}, item : {NULL}, value : {0}]
Menu(cmd) == cmd.kind \in {"set", "get"}

ControlInit ==
    /\ file = Missing
    /\ stage = [c \in Clients |-> "none"]
    /\ command = [c \in Clients |-> NULL] /\ root = [c \in Clients |-> NULL]
    /\ actionRet = [c \in Clients |-> 0]
    /\ settled = [i \in MenuItems |-> NULL] /\ crowded = {} /\ wrecked = FALSE

Enter(c, s) == stage' = [stage EXCEPT ![c] = s]

\* Back to the caller; -1 also if the callback does not like the reply.
Return(c, ret) ==
    /\ Enter(c, "ready")
    /\ \E value \in {ret, -1} : actionRet' = [actionRet EXCEPT ![c] = value]

----------------------------------------------------------------------------
(* The action object                                                       *)

vpk_action_create(c, cmd) ==
    /\ stage[c] = "none"
    /\ Enter(c, "ready")
    /\ command' = [command EXCEPT ![c] = cmd]
    /\ UNCHANGED <<file, root, actionRet, ghosts>>

vpk_action_param_set(c, cmd) ==
    /\ stage[c] = "ready"
    /\ command' = [command EXCEPT ![c] = cmd]
    /\ actionRet' = [actionRet EXCEPT ![c] = 0]
    /\ UNCHANGED <<file, stage, root, ghosts>>

\* a type that is in no table
ParamRefused(c) ==
    /\ stage[c] = "ready"
    /\ actionRet' = [actionRet EXCEPT ![c] = -1]
    /\ UNCHANGED <<file, command, stage, root, ghosts>>

Reset(c) ==
    /\ command' = [command EXCEPT ![c] = NULL]
    /\ actionRet' = [actionRet EXCEPT ![c] = 0]
Free(c) == root' = [root EXCEPT ![c] = NULL]

vpk_action_destroy(c) ==
    /\ stage[c] = "ready"
    /\ Enter(c, "none")
    /\ Reset(c)
    /\ UNCHANGED <<file, root, ghosts>>

ClientDies(c) ==
    /\ stage[c] \notin {"none", "ready"}
    /\ wrecked' = (wrecked \/ stage[c] = "dump")
    /\ Enter(c, "none")
    /\ Reset(c)
    /\ Free(c)
    /\ UNCHANGED <<file, settled, crowded>>

----------------------------------------------------------------------------
(* vpk_action_exec                                                         *)

\* the commands that x86_nvtuctrl_write answers without the settings
Exec(c) ==
    /\ stage[c] = "ready"
    /\ ~Menu(command[c])
    /\ Return(c, IF command[c].kind = "other" THEN -1 ELSE 0)
    /\ UNCHANGED <<file, command, root, ghosts>>

\* The file to be copied is not there, and the client copies from a null pointer.
NoInfo(c) ==
    /\ stage[c] = "ready"
    /\ command[c].kind = "info"
    /\ Enter(c, "none")
    /\ Reset(c)
    /\ UNCHANGED <<file, root, ghosts>>

\* the other clients that are setting
Others(c) ==
    {d \in Clients \ {c} : stage[d] \notin {"none", "ready"} /\ command[d].kind = "set"}

ExecMenu(c) ==
    /\ stage[c] = "ready"
    /\ Menu(command[c])
    /\ Enter(c, "load")
    /\ IF command[c].kind = "get" THEN UNCHANGED <<settled, crowded>>
       ELSE /\ settled' = [settled EXCEPT ![command[c].item] = NULL]
            /\ crowded' = IF Others(c) = {} THEN crowded \ {c} ELSE crowded \cup Others(c) \cup {c}
    /\ UNCHANGED <<file, command, root, actionRet, wrecked>>

\* vpk_mmap_exist and json_load_file, which also fails when it cannot open the file
Load(c) ==
    /\ stage[c] = "load"
    /\ \E loaded \in {NULL, CASE file = Missing -> [i \in {} |-> 0]
                             [] file = Empty   -> NULL
                             [] OTHER          -> file} :
          root' = [root EXCEPT ![c] = loaded]
    /\ Enter(c, command[c].kind)
    /\ UNCHANGED <<file, command, actionRet, ghosts>>

Value(c) == IF root[c] # NULL /\ command[c].item \in DOMAIN root[c]
            THEN root[c][command[c].item] ELSE NULL

\* setting_item_get; the reply is 0 for what is not there
AnswerGet(c) ==
    /\ stage[c] = "get"
    /\ Return(c, 0)
    /\ Free(c)
    /\ UNCHANGED <<file, command, ghosts>>

\* setting_item_write dumps only a change, and nothing if it could not load
Unchanged(c) == root[c] = NULL \/ Value(c) = command[c].value

\* slip: the settings are taken as they were, without the new value
OpenToDumpOld(c) ==
    /\ stage[c] = "set"
    /\ ~Unchanged(c)
    /\ file' = Empty
    /\ Enter(c, "dump")
    /\ wrecked' = (wrecked \/ \E d \in Others(c) : stage[d] = "dump")
    /\ UNCHANGED <<command, root, actionRet, settled, crowded>>

\* the settings that it has loaded, with the new value
WithValue(c) == [i \in DOMAIN root[c] \cup {command[c].item} |->
                    IF i = command[c].item THEN command[c].value ELSE root[c][i]]

OpenToDump(c) ==
    /\ stage[c] = "set"
    /\ ~Unchanged(c)
    /\ file' = Empty
    /\ root' = [root EXCEPT ![c] = WithValue(c)]
    /\ Enter(c, "dump")
    /\ wrecked' = (wrecked \/ \E d \in Others(c) : stage[d] = "dump")
    /\ UNCHANGED <<command, actionRet, settled, crowded>>

\* json_dump_file cannot open the file, which stays as it is
OpenFails(c) ==
    /\ stage[c] = "set"
    /\ ~Unchanged(c)
    /\ root' = [root EXCEPT ![c] = WithValue(c)]
    /\ Enter(c, "unsaved")
    /\ UNCHANGED <<file, command, actionRet, ghosts>>

\* slip: the file is left as fopen has made it
DumpNothing(c) ==
    /\ stage[c] = "dump"
    /\ file' = file
    /\ Enter(c, "answer")
    /\ UNCHANGED <<command, root, actionRet, ghosts>>

\* A dump over one that somebody else has made meanwhile may leave its end.
Dump(c) ==
    /\ stage[c] = "dump"
    /\ file' = root[c] \/ (file # Empty /\ file' = Empty)
    /\ Enter(c, "answer")
    /\ UNCHANGED <<command, root, actionRet, ghosts>>

\* The disk is full: the file ends before its end, which makes it no JSON.
DumpFails(c) ==
    /\ stage[c] = "dump"
    /\ file' \in {file, Empty}
    /\ wrecked' = TRUE
    /\ Enter(c, "unsaved")
    /\ UNCHANGED <<command, root, actionRet, settled, crowded>>

\* The settings could be loaded, and they had the value or have been dumped with it.
IsSaved(c) == root[c] # NULL /\ stage[c] # "unsaved" /\ c \notin crowded

\* setting_item_write returns 0 whatever has become of the settings
AnswerSet(c) ==
    /\ stage[c] \in {"answer", "unsaved"} \/ (stage[c] = "set" /\ Unchanged(c))
    /\ Return(c, 0)
    /\ settled' = IF IsSaved(c) THEN [settled EXCEPT ![command[c].item] = command[c].value]
                  ELSE settled
    /\ Free(c)
    /\ UNCHANGED <<file, command, crowded, wrecked>>

----------------------------------------------------------------------------
ControlNext == \E c \in Clients :
    \/ \E cmd \in Commands : vpk_action_create(c, cmd) \/ vpk_action_param_set(c, cmd)
    \/ ParamRefused(c) \/ vpk_action_destroy(c) \/ ClientDies(c)
    \/ Exec(c) \/ NoInfo(c) \/ ExecMenu(c) \/ Load(c) \/ AnswerGet(c)
    \/ OpenToDump(c) \/ OpenFails(c) \/ Dump(c) \/ DumpFails(c) \/ AnswerSet(c)

ControlSpec == ControlInit /\ [][ControlNext]_controlVars

----------------------------------------------------------------------------
(* Properties                                                              *)

(***************************************************************************)
(* While every dump has been completed and no two clients have dumped at   *)
(* once, the settings cannot be read only as long as somebody writes them, *)
(* so a later command finds them.                                          *)
(***************************************************************************)
SettingsThere ==
    file = Empty => wrecked \/ \E c \in Clients : stage[c] = "dump"

(***************************************************************************)
(* A set that could load the settings and whose dump, if it needed one,    *)
(* has been completed, has its value in the file when the execution comes  *)
(* back, and it stays there until the item is set again, whatever others   *)
(* read meanwhile, whatever other items they set, and whichever of their   *)
(* sets cannot open the file; other setters only must not have overlapped  *)
(* with that set.                                                          *)
(***************************************************************************)
SetIsStored == \A i \in MenuItems :
    settled[i] # NULL /\ ~wrecked /\ file # Empty
        => file # Missing /\ i \in DOMAIN file /\ file[i] = settled[i]
=============================================================================
