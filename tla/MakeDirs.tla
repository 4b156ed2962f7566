------------------------------ MODULE MakeDirs ------------------------------
(***************************************************************************)
(* Files and directories: vpk_ifilesys.c.  Several makers (processes) call *)
(* vpk_mkdir and vpk_mkdir_mult, while files are created, renamed and      *)
(* removed.  A path is a sequence of names; the directory it starts from   *)
(* is always there.  A path is shorter than FILENAME_MAX, there are no     *)
(* symbolic links, everybody may write everywhere, and there is room.      *)
(***************************************************************************)
EXTENDS Integers, Sequences

CONSTANTS Makers, Paths

ASSUME MakeDirsAssumption ==
    /\ Paths \subseteq Seq(UNION {{p[k] : k \in DOMAIN p} : p \in Paths})
    /\ \A p \in Paths : Len(p) > 0 /\ \A k \in 1 .. Len(p) : SubSeq(p, 1, k) \in Paths

VARIABLES dirs, plain,  \* the paths of the directories and of the other files
          maker         \* per maker, its call

makeDirsVars == <<dirs, plain, maker>>

\* A call: the path, from which component to which it goes, and where it is.
\* Ghosts: the path was passed with a slash behind it, or to vpk_mkdir; the paths
\* that others have made or removed since then.
NoDirs == [pc |-> "idle", path |-> <<>>, i |-> 1, last |-> 0, ret |-> 0,
           slashed |-> FALSE, meddled |-> {}]

MakeDirsInit ==
    /\ dirs = {} /\ plain = {}
    /\ maker = [m \in Makers |-> NoDirs]

There(p) == p \in dirs \cup plain
UpTo(call, k) == SubSeq(call.path, 1, k)
HasParent(p) == Len(p) = 1 \/ SubSeq(p, 1, Len(p) - 1) \in dirs

\* ps have been made or removed by somebody else than witnesses.
Meddle(witnesses, ps) ==
    [m \in Makers |-> IF m \in witnesses THEN [maker[m] EXCEPT !.meddled = @ \cup ps]
                      ELSE maker[m]]

\* The loop of vpk_mkdir_mult with component k done.
Done(call, k) ==
    IF k < call.last THEN [call EXCEPT !.pc = "access", !.i = k + 1]
    ELSE [call EXCEPT !.pc = "idle", !.ret = 0]

Failed(call) == [call EXCEPT !.pc = "idle", !.ret = -1]
Put(m, call) == maker' = [maker EXCEPT ![m] = call]

----------------------------------------------------------------------------
vpk_mkdir(m, path) ==
    /\ maker[m].pc = "idle"
    /\ Put(m, [NoDirs EXCEPT !.pc = "stat", !.path = path, !.i = Len(path),
                             !.last = Len(path), !.slashed = TRUE])
    /\ UNCHANGED <<dirs, plain>>

\* A directory is made for what stands before each '/' of the path as it was
\* passed: the one that lines 112-116 put behind it is not reached.
vpk_mkdir_mult(m, path, slashed) ==
    /\ maker[m].pc = "idle"
    /\ LET last == IF slashed THEN Len(path) ELSE Len(path) - 1
       IN  Put(m, Done([NoDirs EXCEPT !.path = path, !.last = last, !.slashed = slashed], 0))
    /\ UNCHANGED <<dirs, plain>>

\* the stat of vpk_mkdir
Stat(m) ==
    /\ maker[m].pc = "stat"
    /\ Put(m, CASE maker[m].path \in dirs  -> Done(maker[m], maker[m].i)
                [] maker[m].path \in plain -> Failed(maker[m])
                [] OTHER -> [maker[m] EXCEPT !.pc = "mkdir"])
    /\ UNCHANGED <<dirs, plain>>

Access(m) ==
    /\ maker[m].pc = "access"
    /\ Put(m, [maker[m] EXCEPT !.pc = IF There(UpTo(maker[m], maker[m].i)) THEN "isdir" ELSE "mkdir"])
    /\ UNCHANGED <<dirs, plain>>

\* slip: what is there is taken for a directory
TakeForDir(m) ==
    /\ maker[m].pc = "isdir"
    /\ Put(m, Done(maker[m], maker[m].i))
    /\ UNCHANGED <<dirs, plain>>

IsDir(m) ==
    /\ maker[m].pc = "isdir"
    /\ IF UpTo(maker[m], maker[m].i) \in dirs THEN Put(m, Done(maker[m], maker[m].i))
       ELSE Put(m, Failed(maker[m]))
    /\ UNCHANGED <<dirs, plain>>

Mkdir(m) ==
    /\ maker[m].pc = "mkdir"
    /\ LET p == UpTo(maker[m], maker[m].i)
       IN  IF ~There(p) /\ HasParent(p)
           THEN /\ dirs' = dirs \cup {p}
                /\ maker' = [Meddle(Makers \ {m}, {p}) EXCEPT ![m] = Done(@, @.i)]
           ELSE /\ Put(m, Failed(maker[m]))
                /\ UNCHANGED dirs
    /\ UNCHANGED plain

vpk_create_file(p) ==
    /\ ~There(p) /\ HasParent(p)
    /\ plain' = plain \cup {p}
    /\ maker' = Meddle(Makers, {p})
    /\ UNCHANGED dirs

\* a file, or a directory that is empty
vpk_remove(p) ==
    /\ There(p)
    /\ ~\E q \in dirs \cup plain : Len(q) = Len(p) + 1 /\ SubSeq(q, 1, Len(p)) = p
    /\ dirs' = dirs \ {p} /\ plain' = plain \ {p}
    /\ maker' = Meddle(Makers, {p})

\* of a file
vpk_rename(p, q) ==
    /\ p \in plain /\ q \notin dirs /\ HasParent(q)
    /\ plain' = (plain \ {p}) \cup {q}
    /\ maker' = Meddle(Makers, {p, q})
    /\ UNCHANGED dirs

MakeDirsNext ==
    \/ \E m \in Makers :
        \/ \E p \in Paths : vpk_mkdir(m, p) \/ \E b \in BOOLEAN : vpk_mkdir_mult(m, p, b)
        \/ Stat(m) \/ Access(m) \/ IsDir(m) \/ Mkdir(m)
    \/ \E p \in Paths : vpk_create_file(p) \/ vpk_remove(p) \/ \E q \in Paths : vpk_rename(p, q)

MakeDirsSpec == MakeDirsInit /\ [][MakeDirsNext]_makeDirsVars

----------------------------------------------------------------------------
(* Properties                                                              *)

\* The directories are there, unless somebody else has removed them.
Made(call, components) == \A k \in components : UpTo(call, k) \in dirs \cup call.meddled

\* A file is in the way, or somebody else has made or removed a directory.
InTheWay(call) == \E k \in 1 .. call.last :
    UpTo(call, k) \in plain \cup call.meddled \/ ~HasParent(UpTo(call, k))

(***************************************************************************)
(* vpk_mkdir, and vpk_mkdir_mult of a path with a slash behind it, with    *)
(* others at work in the same directories: after a success each directory  *)
(* of the path is there, and a failure has a reason; of a path without a   *)
(* slash (vpk_ifilesys.c:118) those above the last one are there.          *)
(***************************************************************************)
SlashedDirsMade == \A m \in Makers : maker[m].pc = "idle" =>
    IF maker[m].ret # 0 THEN InTheWay(maker[m])
    ELSE /\ Made(maker[m], 1 .. Len(maker[m].path) - 1)
         /\ maker[m].slashed => Made(maker[m], 1 .. Len(maker[m].path))

(***************************************************************************)
(* vpk_filesys.h:59 "create multilevel input directory" (0 on success),    *)
(* of any path: sample_filesys.c:175 passes "tmp", without a slash.        *)
(***************************************************************************)
DirsMade == \A m \in Makers :
    maker[m].pc = "idle" /\ maker[m].ret = 0 => Made(maker[m], 1 .. Len(maker[m].path))
=============================================================================
