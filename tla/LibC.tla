-------------------------------- MODULE LibC --------------------------------
(***************************************************************************)
(* Running shell commands: SystemEx and mysystem of vpk_libc.c.  Callers   *)
(* are processes.  A caller runs a command for its effect                  *)
(* (vpk_system_ex) or for its output (vpk_system_exval); the latter goes   *)
(* to a temporary file, is read from there, and a second command, rm,      *)
(* removes temporary files.  The pattern "%[a-Z]" of line 184 takes hardly *)
(* any letter, so all commands have the same prefix, which is empty, and   *)
(* "rm -rf /tmp/-*" removes the files of all callers.  A command that      *)
(* outlives its shell is left out: nobody waits for it.                    *)
(***************************************************************************)
EXTENDS Integers

CONSTANTS Callers,
          Limits,           \* values of timout, in seconds
          POLLS,            \* looks at the child per second: 10
          EXVAL_LIMIT,      \* what mysystem gives a command: 20 seconds
          UINT,             \* unsigned int is modulo UINT: 2^32
          BufSizes,         \* sizes of the buffers for the output
          OutputSize        \* bound: bytes that a command writes

ASSUME LibCAssumption ==
    /\ Limits \subseteq Nat /\ EXVAL_LIMIT \in Nat
    /\ POLLS \in Nat \ {0} /\ UINT \in Nat \ {0}
    /\ BufSizes \subseteq Nat /\ OutputSize \in Nat

VARIABLES shell,    \* per caller, its call
          output    \* per caller, the bytes in its temporary file, -1 without a file

libcVars == <<shell, output>>

\* A call: the command that runs ("user", "output" or "rm"), its timeout and
\* the looks left, the child and what it ends with (0, or 1 for any exit code or
\* signal), whether SIGINT, SIGQUIT and SIGCHLD are shut out, and were before,
\* the size of the buffer, and what is to be returned.  Ghosts: naps, forkFailed,
\* the bytes that the caller's own command has written, and what it has ended
\* with in time, or -1.
NoCall == [pc |-> "idle", task |-> "none", limit |-> 0, left |-> 0, naps |-> 0,
           child |-> "none", status |-> 0, deaf |-> FALSE, saved |-> FALSE,
           forkFailed |-> FALSE, size |-> 0, wrote |-> 0, exit |-> -1, ret |-> 0]

LibCInit ==
    /\ shell = [c \in Callers |-> NoCall]
    /\ output = [c \in Callers |-> -1]

Is(c, pc) == shell[c].pc = pc

\* A new call; signals that were shut out are still so.
Fresh(call) == [NoCall EXCEPT !.deaf = call.deaf, !.forkFailed = call.forkFailed]

\* slip: what is 0 is not made forever
LooksNoForever(limit) == (limit * POLLS) % UINT

\* timeout *= 10; if (timeout == 0) timeout = 0xFFFFFFFF
Looks(limit) == LET n == (limit * POLLS) % UINT IN IF n = 0 THEN UINT - 1 ELSE n

\* The call with SystemEx entered, the signals shut out.
Run(call, task, limit) ==
    [call EXCEPT !.pc = "fork", !.task = task, !.limit = limit, !.left = Looks(limit),
                 !.naps = 0, !.saved = call.deaf, !.deaf = TRUE]

\* The call is over; what it has waited for is kept if it was in vain.
Back(call, value) ==
    [call EXCEPT !.pc = "idle", !.ret = value, !.left = 0, !.status = 0, !.saved = FALSE,
                 !.limit = IF value = -2 THEN @ ELSE 0,
                 !.naps = IF value = -2 THEN @ ELSE 0]

\* slip: SystemEx has failed, and the output is read all the same
AfterReadAnyway(call, value) ==
    CASE call.task = "output" -> [call EXCEPT !.pc = "open"]
      [] call.task = "user" -> Back(call, value)
      [] OTHER -> Back(call, call.ret)

\* The call after its SystemEx has returned value.
After(call, value) ==
    CASE call.task = "output" /\ value >= 0 -> [call EXCEPT !.pc = "open"]
      [] call.task = "output" /\ value < 0 -> Run([call EXCEPT !.ret = -1], "rm", EXVAL_LIMIT)
      [] call.task = "user" -> Back(call, value)
      [] OTHER -> Back(call, call.ret)

Set(c, call) == shell' = [shell EXCEPT ![c] = call]

----------------------------------------------------------------------------
vpk_system_ex(c, limit) ==
    /\ Is(c, "idle")
    /\ Set(c, Run(Fresh(shell[c]), "user", limit))
    /\ UNCHANGED output

\* the command is NULL
NoCommand(c) ==
    /\ Is(c, "idle")
    /\ Set(c, [Fresh(shell[c]) EXCEPT !.ret = 1])
    /\ UNCHANGED output

\* mkstemp makes a name that nobody has
vpk_system_exval(c, size) ==
    /\ Is(c, "idle")
    /\ Set(c, Run([Fresh(shell[c]) EXCEPT !.size = size], "output", EXVAL_LIMIT))
    /\ output' = [output EXCEPT ![c] = 0]

\* the command is NULL or too long, or mkstemp fails
ExvalRefused(c) ==
    /\ Is(c, "idle")
    /\ Set(c, [Fresh(shell[c]) EXCEPT !.ret = -1])
    /\ UNCHANGED output

\* sigaction and sigprocmask do not fail: their arguments are valid
Fork(c) ==
    /\ Is(c, "fork")
    /\ Set(c, [shell[c] EXCEPT !.pc = "wait", !.child = "starts"])
    /\ UNCHANGED output

\* fork fails, and the signals stay shut out
ForkFails(c) ==
    /\ Is(c, "fork")
    /\ Set(c, After([shell[c] EXCEPT !.forkFailed = TRUE], -1))
    /\ UNCHANGED output

----------------------------------------------------------------------------
(* The child, which is the shell.                                          *)

\* It opens the file that it redirects the output to.
ChildStarts(c) ==
    /\ shell[c].child = "starts"
    /\ Set(c, [shell[c] EXCEPT !.child = "runs"])
    /\ output' = IF shell[c].task = "output" THEN [output EXCEPT ![c] = 0] ELSE output

\* Its command writes, to a file that may have lost its name.
ChildWrites(c) ==
    /\ shell[c].child = "runs" /\ shell[c].task = "output" /\ shell[c].wrote < OutputSize
    /\ Set(c, [shell[c] EXCEPT !.wrote = @ + 1])
    /\ output' = IF output[c] = -1 THEN output ELSE [output EXCEPT ![c] = @ + 1]

\* rm removes the files that its pattern has found, one after the other.
ChildRemoves(c, d) ==
    /\ shell[c].child = "runs" /\ shell[c].task = "rm" /\ output[d] # -1
    /\ output' = [output EXCEPT ![d] = -1]
    /\ UNCHANGED shell

\* It ends with its command, fails or is killed, the latter also before it runs it.
ChildEnds(c, status) ==
    /\ shell[c].child = "runs" \/ (shell[c].child = "starts" /\ status # 0)
    /\ Set(c, [shell[c] EXCEPT !.child = "ended", !.status = status])
    /\ UNCHANGED output

----------------------------------------------------------------------------
(* Waiting for it                                                          *)

\* waitpid finds it running, and the caller sleeps for 100 ms
Nap(c) ==
    /\ Is(c, "wait")
    /\ shell[c].left > 0 /\ shell[c].child # "ended"
    /\ Set(c, [shell[c] EXCEPT !.left = @ - 1, !.naps = @ + 1])
    /\ UNCHANGED output

Restored(call) == [call EXCEPT !.deaf = call.saved, !.child = "none"]

\* waitpid has its status, which is returned as it is
Reap(c) ==
    /\ Is(c, "wait")
    /\ shell[c].left > 0 /\ shell[c].child = "ended"
    /\ Set(c, After([Restored(shell[c]) EXCEPT
                        !.exit = IF shell[c].task = "output" THEN shell[c].status ELSE @],
                    shell[c].status))
    /\ UNCHANGED output

\* waitpid fails: where SIGCHLD is ignored, nothing is kept of a child that has ended
StatusLost(c) ==
    /\ Is(c, "wait")
    /\ shell[c].left > 0 /\ shell[c].child = "ended"
    /\ Set(c, After(Restored(shell[c]), -1))
    /\ UNCHANGED output

\* kill and waitpid, also of a child that has ended during the last nap
GiveUp(c) ==
    /\ Is(c, "wait")
    /\ shell[c].left = 0
    /\ Set(c, After(Restored(shell[c]), -2))
    /\ UNCHANGED output

Least(m, n) == IF m < n THEN m ELSE n

\* open, read of at most size bytes, close; -1 if there is no file or it cannot be read
ReadOutput(c) ==
    /\ Is(c, "open")
    /\ \E n \in {-1, IF output[c] = -1 THEN -1 ELSE Least(shell[c].size, output[c])} :
          Set(c, Run([shell[c] EXCEPT !.ret = n], "rm", EXVAL_LIMIT))
    /\ UNCHANGED output

LibCNext == \E c \in Callers :
    \/ \E limit \in Limits : vpk_system_ex(c, limit)
    \/ \E size \in BufSizes : vpk_system_exval(c, size)
    \/ NoCommand(c) \/ ExvalRefused(c) \/ Fork(c) \/ ForkFails(c)
    \/ ChildStarts(c) \/ ChildWrites(c) \/ \E d \in Callers : ChildRemoves(c, d)
    \/ \E status \in {0, 1} : ChildEnds(c, status)
    \/ Nap(c) \/ Reap(c) \/ StatusLost(c) \/ GiveUp(c) \/ ReadOutput(c)

LibCSpec == LibCInit /\ [][LibCNext]_libcVars

----------------------------------------------------------------------------
(* Properties                                                              *)

(***************************************************************************)
(* vpk_libc.c:91, "-2 when the time is over": told that the command took   *)
(* too long, the caller has waited for as long as it has asked for, and    *)
(* with 0 as good as for ever.                                             *)
(***************************************************************************)
TimeoutIsKept == \A c \in Callers : Is(c, "idle") /\ shell[c].ret = -2 =>
    shell[c].naps = IF shell[c].limit = 0 THEN UINT - 1 ELSE POLLS * shell[c].limit

(***************************************************************************)
(* A caller that is back has no child left behind it, not even a dead one, *)
(* its signals are as they were, unless a fork has failed on it, and a     *)
(* timeout whose number of looks fits has been kept.                       *)
(***************************************************************************)
SystemExIsOver ==
    /\ \A c \in Callers : Is(c, "idle") =>
          shell[c].child = "none" /\ (shell[c].deaf => shell[c].forkFailed)
    /\ TimeoutIsKept

\* The caller is back from vpk_system_exval.
HasAnswer(c) == Is(c, "idle") /\ shell[c].task = "rm"

(***************************************************************************)
(* Whatever other callers remove meanwhile, the caller of vpk_system_exval *)
(* that is not told of a failure has the beginning of what its own command *)
(* has written until it ended, as much as the buffer holds, and the number *)
(* that it is told says how much.                                          *)
(***************************************************************************)
OutputOrFailure == \A c \in Callers : HasAnswer(c) /\ shell[c].ret # -1 =>
    shell[c].exit # -1 /\ shell[c].ret = Least(shell[c].size, shell[c].wrote)
=============================================================================
