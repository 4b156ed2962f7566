------------------------------ MODULE WatchDog ------------------------------
(***************************************************************************)
(* The watchdog of main/sample_consumer.c on the System V semaphore and    *)
(* shared memory of vpk_ipc_sem.c and vpk_ipc_shm.c.  A feeder process     *)
(* sets the counter dog to 20 every 5 seconds; a watcher process counts it *)
(* down every second and reports the feeder when it finds less than 5.     *)
(* Both take the semaphore (P) around the access and give it back (V); the *)
(* watcher sets it to 1 when it starts.                                    *)
(*                                                                         *)
(* P and V carry SEM_UNDO: the kernel keeps, per process, what to add to   *)
(* the semaphore when the process dies.  SETALL forgets it for every       *)
(* process.  Semaphore and memory outlive the processes; the code that     *)
(* removes them comes after an endless loop.  Calls that get or attach     *)
(* them succeed.                                                           *)
(***************************************************************************)
EXTENDS Integers, FiniteSets

CONSTANTS Feeders, Watchers,    \* the processes
          Restart,              \* those that may be started again after a crash
          DogValues,            \* dog is an unsigned char: 256
          Slack                 \* by how many seconds a process that can run is late

ASSUME WatchDogAssumption ==
    /\ Feeders \cap Watchers = {}
    /\ Restart \subseteq Feeders \cup Watchers
    /\ DogValues \in Nat /\ DogValues > 20
    /\ Slack \in Nat

VARIABLES semval,       \* value of the semaphore
          semadj,       \* per process, what its death adds to the semaphore
          dog,          \* g_status->appstatus.tima.dog
          pc,           \* where each process is
          seen,         \* the value of dog a watcher has found, or Unseen
          asleep,       \* how many seconds a process still sleeps
          late,         \* how many seconds it has been able to run since
          fed           \* ghost: the feeder has fed since it was started

sem  == <<semval, semadj>>
time == <<asleep, late>>
vars == <<sem, dog, pc, seen, time, fed>>

Procs == Feeders \cup Watchers
Full == 20
Low  == 5
Unseen == DogValues     \* no value of an unsigned char

Running  == {p \in Procs : pc[p] \notin {"new", "down"}}
Critical == {"update", "store", "unlock"}
Holders  == {p \in Procs : pc[p] \in Critical}

\* The kernel fills new memory, and a new semaphore, with 0.
Init ==
    /\ semval = 0
    /\ semadj = [p \in Procs |-> 0]
    /\ dog = 0
    /\ pc = [p \in Procs |-> "new"]
    /\ seen = [w \in Watchers |-> Unseen]
    /\ asleep = [p \in Procs |-> 0]
    /\ late = [p \in Procs |-> 0]
    /\ fed = [f \in Feeders |-> FALSE]

Goto(p, l) == pc' = [pc EXCEPT ![p] = l]

----------------------------------------------------------------------------
(* Slips that the properties must notice; they are not part of the model.  *)

\* P without SEM_UNDO: the death of a process in the critical section is not undone
PNoUndo(p) ==
    /\ pc[p] = "lock"
    /\ semval > 0
    /\ semval' = semval - 1
    /\ Goto(p, "update")
    /\ UNCHANGED <<semadj, dog, seen, time, fed>>

\* the feeder initializes the semaphore as well
FeederStartSets(f) ==
    /\ pc[f] = "new" \/ (pc[f] = "down" /\ f \in Restart)
    /\ semval' = 1
    /\ semadj' = [p \in Procs |-> 0]
    /\ Goto(f, "lock")
    /\ UNCHANGED <<dog, seen, time, fed>>

\* the semaphore is given back before the decremented counter is stored
WatchLoadUnlocks(w) ==
    /\ pc[w] = "update"
    /\ seen' = [seen EXCEPT ![w] = dog]
    /\ semval' = semval + 1
    /\ semadj' = [semadj EXCEPT ![w] = @ - 1]
    /\ Goto(w, "store")
    /\ UNCHANGED <<dog, time, fed>>

\* a feed that lasts about as long as the feeder sleeps
FeedTooLittle(f) ==
    /\ pc[f] = "update"
    /\ dog' = Low + 5
    /\ fed' = [fed EXCEPT ![f] = TRUE]
    /\ Goto(f, "unlock")
    /\ UNCHANGED <<sem, seen, time>>

\* dog is an int
WatchStoreWide(w) ==
    /\ pc[w] = "store"
    /\ dog' = seen[w] - 1
    /\ Goto(w, "unlock")
    /\ UNCHANGED <<sem, seen, time, fed>>

\* the watcher puts back what it has found
WatchStoreSame(w) ==
    /\ pc[w] = "store"
    /\ dog' = seen[w]
    /\ Goto(w, "unlock")
    /\ UNCHANGED <<sem, seen, time, fed>>

----------------------------------------------------------------------------
(* Starting and dying                                                      *)

MayStart(p) == pc[p] = "new" \/ (pc[p] = "down" /\ p \in Restart)

FeederStart(f) ==
    /\ MayStart(f)
    /\ Goto(f, "lock")
    /\ UNCHANGED <<sem, dog, seen, time, fed>>

\* vpk_semctl(SETALL)
WatcherStart(w) ==
    /\ MayStart(w)
    /\ semval' = 1
    /\ semadj' = [p \in Procs |-> 0]
    /\ Goto(w, "lock")
    /\ UNCHANGED <<dog, seen, time, fed>>

\* The kernel undoes, and never goes below 0.
Crash(p) ==
    /\ p \in Running
    /\ semval' = IF semval + semadj[p] < 0 THEN 0 ELSE semval + semadj[p]
    /\ semadj' = [semadj EXCEPT ![p] = 0]
    /\ Goto(p, "down")
    /\ asleep' = [asleep EXCEPT ![p] = 0]
    /\ late' = [late EXCEPT ![p] = 0]
    /\ fed' = [f \in Feeders |-> fed[f] /\ f # p]
    /\ seen' = [w \in Watchers |-> IF w = p THEN Unseen ELSE seen[w]]
    /\ UNCHANGED dog

----------------------------------------------------------------------------
(* vpk_sem_p and vpk_sem_v                                                 *)

P(p) ==
    /\ pc[p] = "lock"
    /\ semval > 0
    /\ semval' = semval - 1
    /\ semadj' = [semadj EXCEPT ![p] = @ + 1]
    /\ Goto(p, "update")
    /\ UNCHANGED <<dog, seen, time, fed>>

(***************************************************************************)
(* A blocked semop fails when the process is stopped and resumed.  The -1  *)
(* is logged, and the callers go on as if they had the semaphore.          *)
(***************************************************************************)
PInterrupted(p) ==
    /\ pc[p] = "lock"
    /\ semval = 0
    /\ Goto(p, "update")
    /\ UNCHANGED <<sem, dog, seen, time, fed>>

V(p, seconds) ==
    /\ pc[p] = "unlock"
    /\ semval' = semval + 1
    /\ semadj' = [semadj EXCEPT ![p] = @ - 1]
    /\ Goto(p, "sleep")
    /\ asleep' = [asleep EXCEPT ![p] = seconds]
    /\ late' = [late EXCEPT ![p] = 0]
    /\ UNCHANGED <<dog, seen, fed>>

WakeUp(p) ==
    /\ pc[p] = "sleep"
    /\ asleep[p] = 0
    /\ Goto(p, "lock")
    /\ UNCHANGED <<sem, dog, seen, time, fed>>

----------------------------------------------------------------------------
(* vpk_feed_dog and watch_dog: the critical sections                       *)

Feed(f) ==
    /\ pc[f] = "update"
    /\ dog' = Full
    /\ fed' = [fed EXCEPT ![f] = TRUE]
    /\ Goto(f, "unlock")
    /\ UNCHANGED <<sem, seen, time>>

\* dog--: a load, then a store of one less, modulo the width of dog
WatchLoad(w) ==
    /\ pc[w] = "update"
    /\ seen' = [seen EXCEPT ![w] = dog]
    /\ Goto(w, "store")
    /\ UNCHANGED <<sem, dog, time, fed>>

WatchStore(w) ==
    /\ pc[w] = "store"
    /\ dog' = (seen[w] - 1) % DogValues
    /\ Goto(w, "unlock")
    /\ UNCHANGED <<sem, seen, time, fed>>

----------------------------------------------------------------------------
(***************************************************************************)
(* A second passes.  A process that can run does so within Slack seconds;  *)
(* one that sleeps, or waits for the semaphore, cannot.                    *)
(***************************************************************************)
CanRun(p) ==
    \/ pc[p] \in Critical
    \/ pc[p] = "lock" /\ semval > 0
    \/ pc[p] = "sleep" /\ asleep[p] = 0

Tick ==
    /\ \A p \in Procs : CanRun(p) => late[p] < Slack
    /\ asleep' = [p \in Procs |-> IF asleep[p] > 0 THEN asleep[p] - 1 ELSE 0]
    /\ late' = [p \in Procs |-> IF CanRun(p) THEN late[p] + 1 ELSE late[p]]
    /\ UNCHANGED <<sem, dog, pc, seen, fed>>

SemOp(p) == P(p) \/ WakeUp(p)
FeederStep(f)  == SemOp(f) \/ Feed(f) \/ V(f, 5)
WatcherStep(w) == SemOp(w) \/ WatchLoad(w) \/ WatchStore(w) \/ V(w, 1)

Next ==
    \/ Tick
    \/ \E p \in Procs : Crash(p)
    \/ \E f \in Feeders : FeederStart(f) \/ FeederStep(f)
    \/ \E w \in Watchers : WatcherStart(w) \/ WatcherStep(w)

Spec == Init /\ [][Next]_vars

\* The same when processes may also be stopped and resumed.
StoppableSpec == Init /\ [][Next \/ \E p \in Procs : PInterrupted(p)]_vars

\* Running processes run and time passes; nothing has to be started or to die.
FairSpec ==
    /\ Spec
    /\ WF_vars(Tick)
    /\ \A f \in Feeders : WF_vars(FeederStep(f))
    /\ \A w \in Watchers : WF_vars(WatcherStep(w)) /\ SF_vars(P(w))

----------------------------------------------------------------------------
(* Properties                                                              *)

TypeOK ==
    /\ semval \in Nat
    /\ semadj \in [Procs -> Int]
    /\ dog \in 0 .. DogValues - 1
    /\ pc \in [Procs -> {"new", "down", "lock", "sleep"} \cup Critical]
    /\ seen \in [Watchers -> 0 .. DogValues]
    /\ asleep \in [Procs -> 0 .. 5]
    /\ late \in [Procs -> 0 .. Slack]
    /\ fed \in [Feeders -> BOOLEAN]

(***************************************************************************)
(* sample_consumer.c:580: the semaphore is the lock of the shared memory,  *)
(* so at most one process is between P and V.                              *)
(***************************************************************************)
MutualExclusion == \A p, q \in Holders : p = q

(***************************************************************************)
(* Once the watcher has started, the semaphore is free or held by exactly  *)
(* one process, whoever has died where: what the kernel would undo is what *)
(* the process has taken and not yet given back.                           *)
(***************************************************************************)
SemaphoreAccounts ==
    /\ \A p \in Procs : semadj[p] = IF p \in Holders THEN 1 ELSE 0
    /\ (\E w \in Watchers : pc[w] # "new") => semval + Cardinality(Holders) = 1

(***************************************************************************)
(* A feed is not undone by a watcher that stores one less than the value   *)
(* it found before.                                                        *)
(***************************************************************************)
FeedNotLost == \A w \in Watchers : pc[w] = "store" => dog = seen[w]

(***************************************************************************)
(* As long as a feeder lives that has fed, no watcher can find the counter *)
(* so low that it reports the feeder, although neither process keeps time  *)
(* exactly and the two wait for each other.                                *)
(***************************************************************************)
NoFalseAlarm == (\E f \in Feeders : fed[f]) => dog >= Low

(***************************************************************************)
(* If the feeders are dead and a watcher lives, the watcher finds out.     *)
(***************************************************************************)
DeathNoticed ==
    \A w \in Watchers :
        Running = {w} ~> seen[w] < Low \/ Running # {w}

(***************************************************************************)
(* sample_consumer.c:654: "process no response or not running".  A watcher *)
(* that has reported this, and finds the counter as it has left it because *)
(* nobody has fed since, reports it again.                                 *)
(***************************************************************************)
FindsOwnReport(w) ==
    /\ pc[w] = "update"
    /\ pc'[w] = "store"
    /\ seen[w] < Low
    /\ dog = (seen[w] - 1) % DogValues
ReportedUntilFed == [][\A w \in Watchers : FindsOwnReport(w) => seen'[w] < Low]_vars
=============================================================================
