-------------------------- MODULE WatchDog_proofs --------------------------
(***************************************************************************)
(* Proofs about the watchdog, for any number of feeders that may die and   *)
(* be started again at any time, and any delays.                           *)
(*                                                                         *)
(* They hold as long as there is one watcher, started once, and no process *)
(* is stopped while it waits for the semaphore (Spec, not StoppableSpec);  *)
(* without either assumption mutual exclusion fails, as the runs           *)
(* watchdog_restart and watchdog_interrupt show.                           *)
(***************************************************************************)
EXTENDS WatchDog, FiniteSetTheorems, TLAPS

\* One watcher, that sets the semaphore once.
StartedOnce(w) == Watchers = {w} /\ w \notin Restart

(***************************************************************************)
(* The inductive invariant.  Until the watcher starts, the semaphore is 0  *)
(* and nobody gets past P; from then on it is 0 if one process holds it    *)
(* and 1 if none does.                                                     *)
(***************************************************************************)
Closed == semval = 0 /\ Holders = {}
Free   == semval = 1 /\ Holders = {}
Held   == semval = 0 /\ \E h \in Procs : Holders = {h}

UndoIsHolding == \A p \in Procs : semadj[p] = IF p \in Holders THEN 1 ELSE 0

IInv(w) ==
    /\ TypeOK
    /\ UndoIsHolding
    /\ IF pc[w] = "new" THEN Closed ELSE Free \/ Held
    /\ FeedNotLost

USE WatchDogAssumption

----------------------------------------------------------------------------
\* Counting down stays within an unsigned char.
LEMMA OneLess ==
    ASSUME NEW n \in Nat, n > 0, NEW v \in 0 .. n - 1
    PROVE  (v - 1) % n \in 0 .. n - 1
  OBVIOUS

\* Nothing has started, and the semaphore is new.
LEMMA InitIInv == ASSUME NEW w, StartedOnce(w), Init PROVE IInv(w)
<1>1. TypeOK
  BY DEF Init, TypeOK, Procs, Unseen
<1>2. Holders = {} /\ pc[w] = "new"
  BY DEF Init, Holders, Critical, Procs, StartedOnce
<1> QED
  BY <1>1, <1>2 DEF Init, IInv, UndoIsHolding, Closed, FeedNotLost, Procs

\* Every step keeps the variables in their ranges.
LEMMA NextTypeOK == TypeOK /\ FeedNotLost /\ [Next]_vars => TypeOK'
<1> SUFFICES ASSUME TypeOK, FeedNotLost, [Next]_vars PROVE TypeOK'
  OBVIOUS
<1> USE DEF TypeOK, sem, time, Procs, Critical, Unseen, Goto
<1>1. CASE Tick
  BY <1>1 DEF Tick, CanRun
<1>2. ASSUME NEW p \in Procs, Crash(p) PROVE TypeOK'
  BY <1>2 DEF Crash, Running
<1>3. ASSUME NEW p \in Procs, SemOp(p) PROVE TypeOK'
  BY <1>3 DEF SemOp, P, WakeUp
<1>4. ASSUME NEW p \in Procs, V(p, 5) \/ V(p, 1) PROVE TypeOK'
  BY <1>4 DEF V
<1>5. ASSUME NEW f \in Feeders, FeederStart(f) \/ Feed(f) PROVE TypeOK'
  <2>1. CASE FeederStart(f)
    BY <2>1 DEF FeederStart
  <2>2. CASE Feed(f)
    BY <2>2 DEF Feed, Full
  <2> QED
    BY <1>5, <2>1, <2>2
<1>6. ASSUME NEW w \in Watchers, WatcherStart(w) \/ WatchLoad(w) PROVE TypeOK'
  BY <1>6 DEF WatcherStart, WatchLoad
<1>7. ASSUME NEW w \in Watchers, WatchStore(w) PROVE TypeOK'
  <2>1. seen[w] \in 0 .. DogValues - 1
    BY <1>7 DEF WatchStore, FeedNotLost
  <2>2. dog' \in 0 .. DogValues - 1
    BY <1>7, <2>1, OneLess DEF WatchStore
  <2> QED
    BY <1>7, <2>2 DEF WatchStore
<1>8. CASE UNCHANGED vars
  BY <1>8 DEF vars
<1> QED
  BY <1>1, <1>2, <1>3, <1>4, <1>5, <1>6, <1>7, <1>8 DEF Next, FeederStep, WatcherStep

----------------------------------------------------------------------------
(* Who holds the semaphore.                                                *)

\* A step that leaves pc of a process out of the critical section, or in it,
\* leaves the set of holders alone.
LEMMA SameHolders ==
    ASSUME TypeOK, NEW p \in Procs, NEW l, Goto(p, l), pc[p] \in Critical <=> l \in Critical
    PROVE  Holders' = Holders
  BY DEF TypeOK, Goto, Holders

\* The semaphore is taken by a process that was not in the critical section.
LEMMA Taken ==
    ASSUME NEW w, IInv(w), StartedOnce(w), NEW p \in Procs, P(p)
    PROVE  /\ Held'
           /\ UndoIsHolding'
           /\ pc'[w] # "new"
<1> USE DEF IInv, TypeOK
<1>1. Free
  BY DEF P, Closed, Held, Free
<1>2. Holders' = {p}
  BY <1>1 DEF P, Goto, Free, Holders, Critical
<1>3. pc[w] # "new"
  BY <1>1 DEF Free, Closed
<1>4. Held'
  BY <1>1, <1>2 DEF P, Free, Held
<1>5. UndoIsHolding'
  BY <1>1, <1>2 DEF P, Free, UndoIsHolding
<1>6. pc'[w] # "new"
  BY <1>3 DEF P, Goto, StartedOnce, Procs
<1> QED
  BY <1>4, <1>5, <1>6

\* The process that leaves the critical section, by V or by dying in it, was
\* the one that held the semaphore.
LEMMA OnlyHolder ==
    ASSUME NEW w, IInv(w), NEW p \in Holders
    PROVE  semval = 0 /\ Holders = {p} /\ pc[w] # "new" /\ semadj[p] = 1
  BY DEF IInv, Closed, Free, Held, UndoIsHolding, Holders

LEMMA GivenBack ==
    ASSUME NEW w, IInv(w), StartedOnce(w), NEW p \in Holders, NEW l, l \notin Critical, l # "new",
           Goto(p, l), semval' = semval + 1, semadj' = [semadj EXCEPT ![p] = 0]
    PROVE  Free' /\ UndoIsHolding' /\ pc'[w] # "new"
<1> USE DEF IInv, TypeOK
<1>1. semval = 0 /\ Holders = {p} /\ pc[w] # "new"
  BY OnlyHolder
<1>2. p \in Procs
  BY DEF Holders
<1>3. Holders' = {}
  BY <1>1, <1>2 DEF Goto, Holders
<1>4. Free'
  BY <1>1, <1>3 DEF Free
<1>5. UndoIsHolding'
  BY <1>1, <1>2, <1>3 DEF UndoIsHolding
<1>6. pc'[w] # "new"
  BY <1>1, <1>2 DEF Goto, StartedOnce, Procs
<1> QED
  BY <1>4, <1>5, <1>6

----------------------------------------------------------------------------
(* The invariant is preserved.                                             *)

\* The part of the invariant about the semaphore
SemInv(w) == UndoIsHolding /\ IF pc[w] = "new" THEN Closed ELSE Free \/ Held

\* Steps that touch neither the semaphore nor the borders of the critical
\* section, of a process that is running or starts to.
LEMMA Elsewhere ==
    ASSUME NEW w, IInv(w), StartedOnce(w), NEW p \in Procs, NEW l, Goto(p, l),
           pc[p] \in Critical <=> l \in Critical,
           l # "new", p = w => pc[w] # "new",
           UNCHANGED sem
    PROVE  SemInv(w)'
<1>1. Holders' = Holders
  BY SameHolders DEF IInv
<1>2. pc'[w] = "new" <=> pc[w] = "new"
  BY DEF IInv, TypeOK, Goto, StartedOnce, Procs
<1> QED
  BY <1>1, <1>2 DEF IInv, SemInv, UndoIsHolding, Closed, Free, Held, sem

LEMMA NextSemInv == ASSUME NEW w, IInv(w), StartedOnce(w), [Next]_vars PROVE SemInv(w)'
<1> USE DEF StartedOnce, Procs
<1>1. CASE Tick
  BY <1>1 DEF Tick, IInv, SemInv, UndoIsHolding, Closed, Free, Held, Holders, sem
<1>2. ASSUME NEW p \in Procs, Crash(p) PROVE SemInv(w)'
  <2>1. CASE p \in Holders
    <3>1. semval = 0 /\ semadj[p] = 1
      BY <2>1, OnlyHolder
    <3>2. Goto(p, "down") /\ semval' = semval + 1 /\ semadj' = [semadj EXCEPT ![p] = 0]
      BY <1>2, <3>1 DEF Crash
    <3> QED
      BY <2>1, <3>2, GivenBack DEF SemInv, Critical
  <2>2. CASE p \notin Holders
    <3>1. semadj[p] = 0 /\ pc[p] \notin Critical
      BY <2>2 DEF IInv, UndoIsHolding, Holders
    <3>2. UNCHANGED sem
      BY <1>2, <3>1 DEF Crash, IInv, TypeOK, sem
    <3>3. Goto(p, "down") /\ pc[p] # "new"
      BY <1>2 DEF Crash, Running
    <3> QED
      BY <3>1, <3>2, <3>3, Elsewhere DEF Critical
  <2> QED
    BY <2>1, <2>2
<1>3. ASSUME NEW p \in Procs, P(p) PROVE SemInv(w)'
  BY <1>3, Taken DEF SemInv
<1>4. ASSUME NEW p \in Procs, WakeUp(p) PROVE SemInv(w)'
  BY <1>4, Elsewhere DEF WakeUp, Critical, sem
<1>5. ASSUME NEW p \in Procs, V(p, 5) \/ V(p, 1) PROVE SemInv(w)'
  <2>1. p \in Holders
    BY <1>5 DEF V, Holders, Critical
  <2>2. semadj[p] = 1
    BY <2>1, OnlyHolder
  <2>3. Goto(p, "sleep") /\ semval' = semval + 1 /\ semadj' = [semadj EXCEPT ![p] = 0]
    BY <1>5, <2>2 DEF V, IInv, TypeOK
  <2> QED
    BY <2>1, <2>3, GivenBack DEF SemInv, Critical
<1>6. ASSUME NEW f \in Feeders, FeederStart(f) PROVE SemInv(w)'
  <2>1. Goto(f, "lock") /\ pc[f] \notin Critical /\ f # w /\ UNCHANGED sem
    BY <1>6, WatchDogAssumption DEF FeederStart, MayStart, Critical
  <2> QED
    BY <2>1, Elsewhere DEF Critical
<1>7. ASSUME NEW f \in Feeders, Feed(f) PROVE SemInv(w)'
  <2>1. Goto(f, "unlock") /\ pc[f] \in Critical /\ f # w /\ UNCHANGED sem
    BY <1>7, WatchDogAssumption DEF Feed, Critical
  <2> QED
    BY <2>1, Elsewhere DEF Critical
<1>8. CASE WatcherStart(w)
  <2>1. Closed
    BY <1>8 DEF WatcherStart, MayStart, IInv
  <2>2. Goto(w, "lock") /\ pc[w] \notin Critical
    BY <1>8 DEF WatcherStart, MayStart, Critical
  <2>3. Holders' = {}
    BY <2>1, <2>2, SameHolders DEF Closed, Critical, IInv
  <2>4. pc'[w] = "lock"
    BY <2>2 DEF Goto, IInv, TypeOK
  <2> QED
    BY <1>8, <2>3, <2>4 DEF WatcherStart, SemInv, UndoIsHolding, Free
<1>9. CASE WatchLoad(w)
  BY <1>9, Elsewhere DEF WatchLoad, Critical
<1>10. CASE WatchStore(w)
  BY <1>10, Elsewhere DEF WatchStore, Critical
<1>11. CASE UNCHANGED vars
  BY <1>11 DEF vars, sem, IInv, SemInv, UndoIsHolding, Closed, Free, Held, Holders
<1> QED
  BY <1>1, <1>2, <1>3, <1>4, <1>5, <1>6, <1>7, <1>8, <1>9, <1>10, <1>11
     DEF Next, FeederStep, WatcherStep, SemOp

\* The watcher's value stays current because nobody else is between P and V.
LEMMA NextFeedNotLost ==
    ASSUME NEW w, IInv(w), StartedOnce(w), [Next]_vars PROVE FeedNotLost'
<1> USE DEF FeedNotLost, StartedOnce, IInv, TypeOK, Goto, Procs
<1>1. ASSUME NEW f \in Feeders, Feed(f) PROVE FeedNotLost'
  <2>1. f \in Holders /\ f # w
    BY <1>1, WatchDogAssumption DEF Feed, Holders, Critical
  <2>2. pc[w] # "store"
    BY <2>1, OnlyHolder DEF Holders, Critical
  <2> QED
    BY <1>1, <2>1, <2>2 DEF Feed
<1>2. CASE WatchLoad(w)
  BY <1>2 DEF WatchLoad
<1>3. CASE WatchStore(w)
  BY <1>3 DEF WatchStore
<1>4. CASE Tick
  BY <1>4 DEF Tick
<1>5. ASSUME NEW p \in Procs, Crash(p) PROVE FeedNotLost'
  BY <1>5 DEF Crash
<1>6. ASSUME NEW p \in Procs, SemOp(p) \/ V(p, 5) \/ V(p, 1) PROVE FeedNotLost'
  BY <1>6 DEF SemOp, P, WakeUp, V
<1>7. ASSUME NEW f \in Feeders, FeederStart(f) PROVE FeedNotLost'
  BY <1>7 DEF FeederStart
<1>8. CASE WatcherStart(w)
  BY <1>8 DEF WatcherStart
<1>9. CASE UNCHANGED vars
  BY <1>9 DEF vars
<1> QED
  BY <1>1, <1>2, <1>3, <1>4, <1>5, <1>6, <1>7, <1>8, <1>9
     DEF Next, FeederStep, WatcherStep

LEMMA InvariantHolds ==
    ASSUME NEW w, StartedOnce(w) PROVE Spec => []IInv(w)
<1>1. Init => IInv(w)
  BY InitIInv
<1>2. IInv(w) /\ [Next]_vars => IInv(w)'
  BY NextTypeOK, NextSemInv, NextFeedNotLost DEF IInv, SemInv
<1> QED
  BY <1>1, <1>2, PTL DEF Spec

----------------------------------------------------------------------------
(***************************************************************************)
(* Every variable stays in its range: the counter is an unsigned char      *)
(* although it is counted down past 0, and no process is later than Slack. *)
(***************************************************************************)
THEOREM TypeCorrect ==
    ASSUME NEW w, StartedOnce(w) PROVE Spec => []TypeOK
<1>1. IInv(w) => TypeOK
  BY DEF IInv
<1> QED
  BY <1>1, InvariantHolds, PTL

(***************************************************************************)
(* At most one process is between shm_lock and shm_unlock, whichever       *)
(* processes die there and are started again.                              *)
(***************************************************************************)
THEOREM LockExcludes ==
    ASSUME NEW w, StartedOnce(w) PROVE Spec => []MutualExclusion
<1>1. IInv(w) => MutualExclusion
  BY DEF IInv, Closed, Free, Held, MutualExclusion
<1> QED
  BY <1>1, InvariantHolds, PTL

(***************************************************************************)
(* The death of a process never costs the semaphore, nor doubles it.       *)
(***************************************************************************)
THEOREM DeathGivesBack ==
    ASSUME NEW w, StartedOnce(w) PROVE Spec => []SemaphoreAccounts
<1>1. IInv(w) => SemaphoreAccounts
  <2> SUFFICES ASSUME IInv(w) PROVE SemaphoreAccounts
    OBVIOUS
  <2>1. ASSUME Free \/ Held PROVE semval + Cardinality(Holders) = 1
    <3>1. CASE Free
      BY <3>1, FS_EmptySet DEF Free
    <3>2. CASE Held
      <4>1. PICK h \in Procs : Holders = {h}
        BY <3>2 DEF Held
      <4>2. Cardinality(Holders) = 1
        BY <4>1, FS_Singleton
      <4> QED
        BY <3>2, <4>2 DEF Held
    <3> QED
      BY <2>1, <3>1, <3>2
  <2> QED
    BY <2>1 DEF IInv, SemaphoreAccounts, UndoIsHolding, StartedOnce
<1> QED
  BY <1>1, InvariantHolds, PTL

(***************************************************************************)
(* No feed is overwritten by a watcher that counts down a stale value.     *)
(***************************************************************************)
THEOREM FeedsCount ==
    ASSUME NEW w, StartedOnce(w) PROVE Spec => []FeedNotLost
<1>1. IInv(w) => FeedNotLost
  BY DEF IInv
<1> QED
  BY <1>1, InvariantHolds, PTL

----------------------------------------------------------------------------
(***************************************************************************)
(* How long the feeder may be late.  Between two of its feeds the watcher  *)
(* counts down at most once without sleeping for a second before, and each *)
(* second that it sleeps through, without the semaphore, is one of the     *)
(* five that the feeder sleeps or one that the feeder can run and does     *)
(* not: of those there are Slack.  20 - 1 - 5 - Slack must not be less     *)
(* than 5.                                                                 *)
(***************************************************************************)
InTime(f, w) == Feeders = {f} /\ StartedOnce(w) /\ Slack <= Full - Low - 6

\* What the watcher can count down before it has to sleep
Next1(w) ==
    IF pc[w] \in {"lock", "update", "store"} \/ (pc[w] = "sleep" /\ asleep[w] = 0) THEN 1 ELSE 0

Enough(f, w) ==
    IF pc[f] = "unlock" THEN dog = Full
                        ELSE dog >= Low + Next1(w) + asleep[f] + (Slack - late[f])

FedInv(f, w) ==
    /\ pc[f] # "store"
    /\ asleep[w] <= 1
    /\ fed[f] => /\ pc[w] # "new"
                 /\ pc[f] \in {"sleep", "lock", "update", "unlock"}
                 /\ Enough(f, w)

LEMMA InitFedInv == ASSUME NEW f, NEW w, InTime(f, w), Init PROVE FedInv(f, w)
  BY DEF Init, InTime, StartedOnce, FedInv, Procs

\* The two processes, and what holds of them
LEMMA Both ==
    ASSUME NEW f, NEW w, InTime(f, w), IInv(w)
    PROVE  /\ f \in Procs /\ w \in Procs /\ f # w /\ Procs = {f, w}
           /\ pc \in [Procs -> {"new", "down", "lock", "sleep"} \cup Critical]
           /\ asleep \in [Procs -> 0 .. 5] /\ late \in [Procs -> 0 .. Slack]
           /\ asleep[f] \in 0 .. 5 /\ asleep[w] \in 0 .. 5 /\ late[f] \in 0 .. Slack
           /\ fed \in [Feeders -> BOOLEAN] /\ f \in Feeders /\ w \in Watchers
           /\ Slack \in Nat /\ Slack <= 9 /\ dog \in Nat
           /\ ~(f \in Holders /\ w \in Holders)
<1>1. Procs = {f, w} /\ f # w
  BY DEF InTime, StartedOnce, Procs
<1>2. ~(f \in Holders /\ w \in Holders)
  BY <1>1, OnlyHolder
<1>3. Slack \in Nat /\ Slack <= 9
  BY DEF InTime, Full, Low
<1>4. /\ pc \in [Procs -> {"new", "down", "lock", "sleep"} \cup Critical]
      /\ asleep \in [Procs -> 0 .. 5] /\ late \in [Procs -> 0 .. Slack]
      /\ fed \in [Feeders -> BOOLEAN] /\ dog \in Nat
  BY DEF IInv, TypeOK
<1> QED
  BY <1>1, <1>2, <1>3, <1>4 DEF InTime, StartedOnce

LEMMA TickFedInv ==
    ASSUME NEW f, NEW w, InTime(f, w), IInv(w), FedInv(f, w), Tick
    PROVE  FedInv(f, w)'
<1>1. /\ UNCHANGED <<semval, dog, pc, fed>>
      /\ asleep'[f] = (IF asleep[f] > 0 THEN asleep[f] - 1 ELSE 0)
      /\ asleep'[w] = (IF asleep[w] > 0 THEN asleep[w] - 1 ELSE 0)
      /\ late'[f] = (IF CanRun(f) THEN late[f] + 1 ELSE late[f])
      /\ CanRun(f) => late[f] < Slack
  BY Both DEF Tick, sem
<1>2. asleep'[w] <= 1
  BY <1>1, Both DEF FedInv
<1>3. ASSUME fed[f], pc[f] # "unlock" PROVE Enough(f, w)'
  <2>1. dog >= Low + Next1(w) + asleep[f] + (Slack - late[f])
    BY <1>3 DEF FedInv, Enough
  <2>2. asleep'[f] + (Slack - late'[f]) <= asleep[f] + (Slack - late[f])
    BY <1>1, Both
  <2>3. CASE ~(pc[w] = "sleep" /\ asleep[w] > 0)
    <3>1. Next1(w)' = Next1(w)
      BY <1>1, <2>3, Both DEF Next1
    <3>2. Next1(w) \in Nat
      BY DEF Next1
    <3> QED BY <1>1, <1>3, <2>1, <2>2, <3>1, <3>2, Both DEF Enough, Low
  <2>4. CASE pc[w] = "sleep" /\ asleep[w] > 0
    <3>1. Next1(w) = 0 /\ Next1(w)' \in 0 .. 1
      BY <2>4 DEF Next1
    <3>2. asleep[f] > 0 \/ CanRun(f)
      <4>1. CASE pc[f] = "sleep"
        BY <4>1, Both DEF CanRun
      <4>2. CASE pc[f] = "update"
        BY <4>2 DEF CanRun, Critical
      <4>3. CASE pc[f] = "lock"
        <5>1. Holders = {}
          BY <2>4, <4>3, Both DEF Holders, Critical
        <5>2. semval = 1
          BY <1>3, <5>1 DEF IInv, FedInv, Free, Held
        <5> QED BY <4>3, <5>2 DEF CanRun
      <4> QED BY <1>3, <4>1, <4>2, <4>3 DEF FedInv
    <3>3. asleep'[f] + (Slack - late'[f]) + 1 <= asleep[f] + (Slack - late[f])
      BY <1>1, <3>2, Both
    <3> QED BY <1>1, <1>3, <2>1, <3>1, <3>3, Both DEF Enough, Low
  <2> QED BY <2>3, <2>4
<1>4. fed[f] => Enough(f, w)'
  <2>1. CASE pc[f] = "unlock"
    BY <1>1, <2>1 DEF FedInv, Enough
  <2> QED BY <1>3, <2>1
<1> QED
  BY <1>1, <1>2, <1>4 DEF FedInv

LEMMA FeederFedInv ==
    ASSUME NEW f, NEW w, InTime(f, w), IInv(w), FedInv(f, w),
           FeederStart(f) \/ FeederStep(f) \/ Crash(f)
    PROVE  FedInv(f, w)'
<1>1. CASE FeederStart(f) \/ Crash(f)
  <2>1. /\ ~fed'[f] /\ pc'[f] \in {"lock", "down"}
    BY <1>1, Both DEF FeederStart, Crash, MayStart, Goto, FedInv
  <2>2. asleep'[w] = asleep[w]
    BY <1>1, Both DEF FeederStart, Crash, time
  <2> QED BY <2>1, <2>2 DEF FedInv
<1>2. CASE SemOp(f)
  <2>1. /\ pc'[f] \in {"update", "lock"} /\ pc'[w] = pc[w]
        /\ pc[f] # "unlock" /\ UNCHANGED <<dog, time, fed>>
    BY <1>2, Both DEF SemOp, P, WakeUp, Goto
  <2>2. Next1(w)' = Next1(w)
    BY <2>1 DEF Next1, time
  <2> QED BY <2>1, <2>2 DEF FedInv, Enough, time
<1>3. CASE Feed(f)
  <2>1. f \in Holders
    BY <1>3, Both DEF Feed, Holders, Critical
  <2>2. pc[w] # "new"
    BY <2>1, OnlyHolder
  <2>3. pc'[f] = "unlock" /\ pc'[w] = pc[w] /\ dog' = Full /\ asleep' = asleep
    BY <1>3, Both DEF Feed, Goto, time
  <2> QED BY <2>2, <2>3 DEF FedInv, Enough
<1>4. CASE V(f, 5)
  <2>1. /\ pc[f] = "unlock" /\ pc'[f] = "sleep" /\ pc'[w] = pc[w] /\ UNCHANGED <<dog, fed>>
        /\ asleep'[f] = 5 /\ asleep'[w] = asleep[w] /\ late'[f] = 0
    BY <1>4, Both DEF V, Goto
  <2>2. Next1(w)' \in 0 .. 1
    BY DEF Next1
  <2>3. fed[f] => dog = 20
    BY <2>1 DEF FedInv, Enough, Full
  <2>4. fed[f] => dog' >= Low + Next1(w)' + asleep'[f] + (Slack - late'[f])
    BY <2>1, <2>2, <2>3, Both DEF Low
  <2> QED BY <2>1, <2>4 DEF FedInv, Enough
<1> QED
  BY <1>1, <1>2, <1>3, <1>4 DEF FeederStep

LEMMA WatcherFedInv ==
    ASSUME NEW f, NEW w, InTime(f, w), IInv(w), FedInv(f, w),
           WatcherStart(w) \/ WatcherStep(w) \/ Crash(w)
    PROVE  FedInv(f, w)'
<1>0. Next1(w) \in 0 .. 1 /\ Next1(w)' \in 0 .. 1
  BY DEF Next1
<1>1. CASE WatcherStart(w)
  <2>1. pc[w] = "new"
    BY <1>1 DEF WatcherStart, MayStart, InTime, StartedOnce
  <2>2. ~fed'[f] /\ pc'[f] = pc[f] /\ asleep' = asleep
    BY <1>1, <2>1, Both DEF WatcherStart, Goto, FedInv, time
  <2> QED BY <2>2 DEF FedInv
<1>2. CASE Crash(w)
  <2>1. /\ pc'[w] = "down" /\ pc'[f] = pc[f] /\ fed'[f] = fed[f] /\ dog' = dog
        /\ asleep'[w] = 0 /\ asleep'[f] = asleep[f] /\ late'[f] = late[f]
    BY <1>2, Both DEF Crash, Goto
  <2>2. Next1(w)' = 0
    BY <2>1 DEF Next1
  <2>3. ASSUME fed[f], pc[f] # "unlock"
        PROVE  dog' >= Low + Next1(w)' + asleep'[f] + (Slack - late'[f])
    BY <1>0, <2>1, <2>2, <2>3, Both DEF FedInv, Enough, Low
  <2> QED BY <2>1, <2>3 DEF FedInv, Enough
<1>3. CASE SemOp(w) \/ WatchLoad(w)
  <2>1. /\ pc'[f] = pc[f] /\ pc'[w] \in {"lock", "update", "store"}
        /\ pc[w] \in {"lock", "update"} \/ (pc[w] = "sleep" /\ asleep[w] = 0)
        /\ UNCHANGED <<dog, time, fed>>
    BY <1>3, Both DEF SemOp, P, WakeUp, WatchLoad, Goto
  <2>2. Next1(w)' = Next1(w)
    BY <2>1 DEF Next1
  <2> QED BY <2>1, <2>2 DEF FedInv, Enough, time
<1>4. CASE WatchStore(w)
  <2>1. /\ pc[w] = "store" /\ pc'[w] = "unlock" /\ pc'[f] = pc[f]
        /\ UNCHANGED <<time, fed>> /\ dog' = (dog - 1) % DogValues
    BY <1>4, Both DEF WatchStore, Goto, IInv, FeedNotLost
  <2>2. Next1(w) = 1 /\ Next1(w)' = 0
    BY <2>1 DEF Next1
  <2>3. pc[f] # "unlock"
    BY <2>1, Both DEF Holders, Critical
  <2>4. ASSUME fed[f] PROVE dog' >= Low + Next1(w)' + asleep'[f] + (Slack - late'[f])
    <3>1. dog >= Low + 1 + asleep[f] + (Slack - late[f])
      BY <2>2, <2>3, <2>4 DEF FedInv, Enough
    <3>2. dog \in 1 .. DogValues - 1
      BY <3>1, Both DEF Low, IInv, TypeOK
    <3>3. dog' = dog - 1
      BY <2>1, <3>2
    <3>4. asleep' = asleep /\ late' = late
      BY <2>1 DEF time
    <3> QED BY <2>2, <3>1, <3>3, <3>4, Both DEF Low
  <2> QED BY <2>1, <2>3, <2>4 DEF FedInv, Enough, time
<1>5. CASE V(w, 1)
  <2>1. /\ pc[w] = "unlock" /\ pc'[w] = "sleep" /\ pc'[f] = pc[f] /\ UNCHANGED <<dog, fed>>
        /\ asleep'[w] = 1 /\ asleep'[f] = asleep[f] /\ late'[f] = late[f]
    BY <1>5, Both DEF V, Goto
  <2>2. Next1(w) = 0 /\ Next1(w)' = 0
    BY <2>1 DEF Next1
  <2> QED BY <2>1, <2>2 DEF FedInv, Enough
<1> QED
  BY <1>1, <1>2, <1>3, <1>4, <1>5 DEF WatcherStep

(***************************************************************************)
(* As long as the feeder lives and has fed, the watcher finds at least 5,  *)
(* if both run within 9 seconds of when they can: of the 20, 5 go by while *)
(* the feeder sleeps, and one while it waits for the watcher.  With 10,    *)
(* TLC finds a false alarm.                                                *)
(***************************************************************************)
THEOREM NobodyReportedAlive ==
    ASSUME NEW f, NEW w, InTime(f, w) PROVE Spec => []NoFalseAlarm
<1>1. StartedOnce(w)
  BY DEF InTime
<1>2. Init => FedInv(f, w)
  BY InitFedInv
<1>3. IInv(w) /\ FedInv(f, w) /\ [Next]_vars => FedInv(f, w)'
  <2> SUFFICES ASSUME IInv(w), FedInv(f, w), [Next]_vars PROVE FedInv(f, w)'
    OBVIOUS
  <2>1. CASE Tick
    BY <2>1, TickFedInv
  <2>2. CASE FeederStart(f) \/ FeederStep(f) \/ Crash(f)
    BY <2>2, FeederFedInv
  <2>3. CASE WatcherStart(w) \/ WatcherStep(w) \/ Crash(w)
    BY <2>3, WatcherFedInv
  <2>4. CASE UNCHANGED vars
    BY <2>4 DEF vars, time, FedInv, Enough, Next1
  <2> QED BY <2>1, <2>2, <2>3, <2>4 DEF Next, InTime, StartedOnce, Procs
<1>4. IInv(w) /\ FedInv(f, w) => NoFalseAlarm
  <2> SUFFICES ASSUME IInv(w), FedInv(f, w), fed[f] PROVE dog >= Low
    BY DEF NoFalseAlarm, InTime
  <2>1. Next1(w) \in 0 .. 1
    BY DEF Next1
  <2> QED BY <2>1, Both DEF FedInv, Enough, Full, Low
<1> QED
  BY <1>1, <1>2, <1>3, <1>4, InvariantHolds, PTL DEF Spec
=============================================================================
