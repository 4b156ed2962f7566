-------------------------- MODULE TimerEvent_proofs --------------------------
(***************************************************************************)
(* Proofs about the timer, for any events, delays and length of time, as   *)
(* long as no event is added while it is pending and no persistent event   *)
(* while it is active: both move a deadline under the heap, which nothing  *)
(* puts in order then.                                                     *)
(***************************************************************************)
EXTENDS TimerEvent, MinHeap_proofs

AddedOnce == ReAddPending = {} /\ ReAddActive \cap Persistent = {}

----------------------------------------------------------------------------
(* Lists without repetition.                                               *)

Once(q) == \A i, j \in DOMAIN q : q[i] = q[j] => i = j

\* Those of q that are not in P have their deadlines in order.
Sorted(q, deadlines, P) ==
    \A i, j \in DOMAIN q : i < j /\ q[i] \notin P /\ q[j] \notin P
                              => deadlines[q[i]] <= deadlines[q[j]]

\* u is a subsequence of q, with its place i at f[i] in q.
Within(f, u, q) ==
    /\ \A i \in DOMAIN u : f[i] \in DOMAIN q /\ u[i] = q[f[i]]
    /\ \A i, j \in DOMAIN u : i < j => f[i] < f[j]
    /\ \A i, j \in DOMAIN u : f[i] = f[j] => i = j

LEMMA WithinKeeps ==
    ASSUME NEW f, NEW u, NEW q, Within(f, u, q)
    PROVE  /\ Once(q) => Once(u)
           /\ Range(u) \subseteq Range(q)
           /\ \A deadlines, P : Sorted(q, deadlines, P) => Sorted(u, deadlines, P)
<1>1. Once(q) => Once(u)
  BY DEF Within, Once
<1>2. Range(u) \subseteq Range(q)
  BY DEF Within, Range
<1>3. ASSUME NEW deadlines, NEW P, Sorted(q, deadlines, P) PROVE Sorted(u, deadlines, P)
  <2> SUFFICES ASSUME NEW i \in DOMAIN u, NEW j \in DOMAIN u,
                      i < j, u[i] \notin P, u[j] \notin P
               PROVE  deadlines[u[i]] <= deadlines[u[j]]
    BY DEF Sorted
  <2>1. /\ f[i] \in DOMAIN q /\ f[j] \in DOMAIN q /\ f[i] < f[j]
        /\ u[i] = q[f[i]] /\ u[j] = q[f[j]]
    BY DEF Within
  <2> QED BY <1>3, <2>1 DEF Sorted
<1> QED
  BY <1>1, <1>2, <1>3

Without(q, a) == [i \in 1 .. Len(q) - 1 |-> q[IF i < a THEN i ELSE i + 1]]

\* The element at place a is taken out.
LEMMA TakenOut ==
    ASSUME NEW E, NEW q \in Seq(E), NEW a \in DOMAIN q, Once(q), NEW u, u = Without(q, a)
    PROVE  /\ u \in Seq(E) /\ Len(u) = Len(q) - 1
           /\ Once(u) /\ Range(u) = Range(q) \ {q[a]}
           /\ \A deadlines, P : Sorted(q, deadlines, P) => Sorted(u, deadlines, P)
<1> DEFINE n == Len(q) - 1
           f == [i \in 1 .. n |-> IF i < a THEN i ELSE i + 1]
<1>1. DOMAIN q = 1 .. Len(q) /\ a \in 1 .. Len(q) /\ Len(q) \in Nat /\ n \in Nat
      /\ \A i \in 1 .. Len(q) : q[i] \in E
  BY LenProperties
<1>2. \A i \in 1 .. n : f[i] \in 1 .. Len(q) /\ f[i] # a
  BY <1>1
<1>3. u \in [1 .. n -> E] /\ \A i \in 1 .. n : u[i] = q[f[i]]
  BY <1>1, <1>2 DEF Without
<1>4. u \in Seq(E) /\ Len(u) = n /\ DOMAIN u = 1 .. n
  <2>1. n \in Nat /\ u \in [1 .. n -> E]
    BY <1>1, <1>3
  <2> HIDE DEF n
  <2>2. u \in Seq(E)
    BY <2>1, IsASeq
  <2> QED BY <2>1, <2>2, LenProperties
<1>5. Within(f, u, q)
  <2>1. \A i, j \in 1 .. n : i < j => f[i] < f[j]
    BY <1>1
  <2>2. \A i, j \in 1 .. n : f[i] = f[j] => i = j
    BY <1>1
  <2> HIDE DEF f
  <2> QED BY <1>1, <1>2, <1>3, <1>4, <2>1, <2>2 DEF Within
<1>6. ASSUME NEW k \in 1 .. Len(q), k # a PROVE q[k] \in Range(u)
  <2>1. CASE k < a
    <3>1. k \in 1 .. n /\ f[k] = k
      BY <1>1, <2>1
    <3> QED BY <1>3, <1>4, <3>1 DEF Range
  <2>2. CASE k > a
    <3>1. k - 1 \in 1 .. n /\ f[k - 1] = k
      BY <1>1, <2>2
    <3> QED BY <1>3, <1>4, <3>1 DEF Range
  <2> QED BY <1>1, <1>6, <2>1, <2>2
<1>7. q[a] \notin Range(u)
  <2> SUFFICES ASSUME NEW i \in 1 .. n, u[i] = q[a] PROVE FALSE
    BY <1>4 DEF Range
  <2>1. f[i] \in DOMAIN q /\ f[i] # a /\ q[f[i]] = q[a]
    BY <1>1, <1>2, <1>3
  <2> HIDE DEF f, n
  <2> QED BY <2>1 DEF Once
<1>8. Once(u) /\ Range(u) \subseteq Range(q)
      /\ \A deadlines, P : Sorted(q, deadlines, P) => Sorted(u, deadlines, P)
  BY <1>5, WithinKeeps
<1>9. Range(q) \ {q[a]} \subseteq Range(u)
  BY <1>1, <1>6 DEF Range
<1> QED
  BY <1>4, <1>7, <1>8, <1>9

LEMMA HeadTaken ==
    ASSUME NEW E, NEW q \in Seq(E), q # <<>>, Once(q)
    PROVE  /\ Head(q) \in E /\ Head(q) \in Range(q)
           /\ Tail(q) \in Seq(E) /\ Len(Tail(q)) = Len(q) - 1 /\ Tail(q) = Without(q, 1)
           /\ Once(Tail(q)) /\ Range(Tail(q)) = Range(q) \ {Head(q)}
           /\ \A deadlines, P : Sorted(q, deadlines, P) => Sorted(Tail(q), deadlines, P)
<1>1. /\ Len(q) \in Nat /\ Len(q) # 0 /\ DOMAIN q = 1 .. Len(q)
      /\ \A i \in 1 .. Len(q) : q[i] \in E
  BY LenProperties, EmptySeq
<1>2. 1 \in DOMAIN q /\ Head(q) = q[1]
  BY <1>1
<1>3. Tail(q) = Without(q, 1)
  <2>1. /\ Tail(q) \in Seq(E) /\ Len(Tail(q)) = Len(q) - 1
        /\ \A i \in 1 .. Len(Tail(q)) : Tail(q)[i] = q[i + 1]
    BY HeadTailProperties
  <2>2. Tail(q) \in [1 .. Len(q) - 1 -> E]
    BY <2>1, LenProperties
  <2>3. \A i \in 1 .. Len(q) - 1 : Tail(q)[i] = q[IF i < 1 THEN i ELSE i + 1]
    BY <1>1, <2>1
  <2> QED BY <2>2, <2>3 DEF Without
<1>4. Head(q) \in E /\ Head(q) \in Range(q)
  BY <1>1, <1>2 DEF Range
<1> DEFINE u == Tail(q)
<1>5. /\ u \in Seq(E) /\ Len(u) = Len(q) - 1
      /\ Once(u) /\ Range(u) = Range(q) \ {q[1]}
      /\ \A deadlines, P : Sorted(q, deadlines, P) => Sorted(u, deadlines, P)
  <2> HIDE DEF u
  <2>1. u = Without(q, 1)
    BY <1>3 DEF u
  <2> QED BY <1>2, <2>1, TakenOut
<1> QED
  BY <1>2, <1>3, <1>4, <1>5

LEMMA Appended ==
    ASSUME NEW E, NEW q \in Seq(E), Once(q), NEW e \in E, e \notin Range(q)
    PROVE  /\ Append(q, e) \in Seq(E) /\ Len(Append(q, e)) = Len(q) + 1
           /\ Once(Append(q, e)) /\ Range(Append(q, e)) = Range(q) \cup {e}
           /\ \A deadlines, P :
                 Sorted(q, deadlines, P) /\ (\A x \in Range(q) : deadlines[x] <= deadlines[e])
                     => Sorted(Append(q, e), deadlines, P)
<1> DEFINE n == Len(q)
           u == Append(q, e)
<1>1. /\ n \in Nat /\ DOMAIN q = 1 .. n /\ \A i \in 1 .. n : q[i] \in Range(q)
  BY LenProperties DEF Range
<1>2. /\ u \in Seq(E) /\ Len(u) = n + 1 /\ DOMAIN u = 1 .. n + 1
      /\ u[n + 1] = e /\ \A i \in 1 .. n : u[i] = q[i]
  BY AppendProperties, LenProperties
<1>3. \A i \in 1 .. n + 1 : i \in 1 .. n \/ i = n + 1
  BY <1>1
<1>4. \A i \in 1 .. n : i \in 1 .. n + 1 /\ i < n + 1
  BY <1>1
<1> HIDE DEF u, n
<1>5. Once(u)
  BY <1>1, <1>2, <1>3 DEF Once
<1>6. Range(u) = Range(q) \cup {e}
  <2>1. ASSUME NEW x \in Range(u) PROVE x \in Range(q) \cup {e}
    BY <1>1, <1>2, <1>3 DEF Range
  <2>2. ASSUME NEW x \in Range(q) \cup {e} PROVE x \in Range(u)
    <3>1. CASE x = e
      <4>1. n + 1 \in 1 .. n + 1
        BY <1>1
      <4> QED BY <1>2, <3>1, <4>1 DEF Range
    <3>2. CASE x \in Range(q)
      <4>1. PICK i \in 1 .. n : x = q[i]
        BY <1>1, <3>2 DEF Range
      <4> QED BY <1>2, <1>4, <4>1 DEF Range
    <3> QED BY <3>1, <3>2
  <2> QED BY <2>1, <2>2
<1>7. ASSUME NEW deadlines, NEW P, Sorted(q, deadlines, P),
             \A x \in Range(q) : deadlines[x] <= deadlines[e]
      PROVE  Sorted(u, deadlines, P)
  <2> SUFFICES ASSUME NEW i \in 1 .. n + 1, NEW j \in 1 .. n + 1,
                      i < j, u[i] \notin P, u[j] \notin P
               PROVE  deadlines[u[i]] <= deadlines[u[j]]
    BY <1>2 DEF Sorted
  <2>1. i \in 1 .. n
    BY <1>1
  <2>2. CASE j = n + 1
    BY <1>1, <1>2, <1>7, <2>1, <2>2
  <2>3. CASE j \in 1 .. n
    BY <1>1, <1>2, <1>7, <2>1, <2>3 DEF Sorted
  <2> QED BY <1>3, <2>2, <2>3
<1> QED
  BY <1>2, <1>5, <1>6, <1>7 DEF u, n

\* A list without repetition is as long as the set of its elements is large.
LEMMA OnceIsCounted ==
    ASSUME NEW E, NEW q \in Seq(E), Once(q)
    PROVE  IsFiniteSet(Range(q)) /\ Cardinality(Range(q)) = Len(q)
<1> DEFINE n == Len(q)
<1>1. n \in Nat /\ DOMAIN q = 1 .. n /\ q \in [1 .. n -> Range(q)]
  <2>1. n \in Nat /\ DOMAIN q = 1 .. n /\ q \in [1 .. n -> E]
    BY LenProperties
  <2> QED BY <2>1 DEF Range
<1>2. q \in Bijection(1 .. n, Range(q))
  BY <1>1, Fun_IsBij DEF Once, Range
<1>3. ExistsBijection(1 .. n, Range(q))
  BY <1>2 DEF ExistsBijection
<1> HIDE DEF n
<1>4. IsFiniteSet(1 .. n) /\ Cardinality(1 .. n) = n
  BY <1>1, FS_Interval
<1> QED
  BY <1>3, <1>4, FS_Bijection DEF n

LEMMA FlagCount ==
    ASSUME NEW F \in SUBSET {"TIMEOUT", "ACTIVE"}
    PROVE  Cardinality(F) = (IF "TIMEOUT" \in F THEN 1 ELSE 0) + (IF "ACTIVE" \in F THEN 1 ELSE 0)
<1>1. CASE F = {}
  <2>1. Cardinality({}) = 0
    BY FS_EmptySet
  <2> QED BY <1>1, <2>1
<1>2. CASE F = {"TIMEOUT"}
  <2>1. Cardinality({"TIMEOUT"}) = 1 /\ "ACTIVE" \notin {"TIMEOUT"}
    BY FS_Singleton
  <2> QED BY <1>2, <2>1
<1>3. CASE F = {"ACTIVE"}
  <2>1. Cardinality({"ACTIVE"}) = 1 /\ "TIMEOUT" \notin {"ACTIVE"}
    BY FS_Singleton
  <2> QED BY <1>3, <2>1
<1>4. CASE F = {"TIMEOUT", "ACTIVE"}
  <2>1. IsFiniteSet({"TIMEOUT"}) /\ Cardinality({"TIMEOUT"}) = 1 /\ "ACTIVE" \notin {"TIMEOUT"}
    BY FS_Singleton
  <2>2. Cardinality({"TIMEOUT"} \cup {"ACTIVE"}) = 2
    BY <2>1, FS_AddElement
  <2>3. F = {"TIMEOUT"} \cup {"ACTIVE"}
    BY <1>4
  <2> QED BY <2>2, <2>3
<1> QED
  BY <1>1, <1>2, <1>3, <1>4

----------------------------------------------------------------------------
(***************************************************************************)
(* The invariant.  The counters follow the lengths of the two queues; the  *)
(* sets of events come in only through the flags.  While timeout_process   *)
(* fills the active queue, what is active is due no later than what is     *)
(* still in the heap: with this an event joins the end of the queue in     *)
(* order, and the top of the heap speaks for the rest.                     *)
(***************************************************************************)
Fields ==
    /\ ev_flags \in [Events -> SUBSET {"TIMEOUT", "ACTIVE"}]
    /\ ev_timeout \in [Events -> Nat]
    /\ ev_io_timeout \in [Events -> Delays \cup {0}]

Registers ==
    /\ clock \in 0 .. MaxTime + Oversleep
    /\ pc \in {"setup", "destroying", "sleep_time", "select", "selecting",
               "timeout_process", "expire", "process", "callback"}
    /\ now \in 0 .. MaxTime + Oversleep /\ now <= clock
    /\ tv \in Nat
    /\ wake \in Nat
    /\ current \in Events \cup {NoEvent}

HeapAgrees ==
    /\ IsHeap(heap, ev_timeout, Events)
    /\ \A e \in Events : heap.idx[e] # 0 <=> e \in Pending

QueueAgrees ==
    /\ activequeue \in Seq(Events)
    /\ Once(activequeue)
    /\ Range(activequeue) = Active

Counted ==
    /\ event_count_active = Len(activequeue)
    /\ event_count = Len(heap.p) + Len(activequeue)

Due ==
    /\ Sorted(activequeue, ev_timeout, Pending)
    /\ \A e \in Active \ Pending : ev_timeout[e] <= clock

Stages ==
    /\ pc \notin {"expire", "process", "callback"} => activequeue = <<>>
    /\ Active \cap Pending \subseteq ReAddActive
    /\ pc = "expire" => /\ Active \cap Pending = {}
                        /\ \A e \in Active, f \in Pending : ev_timeout[e] <= ev_timeout[f]
                        /\ \A e \in Active : ev_timeout[e] <= now
    /\ pc # "callback" => current = NoEvent
    /\ current \notin Active

IInv == Fields /\ Registers /\ HeapAgrees /\ QueueAgrees /\ Counted /\ Due /\ Stages

LEMMA Types ==
    ASSUME IInv
    PROVE  /\ ev_timeout \in [Events -> Int]
           /\ Delays \cup {0} \subseteq Nat
           /\ clock \in Nat /\ MaxTime \in Nat /\ Oversleep \in Nat
           /\ Len(activequeue) \in Nat /\ Len(heap.p) \in Nat
BY TimerAssumption, HeapIs, LenProperties DEF IInv, Fields, Registers, HeapAgrees, QueueAgrees

LEMMA InitIInv == Init => IInv
<1> SUFFICES ASSUME Init PROVE IInv
  OBVIOUS
<1>1. Fields /\ Registers
  BY TimerAssumption DEF Init, Fields, Registers
<1>2. Pending = {} /\ Active = {}
  BY DEF Init, Pending, Active
<1>3. HeapAgrees
  <2>1. IsHeap(heap, ev_timeout, Events)
    BY EmptyIsHeap DEF Init
  <2> QED BY <1>2, <2>1 DEF Init, EmptyHeap, HeapAgrees
<1>4. Range(<<>>) = {} /\ Once(<<>>) /\ Len(<<>>) = 0
  BY DEF Range, Once
<1>5. QueueAgrees
  BY <1>2, <1>4 DEF Init, QueueAgrees
<1>6. Counted
  BY <1>4, EmptyIsHeap DEF Init, Counted
<1>7. Due /\ Stages
  BY <1>2 DEF Init, Due, Stages, Sorted
<1> QED
  BY <1>1, <1>3, <1>5, <1>6, <1>7 DEF IInv

\* e is off both queues.
LEMMA DeleteStep ==
    ASSUME IInv, NEW e \in Events, Delete(e), UNCHANGED <<ev_timeout, ev_io_timeout>>
    PROVE  /\ Fields' /\ HeapAgrees' /\ QueueAgrees' /\ Counted'
           /\ Pending' = Pending \ {e} /\ Active' = Active \ {e}
           /\ Sorted(activequeue', ev_timeout, Pending')
           /\ activequeue = <<>> => activequeue' = <<>>
<1>1. /\ ev_flags \in [Events -> SUBSET {"TIMEOUT", "ACTIVE"}]
      /\ ev_flags' = [ev_flags EXCEPT ![e] = {}]
  BY DEF Delete, IInv, Fields
<1>2. Fields' /\ Pending' = Pending \ {e} /\ Active' = Active \ {e}
  BY <1>1 DEF IInv, Fields, Pending, Active
<1>3. /\ HeapAgrees'
      /\ Len(heap'.p) = Len(heap.p) - (IF "TIMEOUT" \in ev_flags[e] THEN 1 ELSE 0)
  <2>1. ev_timeout \in [Events -> Int] /\ IsHeap(heap, ev_timeout, Events)
        /\ Len(heap.p) \in Nat
    BY Types DEF IInv, HeapAgrees
  <2>2. CASE "TIMEOUT" \in ev_flags[e]
    <3>1. heap' = Erase(heap, ev_timeout, e) /\ heap.idx[e] # 0
      BY <2>2 DEF Delete, IInv, HeapAgrees, Pending
    <3>2. /\ IsHeap(heap', ev_timeout, Events)
          /\ Len(heap'.p) = Len(heap.p) - 1
          /\ \A x \in Events : heap'.idx[x] # 0 <=> x # e /\ heap.idx[x] # 0
      BY ONLY <2>1, <3>1, e \in Events, Erased
    <3> QED BY <1>2, <2>2, <3>2 DEF IInv, HeapAgrees
  <2>3. CASE "TIMEOUT" \notin ev_flags[e]
    <3>1. heap' = heap /\ e \notin Pending
      BY <2>3 DEF Delete, Pending
    <3> QED BY <1>2, <2>1, <2>3, <3>1 DEF IInv, HeapAgrees
  <2> QED BY <2>2, <2>3
<1>4. /\ QueueAgrees' /\ Sorted(activequeue', ev_timeout, Pending)
      /\ activequeue = <<>> => activequeue' = <<>>
      /\ Len(activequeue') = Len(activequeue) - (IF "ACTIVE" \in ev_flags[e] THEN 1 ELSE 0)
      /\ event_count_active' = event_count_active - (IF "ACTIVE" \in ev_flags[e] THEN 1 ELSE 0)
  <2>1. /\ activequeue \in Seq(Events) /\ Once(activequeue) /\ Range(activequeue) = Active
        /\ Sorted(activequeue, ev_timeout, Pending)
        /\ Len(activequeue) \in Nat /\ event_count_active = Len(activequeue)
    BY Types DEF IInv, QueueAgrees, Due, Counted
  <2>2. CASE "ACTIVE" \in ev_flags[e]
    <3> DEFINE at == CHOOSE i \in DOMAIN activequeue : activequeue[i] = e
    <3>1. e \in Range(activequeue)
      BY <2>1, <2>2 DEF Active
    <3>2. at \in DOMAIN activequeue /\ activequeue[at] = e
      BY <3>1 DEF Range
    <3>3. activequeue' = Without(activequeue, at)
      BY <2>2 DEF Delete, Unlinked, Without
    <3> HIDE DEF at
    <3>4. /\ activequeue' \in Seq(Events) /\ Len(activequeue') = Len(activequeue) - 1
          /\ Once(activequeue') /\ Range(activequeue') = Range(activequeue) \ {activequeue[at]}
          /\ Sorted(activequeue', ev_timeout, Pending)
      BY ONLY <2>1, <3>2, <3>3, TakenOut
    <3>5. activequeue # <<>>
      BY <3>1 DEF Range
    <3>6. event_count_active' = event_count_active - 1
      BY <2>2 DEF Delete
    <3> QED BY <1>2, <2>1, <2>2, <3>2, <3>4, <3>5, <3>6 DEF QueueAgrees
  <2>3. CASE "ACTIVE" \notin ev_flags[e]
    <3>1. activequeue' = activequeue /\ event_count_active' = event_count_active /\ e \notin Active
      BY <2>3 DEF Delete, Active
    <3> QED BY <1>2, <2>1, <2>3, <3>1 DEF QueueAgrees
  <2> QED BY <2>2, <2>3
<1>5. Counted'
  <2>1. event_count' = event_count - ((IF "TIMEOUT" \in ev_flags[e] THEN 1 ELSE 0)
                                      + (IF "ACTIVE" \in ev_flags[e] THEN 1 ELSE 0))
    BY <1>1, FlagCount DEF Delete
  <2>2. Len(activequeue) \in Nat /\ Len(heap.p) \in Nat
    BY Types
  <2> QED BY <1>3, <1>4, <2>1, <2>2 DEF IInv, Counted
<1>6. Sorted(activequeue', ev_timeout, Pending')
  <2>1. \A i \in DOMAIN activequeue' : activequeue'[i] \in Active'
    BY <1>4 DEF QueueAgrees, Range
  <2> QED BY <1>2, <1>4, <2>1 DEF Sorted
<1> QED
  BY <1>2, <1>3, <1>4, <1>5, <1>6

\* A deletion by the user or by vpk_timer_destroy, wherever the thread is.
LEMMA DeleteKeeps ==
    ASSUME IInv, NEW e \in Events, Delete(e), UNCHANGED <<ev_timeout, ev_io_timeout>>,
           UNCHANGED <<clock, loop>>
    PROVE  IInv'
<1>1. /\ Fields' /\ HeapAgrees' /\ QueueAgrees' /\ Counted'
      /\ Pending' = Pending \ {e} /\ Active' = Active \ {e}
      /\ Sorted(activequeue', ev_timeout, Pending')
      /\ activequeue = <<>> => activequeue' = <<>>
  BY DeleteStep
<1>2. Registers'
  BY DEF IInv, Registers, loop
<1>3. Due' /\ Stages'
  BY <1>1 DEF IInv, Due, Stages, loop
<1> QED
  BY <1>1, <1>2, <1>3 DEF IInv

LEMMA EventAddKeeps ==
    ASSUME AddedOnce, IInv, NEW e \in Events, NEW d \in Delays, EventAdd(e, d)
    PROVE  IInv'
<1>1. /\ d \in Nat /\ clock + d \in Nat
      /\ ev_timeout \in [Events -> Nat] /\ ev_timeout' = [ev_timeout EXCEPT ![e] = clock + d]
  BY Types DEF EventAdd, IInv, Fields
<1>2. e \notin Pending /\ "TIMEOUT" \notin ev_flags[e] /\ (e \in Active => e \in ReAddActive)
  BY DEF EventAdd, AddedOnce, Pending, Active
<1>3. /\ heap' = Push(heap, ev_timeout', e)
      /\ event_count' = event_count + 1
      /\ ev_flags' = [ev_flags EXCEPT ![e] = @ \cup {"TIMEOUT"}]
  BY <1>2 DEF EventAdd, InsertTimeout
<1>4. Fields' /\ Pending' = Pending \cup {e} /\ Active' = Active
  <2>1. ev_flags' \in [Events -> SUBSET {"TIMEOUT", "ACTIVE"}]
        /\ Pending' = Pending \cup {e} /\ Active' = Active
    BY <1>3 DEF IInv, Fields, Pending, Active
  <2>2. ev_timeout' \in [Events -> Nat]
    BY <1>1
  <2>3. ev_io_timeout' \in [Events -> Delays \cup {0}]
    BY DEF EventAdd, IInv, Fields
  <2> QED BY <2>1, <2>2, <2>3 DEF Fields
<1>5. \A x \in Events : x # e => ev_timeout'[x] = ev_timeout[x]
  BY <1>1
<1>6. HeapAgrees' /\ Len(heap'.p) = Len(heap.p) + 1
  <2>1. /\ ev_timeout \in [Events -> Int] /\ ev_timeout' \in [Events -> Int]
        /\ IsHeap(heap, ev_timeout, Events) /\ heap.idx[e] = 0
    BY <1>1, <1>2, Types DEF IInv, HeapAgrees
  <2>2. /\ IsHeap(heap', ev_timeout', Events)
        /\ Len(heap'.p) = Len(heap.p) + 1
        /\ \A x \in Events : heap'.idx[x] # 0 <=> x = e \/ heap.idx[x] # 0
    BY ONLY <1>3, <1>5, <2>1, e \in Events, Pushed
  <2> QED BY <1>4, <2>2 DEF IInv, HeapAgrees
<1>7. activequeue' = activequeue /\ event_count_active' = event_count_active
      /\ UNCHANGED <<clock, loop>>
  BY DEF EventAdd
<1>8. QueueAgrees' /\ Counted' /\ Registers'
  BY <1>3, <1>4, <1>6, <1>7, Types DEF IInv, QueueAgrees, Counted, Registers, loop
<1>9. Due'
  <2>1. \A i \in DOMAIN activequeue : activequeue[i] \in Events
    BY LenProperties DEF IInv, QueueAgrees
  <2>2. Sorted(activequeue, ev_timeout', Pending')
    BY <1>4, <1>5, <2>1 DEF IInv, Due, Sorted
  <2>3. \A x \in Active' \ Pending' : ev_timeout'[x] <= clock
    BY <1>4, <1>5 DEF IInv, Due, Active
  <2> QED BY <1>7, <2>2, <2>3 DEF Due
<1>10. Stages'
  BY <1>2, <1>4, <1>7 DEF EventAdd, UserTurn, IInv, Stages, loop
<1> QED
  BY <1>4, <1>6, <1>8, <1>9, <1>10 DEF IInv

\* The top of a heap that is not empty waits, and no other event is due before it.
LEMMA TopWaits ==
    ASSUME IInv, ~IsEmpty(heap)
    PROVE  /\ HeapTop(heap) \in Events /\ HeapTop(heap) \in Pending
           /\ \A f \in Pending : ev_timeout[HeapTop(heap)] <= ev_timeout[f]
<1>1. ev_timeout \in [Events -> Int] /\ IsHeap(heap, ev_timeout, Events)
  BY Types DEF IInv, HeapAgrees
<1>2. HeapTop(heap) \in Events /\ heap.idx[HeapTop(heap)] # 0
  BY <1>1, PopIs
<1>3. \A m \in 1 .. Len(heap.p) : ev_timeout[HeapTop(heap)] <= ev_timeout[heap.p[m]]
  BY <1>1, TopIsLeast
<1>4. ASSUME NEW f \in Pending PROVE ev_timeout[HeapTop(heap)] <= ev_timeout[f]
  <2>1. f \in Events /\ heap.idx[f] # 0
    BY DEF IInv, HeapAgrees, Pending
  <2>2. heap.idx[f] \in 1 .. Len(heap.p) /\ heap.p[heap.idx[f]] = f
    BY <1>1, <2>1, HeapIs
  <2> QED BY <1>3, <2>2
<1> QED
  BY <1>2, <1>4 DEF IInv, HeapAgrees

LEMMA ExpireKeeps ==
    ASSUME IInv, Expire
    PROVE  IInv'
<1> DEFINE e == HeapTop(heap)
<1>1. /\ e \in Events /\ e \in Pending /\ ev_timeout[e] <= now
      /\ \A f \in Pending : ev_timeout[e] <= ev_timeout[f]
  BY TopWaits DEF Expire, TopDue
<1>2. Activate(e) /\ UNCHANGED <<clock, ev_timeout, ev_io_timeout, loop>> /\ pc = "expire"
  BY DEF Expire
<1> HIDE DEF e
<1>3. /\ e \notin Active /\ "ACTIVE" \notin ev_flags[e] /\ "TIMEOUT" \in ev_flags[e]
      /\ Active \cap Pending = {}
      /\ \A x \in Active, f \in Pending : ev_timeout[x] <= ev_timeout[f]
  BY <1>1, <1>2 DEF IInv, Stages, Pending, Active
<1>4. /\ heap' = Erase(heap, ev_timeout, e)
      /\ activequeue' = Append(activequeue, e)
      /\ ev_flags' = [ev_flags EXCEPT ![e] = {"ACTIVE"}]
      /\ event_count_active' = event_count_active + 1
      /\ event_count' = event_count - 1 + 1
  <2>1. Cardinality(ev_flags[e]) = 1
    BY <1>1, <1>3, FlagCount DEF IInv, Fields
  <2> QED BY <1>2, <1>3, <2>1, Types DEF Activate, IInv, Counted
<1>5. Fields' /\ Pending' = Pending \ {e} /\ Active' = Active \cup {e}
  BY <1>1, <1>2, <1>4 DEF IInv, Fields, Pending, Active
<1>6. HeapAgrees' /\ Len(heap'.p) = Len(heap.p) - 1
  <2>1. /\ ev_timeout \in [Events -> Int] /\ IsHeap(heap, ev_timeout, Events)
        /\ heap.idx[e] # 0
    BY <1>1, Types DEF IInv, HeapAgrees
  <2>2. /\ IsHeap(heap', ev_timeout, Events)
        /\ Len(heap'.p) = Len(heap.p) - 1
        /\ \A x \in Events : heap'.idx[x] # 0 <=> x # e /\ heap.idx[x] # 0
    BY ONLY <1>1, <1>4, <2>1, Erased
  <2> QED BY <1>2, <1>5, <2>2 DEF IInv, HeapAgrees
<1>7. /\ activequeue' \in Seq(Events) /\ Len(activequeue') = Len(activequeue) + 1
      /\ Once(activequeue') /\ Range(activequeue') = Range(activequeue) \cup {e}
      /\ Sorted(activequeue', ev_timeout, {})
  <2>1. \A i \in DOMAIN activequeue : activequeue[i] \in Active
    BY DEF IInv, QueueAgrees, Range
  <2>2. Sorted(activequeue, ev_timeout, {})
    BY <1>3, <2>1 DEF IInv, Due, Sorted
  <2>3. /\ activequeue \in Seq(Events) /\ Once(activequeue) /\ e \notin Range(activequeue)
        /\ \A x \in Range(activequeue) : ev_timeout[x] <= ev_timeout[e]
    BY <1>1, <1>3 DEF IInv, QueueAgrees
  <2> QED BY ONLY <1>1, <1>4, <2>2, <2>3, Appended
<1>8. QueueAgrees' /\ Counted' /\ Registers'
  <2>1. QueueAgrees'
    BY <1>5, <1>7 DEF IInv, QueueAgrees
  <2>2. Counted'
    <3>1. /\ Len(activequeue) \in Nat /\ Len(heap.p) \in Nat
          /\ event_count_active = Len(activequeue)
          /\ event_count = Len(heap.p) + Len(activequeue)
      BY Types DEF IInv, Counted
    <3>2. event_count' = event_count - 1 + 1 /\ event_count_active' = event_count_active + 1
      BY <1>4
    <3>3. Len(activequeue') = Len(activequeue) + 1 /\ Len(heap'.p) = Len(heap.p) - 1
      BY <1>6, <1>7
    <3>4. event_count' = Len(heap'.p) + Len(activequeue') /\ event_count_active' = Len(activequeue')
      <4>1. event_count = Len(heap.p) + Len(activequeue) /\ event_count \in Int
        BY <3>1
      <4>2. event_count' = event_count
        BY <3>2, <4>1
      <4>3. Len(heap'.p) + Len(activequeue') = Len(heap.p) + Len(activequeue)
        <5>1. \A l, a \in Nat : (l - 1) + (a + 1) = l + a
          OBVIOUS
        <5> QED BY <3>1, <3>3, <5>1
      <4>4. event_count_active' = Len(activequeue')
        BY <3>1, <3>2, <3>3
      <4> QED BY <4>1, <4>2, <4>3, <4>4
    <3> QED BY <3>4 DEF Counted
  <2>3. Registers'
    BY <1>2 DEF IInv, Registers, loop
  <2> QED BY <2>1, <2>2, <2>3
<1>9. Due'
  <2>1. Sorted(activequeue', ev_timeout', Pending')
    BY <1>2, <1>7 DEF Sorted
  <2>2. ev_timeout[e] <= clock
    BY <1>1, Types DEF IInv, Fields, Registers
  <2>3. \A x \in Active' \ Pending' : ev_timeout'[x] <= clock'
    BY <1>2, <1>3, <1>5, <2>2 DEF IInv, Due, loop
  <2> QED BY <2>1, <2>3 DEF Due
<1>10. Stages'
  <2>1. current = NoEvent /\ NoEvent \notin Active' /\ pc' = "expire" /\ current' = current
    BY <1>1, <1>2, <1>5, TimerAssumption DEF IInv, Stages, Active, loop
  <2>2. \A x \in Active' : ev_timeout'[x] <= now'
    BY <1>1, <1>2, <1>5 DEF IInv, Stages, loop
  <2>3. \A x \in Active', f \in Pending' : ev_timeout'[x] <= ev_timeout'[f]
    BY <1>1, <1>2, <1>3, <1>5
  <2>4. Active' \cap Pending' = {}
    BY <1>3, <1>5
  <2> QED BY <2>1, <2>2, <2>3, <2>4 DEF Stages
<1> QED
  BY <1>5, <1>6, <1>8, <1>9, <1>10 DEF IInv

\* A persistent event with an interval goes back into the heap, any other is
\* off both queues.
LEMMA RearmKeeps ==
    ASSUME AddedOnce, IInv, Process, Head(activequeue) \in Persistent
    PROVE  IInv'
<1> DEFINE e == Head(activequeue)
           deadlines == [ev_timeout EXCEPT ![e] = RunAt(e)]
<1>1. /\ activequeue' = Tail(activequeue) /\ Rearm(e) /\ pc = "process" /\ pc' = "callback"
      /\ current' = e /\ UNCHANGED <<clock, ev_io_timeout, now, tv, wake>>
  BY DEF Process
<1>2. /\ e \in Events /\ e \in Active
      /\ Tail(activequeue) \in Seq(Events) /\ Len(Tail(activequeue)) = Len(activequeue) - 1
      /\ Once(Tail(activequeue)) /\ Range(Tail(activequeue)) = Active \ {e}
      /\ Sorted(Tail(activequeue), ev_timeout, Pending)
  BY HeadTaken DEF Process, IInv, QueueAgrees, Due
<1>3. e \notin Pending /\ "TIMEOUT" \notin ev_flags[e] /\ e \in Persistent
  BY <1>2 DEF AddedOnce, IInv, Stages, Pending
<1> HIDE DEF e
<1>4. /\ ev_flags \in [Events -> SUBSET {"TIMEOUT", "ACTIVE"}]
      /\ ev_timeout \in [Events -> Nat]
      /\ ev_io_timeout' \in [Events -> Delays \cup {0}]
      /\ IsHeap(heap, ev_timeout, Events) /\ heap.idx[e] = 0
      /\ Len(heap.p) \in Nat /\ Len(activequeue) \in Nat
      /\ event_count_active = Len(activequeue) /\ event_count = Len(heap.p) + Len(activequeue)
  BY <1>1, <1>2, <1>3, Types DEF IInv, Fields, HeapAgrees, Counted
<1>5. /\ Fields' /\ HeapAgrees' /\ Active' = Active \ {e}
      /\ Pending \subseteq Pending' /\ Pending' \subseteq Pending \cup {e}
      /\ event_count' = Len(heap'.p) + Len(activequeue) - 1
      /\ event_count_active' = Len(activequeue) - 1
      /\ \A x \in Events : x # e => ev_timeout'[x] = ev_timeout[x]
  <2>1. CASE ev_io_timeout[e] = 0
    <3>1. /\ ev_flags' = [ev_flags EXCEPT ![e] = @ \ {"ACTIVE"}]
          /\ event_count' = event_count - 1 /\ event_count_active' = event_count_active - 1
          /\ heap' = heap /\ ev_timeout' = ev_timeout
      BY <1>1, <2>1 DEF Rearm
    <3>2. /\ ev_flags' \in [Events -> SUBSET {"TIMEOUT", "ACTIVE"}]
          /\ Active' = Active \ {e} /\ Pending' = Pending
      BY <1>2, <1>4, <3>1 DEF Active, Pending
    <3>3. Fields' /\ HeapAgrees'
      BY <1>4, <3>1, <3>2 DEF IInv, Fields, HeapAgrees
    <3> QED BY <1>4, <3>1, <3>2, <3>3
  <2>2. CASE ev_io_timeout[e] # 0
    <3>1. /\ ev_timeout' = deadlines /\ heap' = Push(heap, ev_timeout', e)
          /\ ev_flags' = [ev_flags EXCEPT ![e] = {"TIMEOUT"}]
          /\ event_count' = event_count /\ event_count_active' = event_count_active - 1
      BY <1>1, <1>3, <2>2 DEF Rearm
    <3>2. /\ ev_flags' \in [Events -> SUBSET {"TIMEOUT", "ACTIVE"}]
          /\ Active' = Active \ {e} /\ Pending' = Pending \cup {e}
      BY <1>2, <1>4, <3>1 DEF Active, Pending
    <3>3. RunAt(e) \in Nat
      <4>1. ev_timeout[e] \in Nat /\ ev_io_timeout[e] \in Nat /\ clock \in Nat
        BY <1>1, <1>2, <1>4, Types DEF IInv, Fields
      <4> QED BY <4>1 DEF RunAt
    <3> HIDE DEF deadlines
    <3>4. ev_timeout' \in [Events -> Nat] /\ \A x \in Events : x # e => ev_timeout'[x] = ev_timeout[x]
      BY <1>4, <3>1, <3>3 DEF deadlines
    <3>7. ev_timeout' \in [Events -> Int] /\ ev_timeout \in [Events -> Int]
      BY <1>4, <3>4
    <3>5. /\ IsHeap(heap', ev_timeout', Events)
          /\ Len(heap'.p) = Len(heap.p) + 1
          /\ \A x \in Events : heap'.idx[x] # 0 <=> x = e \/ heap.idx[x] # 0
      <4>1. heap' = Push(heap, ev_timeout', e) /\ e \in Events
        BY <1>2, <3>1
      <4>2. IsHeap(heap, ev_timeout, Events) /\ heap.idx[e] = 0
        BY <1>4
      <4> QED BY ONLY <3>4, <3>7, <4>1, <4>2, Pushed
    <3>6. Fields' /\ HeapAgrees'
      BY <1>4, <3>2, <3>4, <3>5 DEF IInv, Fields, HeapAgrees
    <3>8. event_count' = Len(heap'.p) + Len(activequeue) - 1
      <4>1. /\ event_count' = Len(heap.p) + Len(activequeue) /\ Len(heap'.p) = Len(heap.p) + 1
            /\ Len(heap.p) \in Nat /\ Len(activequeue) \in Nat
        BY <1>4, <3>1, <3>5
      <4> QED BY ONLY <4>1
    <3> QED BY <1>4, <3>1, <3>2, <3>4, <3>6, <3>8
  <2> QED BY <2>1, <2>2
<1>6. QueueAgrees' /\ Counted' /\ Registers'
  <2>1. QueueAgrees'
    BY <1>1, <1>2, <1>5 DEF QueueAgrees
  <2>2. Counted'
    BY <1>1, <1>2, <1>4, <1>5, HeapIs DEF Counted, HeapAgrees
  <2>3. Registers'
    BY <1>1, <1>2 DEF IInv, Registers
  <2> QED BY <2>1, <2>2, <2>3
<1>7. Due'
  <2>1. \A i \in DOMAIN Tail(activequeue) :
           Tail(activequeue)[i] \in Events /\ Tail(activequeue)[i] # e
    BY <1>2, <1>5 DEF Range, Active
  <2>2. Sorted(Tail(activequeue), ev_timeout', Pending')
    BY <1>2, <1>5, <2>1 DEF Sorted
  <2>3. \A x \in Active' \ Pending' : ev_timeout'[x] <= clock
    BY <1>5 DEF IInv, Due, Active
  <2> QED BY <1>1, <2>2, <2>3 DEF Due
<1>8. Stages'
  BY <1>1, <1>5 DEF IInv, Stages
<1> QED
  BY <1>5, <1>6, <1>7, <1>8 DEF IInv

LEMMA ProcessKeeps ==
    ASSUME AddedOnce, IInv, Process
    PROVE  IInv'
<1> DEFINE e == Head(activequeue)
<1>1. CASE e \in Persistent
  BY <1>1, RearmKeeps
<1>2. CASE e \notin Persistent
  <2>1. /\ Delete(e) /\ pc = "process" /\ pc' = "callback" /\ current' = e
        /\ UNCHANGED <<clock, ev_timeout, ev_io_timeout, now, tv, wake>>
    BY <1>2 DEF Process
  <2>2. e \in Events
    BY HeadTaken DEF Process, IInv, QueueAgrees
  <2> HIDE DEF e
  <2>3. /\ Fields' /\ HeapAgrees' /\ QueueAgrees' /\ Counted'
        /\ Pending' = Pending \ {e} /\ Active' = Active \ {e}
        /\ Sorted(activequeue', ev_timeout, Pending')
    BY <2>1, <2>2, DeleteStep
  <2>4. Registers'
    BY <2>1, <2>2 DEF IInv, Registers
  <2>5. Due' /\ Stages'
    BY <2>1, <2>3 DEF IInv, Due, Stages
  <2> QED BY <2>3, <2>4, <2>5 DEF IInv
<1> QED
  BY <1>1, <1>2

LEMMA CreateKeeps ==
    ASSUME IInv, Create
    PROVE  IInv'
<1>1. Pending' = {} /\ Active' = {}
  BY DEF Create, Pending, Active
<1>2. Fields' /\ Registers'
  BY DEF Create, IInv, Fields, Registers
<1>3. HeapAgrees'
  <2>1. IsHeap(heap', ev_timeout', Events)
    <3>1. \A k : IsHeap(EmptyHeap(Events), k, Events)
      BY EmptyIsHeap
    <3> QED BY <3>1 DEF Create
  <2> QED BY <1>1, <2>1 DEF Create, EmptyHeap, HeapAgrees
<1>4. Range(<<>>) = {} /\ Once(<<>>) /\ Len(<<>>) = 0
  BY DEF Range, Once
<1>5. QueueAgrees'
  BY <1>1, <1>4 DEF Create, QueueAgrees
<1>6. Counted'
  BY <1>4, EmptyIsHeap DEF Create, Counted
<1>7. Due' /\ Stages'
  <2>1. current = NoEvent /\ current' = current
    BY DEF Create, IInv, Stages
  <2> QED BY <1>1, <2>1 DEF Create, Due, Stages, Sorted
<1> QED
  BY <1>2, <1>3, <1>5, <1>6, <1>7 DEF IInv

\* The steps that leave the queues and the events alone.
LEMMA QuietKeeps ==
    ASSUME IInv, UNCHANGED <<timer, events>>, Registers', clock <= clock', Stages'
    PROVE  IInv'
<1>1. Fields' /\ HeapAgrees' /\ QueueAgrees' /\ Counted' /\ Pending' = Pending /\ Active' = Active
  BY DEF IInv, Fields, HeapAgrees, QueueAgrees, Counted, Pending, Active, timer, events
<1>2. Due'
  <2>1. \A x \in Active \ Pending : ev_timeout[x] <= clock'
    <3> SUFFICES ASSUME NEW x \in Active \ Pending PROVE ev_timeout[x] <= clock'
      OBVIOUS
    <3>1. /\ ev_timeout[x] <= clock /\ clock \in Int /\ clock' \in Int /\ ev_timeout[x] \in Int
      BY Types DEF IInv, Due, Fields, Registers, Active
    <3> QED BY <3>1
  <2>2. Sorted(activequeue', ev_timeout', Pending')
    BY <1>1 DEF IInv, Due, timer, events
  <2> QED BY <1>1, <2>1, <2>2 DEF Due, events
<1> QED
  BY <1>1, <1>2 DEF IInv

LEMMA NextIInv ==
    ASSUME AddedOnce, IInv, [Next]_vars
    PROVE  IInv'
<1>1. CASE UNCHANGED vars
  BY <1>1 DEF IInv, Fields, Registers, HeapAgrees, QueueAgrees, Counted, Due, Stages,
              Pending, Active, vars, timer, events, loop
<1>2. CASE Tick
  <2>1. /\ clock < MaxTime \/ clock < MaxTime + Oversleep
        /\ clock' = clock + 1 /\ UNCHANGED <<timer, events, loop>>
    BY <1>2 DEF Tick
  <2>2. clock <= clock' /\ clock' \in 0 .. MaxTime + Oversleep
    BY <2>1, Types
  <2>3. Registers' /\ Stages'
    BY <2>1, <2>2, Types DEF IInv, Registers, Stages, Pending, Active, timer, events, loop
  <2> QED BY <2>1, <2>2, <2>3, QuietKeeps
<1>3. ASSUME NEW e \in Events, EventDel(e) PROVE IInv'
  BY <1>3, DeleteKeeps DEF EventDel
<1>4. ASSUME NEW e \in Events, NEW d \in Delays, EventAdd(e, d) PROVE IInv'
  BY <1>4, EventAddKeeps
<1>5. CASE DestroyOne
  <2>1. HeapTop(heap) \in Events
    BY <1>5, TopWaits DEF DestroyOne
  <2> QED BY <1>5, <2>1, DeleteKeeps DEF DestroyOne
<1>6. CASE Create
  BY <1>6, CreateKeeps
<1>7. CASE Expire
  BY <1>7, ExpireKeeps
<1>8. CASE Process
  BY <1>8, ProcessKeeps
<1>9. CASE ReadNow
  <2>1. /\ pc = "timeout_process" /\ now' = clock /\ pc' = "expire"
        /\ UNCHANGED <<clock, timer, events, tv, wake, current>>
    BY <1>9 DEF ReadNow
  <2>2. Registers' /\ clock <= clock'
    BY <2>1, Types DEF IInv, Registers
  <2>3. Active = {}
    BY <2>1 DEF IInv, Stages, QueueAgrees, Range
  <2>4. Stages'
    BY <2>1, <2>3 DEF IInv, Stages, Active, Pending, timer, events
  <2> QED BY <2>1, <2>2, <2>4, QuietKeeps
<1>10. CASE StartLoop \/ DestroyBegin
  BY <1>10, QuietKeeps, Types
     DEF StartLoop, DestroyBegin, IInv, Registers, Stages, Pending, Active, timer, events
<1>11. CASE TimeoutNext
  <2>1. /\ pc = "sleep_time" /\ pc' = "select"
        /\ UNCHANGED <<clock, timer, events, now, wake, current>>
    BY <1>11 DEF TimeoutNext
  <2>2. tv' \in Nat
    <3>1. tv \in Nat /\ clock \in Nat
      BY Types DEF IInv, Registers
    <3>2. CASE IsEmpty(heap)
      BY <1>11, <3>1, <3>2 DEF TimeoutNext
    <3>3. CASE ~IsEmpty(heap)
      <4>1. ev_timeout[HeapTop(heap)] \in Nat
        BY <3>3, TopWaits DEF IInv, Fields
      <4> QED BY <1>11, <3>1, <4>1 DEF TimeoutNext
    <3> QED BY <3>2, <3>3
  <2>3. Registers' /\ Stages' /\ clock <= clock'
    BY <2>1, <2>2, Types DEF IInv, Registers, Stages, Pending, Active, timer, events
  <2> QED BY <2>1, <2>3, QuietKeeps
<1>12. CASE Select
  <2>1. /\ pc = "select" /\ pc' = "selecting" /\ wake' \in Nat
        /\ UNCHANGED <<clock, timer, events, now, tv, current>>
    BY <1>12, Types DEF Select, IInv, Registers
  <2>2. Registers' /\ Stages' /\ clock <= clock'
    BY <2>1, Types DEF IInv, Registers, Stages, Pending, Active, timer, events
  <2> QED BY <2>1, <2>2, QuietKeeps
<1>13. CASE SelectReturns
  <2>1. /\ pc = "selecting" /\ pc' = "timeout_process" /\ tv' \in Nat
        /\ UNCHANGED <<clock, timer, events, now, wake, current>>
    BY <1>13, Types DEF SelectReturns, IInv, Registers
  <2>2. Registers' /\ Stages' /\ clock <= clock'
    BY <2>1, Types DEF IInv, Registers, Stages, Pending, Active, timer, events
  <2> QED BY <2>1, <2>2, QuietKeeps
<1>14. CASE ExpireDone \/ CallbackReturns
  <2>1. /\ pc \in {"expire", "callback"} /\ pc' = "process" /\ current' = NoEvent
        /\ UNCHANGED <<clock, timer, events, now, tv, wake>> /\ NoEvent \notin Active
    BY <1>14, TimerAssumption DEF ExpireDone, CallbackReturns, IInv, Stages, Active
  <2>2. Registers' /\ Stages' /\ clock <= clock'
    BY <2>1, Types DEF IInv, Registers, Stages, Pending, Active, timer, events
  <2> QED BY <2>1, <2>2, QuietKeeps
<1>15. CASE ProcessDone
  <2>1. /\ activequeue = <<>> /\ pc = "process" /\ pc' = "sleep_time"
        /\ UNCHANGED <<clock, timer, events, now, tv, wake, current>>
    BY <1>15 DEF ProcessDone
  <2>2. Registers' /\ Stages' /\ clock <= clock'
    BY <2>1, Types DEF IInv, Registers, Stages, Pending, Active, timer, events
  <2> QED BY <2>1, <2>2, QuietKeeps
<1> QED
  BY <1>1, <1>2, <1>3, <1>4, <1>5, <1>6, <1>7, <1>8, <1>9, <1>10, <1>11, <1>12, <1>13, <1>14, <1>15
     DEF Next, User, Manage, LoopStep

LEMMA InvariantHolds == ASSUME AddedOnce PROVE Spec => []IInv
<1>1. IInv /\ [Next]_vars => IInv'
  BY NextIInv
<1> QED
  BY <1>1, InitIInv, PTL DEF Spec

----------------------------------------------------------------------------
(***************************************************************************)
(* The queues hold events, deadlines are times, and no counter goes below  *)
(* zero.                                                                   *)
(***************************************************************************)
THEOREM TimerTyped == ASSUME AddedOnce PROVE Spec => []TypeOK
<1>1. IInv => TypeOK
  <2> SUFFICES ASSUME IInv PROVE TypeOK
    OBVIOUS
  <2>1. heap.p \in Seq(Events)
    BY DEF IInv, HeapAgrees, IsHeap
  <2>2. event_count \in Nat /\ event_count_active \in Nat
    BY Types DEF IInv, Counted
  <2> QED BY <2>1, <2>2 DEF IInv, Fields, Registers, QueueAgrees, TypeOK
<1> QED
  BY <1>1, InvariantHolds, PTL

(***************************************************************************)
(* Flags, queues and counters tell one story, whatever callbacks add and   *)
(* delete while timeout_process and event_process_active empty the queues. *)
(***************************************************************************)
THEOREM QueuesAlwaysAgree == ASSUME AddedOnce PROVE Spec => []QueuesAgree
<1>1. IInv => QueuesAgree
  <2> SUFFICES ASSUME IInv PROVE QueuesAgree
    OBVIOUS
  <2>1. /\ Positioned(heap) /\ Members(heap) = {x \in Events : heap.idx[x] # 0}
        /\ Cardinality(Members(heap)) = Len(heap.p)
    BY MembersAre DEF IInv, HeapAgrees, IsHeap
  <2>2. Members(heap) = Pending
    BY <2>1 DEF IInv, HeapAgrees, Pending
  <2>3. Range(activequeue) = Active /\ Cardinality(Active) = Len(activequeue)
    BY OnceIsCounted DEF IInv, QueueAgrees
  <2> QED BY <2>1, <2>2, <2>3 DEF IInv, Counted, QueuesAgree
<1> QED
  BY <1>1, InvariantHolds, PTL

(***************************************************************************)
(* No event in the heap is due before its parent, although deadlines       *)
(* change: only those of events that are not in the heap do.               *)
(***************************************************************************)
THEOREM HeapStaysInOrder == ASSUME AddedOnce PROVE Spec => []HeapInOrder
<1>1. IInv => HeapInOrder
  BY DEF IInv, HeapAgrees, IsHeap, HeapInOrder
<1> QED
  BY <1>1, InvariantHolds, PTL

(***************************************************************************)
(* Callbacks run in the order of their deadlines and none before it, at    *)
(* every point of the loop and whatever the callbacks change.              *)
(***************************************************************************)
THEOREM CallbacksInOrder == ASSUME AddedOnce PROVE Spec => []ActiveInDeadlineOrder
<1>1. IInv => ActiveInDeadlineOrder
  BY DEF IInv, Due, Sorted, ActiveInDeadlineOrder
<1> QED
  BY <1>1, InvariantHolds, PTL

(***************************************************************************)
(* When timeout_process stops looking at the top of the heap, nothing that *)
(* was due is left in it.                                                  *)
(***************************************************************************)
THEOREM NothingOverlooked == ASSUME AddedOnce PROVE Spec => NoneOverlooked
<1> DEFINE Step == pc = "expire" /\ pc' = "process" => \A e \in Pending : ev_timeout[e] > now
<1>1. IInv /\ [Next]_vars => [Step]_vars
  <2> SUFFICES ASSUME IInv, Next, pc = "expire", pc' = "process", NEW e \in Pending
               PROVE  ev_timeout[e] > now
    BY Zenon
  <2>1. ~TopDue
    BY DEF Next, User, Manage, LoopStep, Tick, EventAdd, EventDel, UserTurn, StartLoop,
           DestroyBegin, DestroyOne, Create, TimeoutNext, Select, SelectReturns, ReadNow,
           Expire, ExpireDone, Process, CallbackReturns, ProcessDone, loop
  <2>2. e \in Events /\ heap.idx[e] # 0
    BY DEF IInv, HeapAgrees, Pending
  <2>3. ~IsEmpty(heap)
    <3>1. heap.idx[e] \in 1 .. Len(heap.p)
      BY <2>2, HeapIs DEF IInv, HeapAgrees
    <3> QED BY <3>1 DEF IsEmpty
  <2>4. ev_timeout[HeapTop(heap)] > now /\ ev_timeout[HeapTop(heap)] <= ev_timeout[e]
    <3>1. HeapTop(heap) \in Events /\ ev_timeout[HeapTop(heap)] <= ev_timeout[e]
      BY <2>3, TopWaits
    <3> QED BY <2>1, <2>3, <3>1 DEF TopDue, IInv, Fields, Registers
  <2>5. ev_timeout[e] \in Nat /\ ev_timeout[HeapTop(heap)] \in Nat /\ now \in Nat
    BY <2>2, <2>3, TopWaits DEF IInv, Fields, Registers
  <2> QED BY <2>4, <2>5
<1> QED
  BY <1>1, InvariantHolds, PTL DEF Spec, NoneOverlooked

(***************************************************************************)
(* What timeout_next reads off the top of the heap is right for all events *)
(* that wait: the loop never goes to sleep over a deadline.                *)
(***************************************************************************)
THEOREM NeverSleepsOver == ASSUME AddedOnce PROVE Spec => SleepsUntilNext
<1> DEFINE Step == pc = "sleep_time" /\ pc' = "select" =>
                     \A e \in Pending :
                         clock + tv' <= IF ev_timeout[e] <= clock THEN clock ELSE ev_timeout[e]
<1>1. IInv /\ [Next]_vars => [Step]_vars
  <2> SUFFICES ASSUME IInv, Next, pc = "sleep_time", pc' = "select", NEW e \in Pending
               PROVE  clock + tv' <= IF ev_timeout[e] <= clock THEN clock ELSE ev_timeout[e]
    BY Zenon
  <2>1. TimeoutNext
    BY DEF Next, User, Manage, LoopStep, Tick, EventAdd, EventDel, UserTurn, StartLoop,
           DestroyBegin, DestroyOne, Create, Select, SelectReturns, ReadNow,
           Expire, ExpireDone, Process, CallbackReturns, ProcessDone, loop
  <2>2. e \in Events /\ heap.idx[e] # 0
    BY DEF IInv, HeapAgrees, Pending
  <2>3. ~IsEmpty(heap)
    <3>1. heap.idx[e] \in 1 .. Len(heap.p)
      BY <2>2, HeapIs DEF IInv, HeapAgrees
    <3> QED BY <3>1 DEF IsEmpty
  <2> DEFINE top == ev_timeout[HeapTop(heap)]
  <2>4. top \in Nat /\ ev_timeout[e] \in Nat /\ clock \in Nat /\ top <= ev_timeout[e]
    BY <2>2, <2>3, TopWaits, Types DEF IInv, Fields
  <2>5. tv' = 0 \/ (top > clock /\ tv' = top - clock)
    <3>1. tv' = 0 \/ (~(top <= clock) /\ tv' = top - clock)
      BY <2>1, <2>3 DEF TimeoutNext
    <3> QED BY <2>4, <3>1
  <2> HIDE DEF top
  <2> QED BY <2>4, <2>5
<1> QED
  BY <1>1, InvariantHolds, PTL DEF Spec, SleepsUntilNext

----------------------------------------------------------------------------
(* The timer keeps the promise of TimerQueue: under the mapping, a step is *)
(* a step of TimerQueue or a stutter.                                      *)

LEMMA AbstractInit == Init => TQ!Init
<1> SUFFICES ASSUME Init PROVE TQ!Init
  OBVIOUS
<1>1. Waiting = {} /\ Ready = <<>>
  BY DEF Init, Waiting, Ready, Pending
<1>2. Interval = [e \in Persistent |-> 0]
  BY TimerAssumption DEF Init, Interval
<1> QED
  BY <1>1, <1>2 DEF Init, TQ!Init

\* The active queue without e, as TimerQueue takes it out.
LEMMA DeleteIsDelete ==
    ASSUME IInv, NEW e \in Events, Delete(e), UNCHANGED <<clock, ev_timeout, ev_io_timeout, loop>>,
           pc # "expire"
    PROVE  TQ!Delete(e)
<1>1. /\ Waiting = Pending /\ Waiting' = Pending' /\ Ready = activequeue /\ Ready' = activequeue'
      /\ UNCHANGED <<clock, ev_timeout, Interval, current>>
  BY DEF Waiting, Ready, Interval, loop
<1>2. Pending' = Pending \ {e}
  BY DeleteStep
<1>3. CASE "ACTIVE" \in ev_flags[e]
  <2> DEFINE at == CHOOSE i \in DOMAIN activequeue : activequeue[i] = e
  <2>1. e \in Range(activequeue)
    BY <1>3 DEF IInv, QueueAgrees, Active
  <2>2. at \in DOMAIN activequeue /\ activequeue[at] = e
    BY <2>1 DEF Range
  <2>3. activequeue' = TQ!ReadyWithout(at)
    BY <1>1, <1>3 DEF Delete, Unlinked, TQ!ReadyWithout
  <2> HIDE DEF at
  <2> QED BY <1>1, <1>2, <2>1, <2>2, <2>3 DEF TQ!Delete, Range, TQ!Range
<1>4. CASE "ACTIVE" \notin ev_flags[e]
  <2>1. e \notin Range(activequeue) /\ activequeue' = activequeue
    BY <1>4 DEF IInv, QueueAgrees, Active, Delete
  <2> QED BY <1>1, <1>2, <2>1 DEF TQ!Delete, Range, TQ!Range
<1> QED
  BY <1>3, <1>4

LEMMA AddIsAdd ==
    ASSUME AddedOnce, IInv, NEW e \in Events, NEW d \in Delays, EventAdd(e, d)
    PROVE  TQ!Add(e, d)
<1>1. /\ "TIMEOUT" \notin ev_flags[e] /\ pc # "expire"
      /\ UNCHANGED <<clock, activequeue, loop>>
      /\ ev_timeout' = [ev_timeout EXCEPT ![e] = clock + d]
      /\ ev_io_timeout' = [ev_io_timeout EXCEPT ![e] = IF e \in Persistent THEN d ELSE @]
  BY DEF EventAdd, UserTurn, AddedOnce
<1>2. ev_flags' = [ev_flags EXCEPT ![e] = @ \cup {"TIMEOUT"}]
  BY <1>1 DEF EventAdd, InsertTimeout
<1>3. Pending' = Pending \cup {e}
  BY <1>2 DEF IInv, Fields, Pending
<1>4. /\ Waiting' = Waiting \cup {e} /\ Ready' = Ready /\ UNCHANGED <<clock, current>>
  BY <1>1, <1>3 DEF Waiting, Ready, loop
<1>5. Interval' = [x \in Persistent |-> IF x = e THEN d ELSE Interval[x]]
  BY <1>1, TimerAssumption DEF Interval, IInv, Fields
<1> QED
  BY <1>1, <1>4, <1>5 DEF TQ!Add

\* What is active when timeout_process stops is what was due, in order.
LEMMA ExpireDoneIsCollect ==
    ASSUME IInv, ExpireDone
    PROVE  TQ!Collect
<1> DEFINE due == {e \in Waiting : ev_timeout[e] <= now}
<1>1. /\ pc = "expire" /\ pc' = "process" /\ ~TopDue
      /\ UNCHANGED <<clock, timer, events, now, tv, wake, current>>
  BY DEF ExpireDone
<1>2. /\ Waiting = Pending \cup Active /\ Waiting' = Pending /\ Ready = <<>> /\ Ready' = activequeue
      /\ UNCHANGED <<clock, ev_timeout, Interval, current>>
  BY <1>1 DEF Waiting, Ready, Interval, Pending, Active, timer, events
<1>3. current = NoEvent /\ Active \cap Pending = {} /\ \A e \in Active : ev_timeout[e] <= now
  BY <1>1 DEF IInv, Stages
<1>4. ASSUME NEW e \in Pending PROVE ~(ev_timeout[e] <= now)
  <2>1. e \in Events /\ heap.idx[e] # 0
    BY DEF IInv, HeapAgrees, Pending
  <2>2. heap.idx[e] \in 1 .. Len(heap.p)
    BY <2>1, HeapIs DEF IInv, HeapAgrees
  <2>3. ~IsEmpty(heap)
    BY <2>2 DEF IsEmpty
  <2>4. /\ HeapTop(heap) \in Events
        /\ ev_timeout[HeapTop(heap)] <= ev_timeout[e]
        /\ ~(ev_timeout[HeapTop(heap)] <= now)
    BY <1>1, <2>3, TopWaits DEF TopDue
  <2>5. ev_timeout[e] \in Nat /\ ev_timeout[HeapTop(heap)] \in Nat /\ now \in Nat
    BY <2>1, <2>4 DEF IInv, Fields, Registers
  <2> QED BY <2>4, <2>5
<1>5. due = Active /\ Waiting' = Waiting \ due
  BY <1>2, <1>3, <1>4
<1>6. activequeue \in TQ!Arrangements(Active)
  <2>1. activequeue \in Seq(Events) /\ Range(activequeue) = Active
        /\ Len(activequeue) = Cardinality(Active)
    BY OnceIsCounted DEF IInv, QueueAgrees
  <2>2. /\ DOMAIN activequeue = 1 .. Cardinality(Active)
        /\ activequeue = [i \in DOMAIN activequeue |-> activequeue[i]]
    BY <2>1, LenProperties
  <2>3. \A i \in DOMAIN activequeue : activequeue[i] \in Active
    BY <2>1 DEF Range
  <2>4. activequeue \in [1 .. Cardinality(Active) -> Active]
    BY <2>2, <2>3
  <2>5. \A i, j \in DOMAIN activequeue : i < j => ev_timeout[activequeue[i]] <= ev_timeout[activequeue[j]]
    BY <1>3, <2>3 DEF IInv, Due, Sorted
  <2>6. TQ!Range(activequeue) = Active
    BY <2>1 DEF Range, TQ!Range
  <2>7. TQ!Cardinality(Active) = Cardinality(Active)
    BY DEF TQ!Cardinality, Cardinality
  <2> QED BY <2>4, <2>5, <2>6, <2>7 DEF TQ!Arrangements
<1>7. now \in 0 .. clock
  BY DEF IInv, Registers
<1> QED
  BY <1>2, <1>3, <1>5, <1>6, <1>7 DEF TQ!Collect

LEMMA ProcessIsCall ==
    ASSUME AddedOnce, IInv, Process
    PROVE  TQ!Call
<1> DEFINE e == Head(activequeue)
<1>1. /\ pc = "process" /\ pc' = "callback" /\ activequeue # <<>> /\ current' = e
      /\ UNCHANGED <<clock, ev_io_timeout>>
  BY DEF Process
<1>2. /\ Waiting = Pending /\ Waiting' = Pending' /\ Ready = activequeue /\ Ready' = activequeue'
      /\ UNCHANGED <<clock, Interval>> /\ current = NoEvent
  BY <1>1 DEF Waiting, Ready, Interval, IInv, Stages
<1>3. e \in Events /\ e \in Active
  BY <1>1, HeadTaken DEF IInv, QueueAgrees
<1>4. CASE e \notin Persistent
  <2>1. Delete(e) /\ UNCHANGED <<ev_timeout, ev_io_timeout>>
    BY <1>1, <1>4 DEF Process
  <2>2. Pending' = Pending \ {e}
    BY <1>3, <2>1, DeleteStep
  <2>3. activequeue' = Tail(activequeue)
    <3>1. activequeue[1] = e /\ 1 \in DOMAIN activequeue
      BY <1>1 DEF IInv, QueueAgrees
    <3>2. (CHOOSE i \in DOMAIN activequeue : activequeue[i] = e) = 1
      BY <3>1 DEF IInv, QueueAgrees, Once
    <3>3. activequeue' = Unlinked(e)
      BY <1>3, <2>1 DEF Delete, Active
    <3>4. Tail(activequeue) = Without(activequeue, 1)
      BY <1>1, HeadTaken DEF IInv, QueueAgrees
    <3> HIDE DEF e
    <3> QED BY <3>2, <3>3, <3>4 DEF Unlinked, Without
  <2> HIDE DEF e
  <2>4. TQ!CallOnce(e)
    BY <1>2, <1>4, <2>1, <2>2 DEF TQ!CallOnce
  <2> QED BY <1>1, <1>2, <2>3, <2>4 DEF TQ!Call, e
<1>5. CASE e \in Persistent
  <2>1. activequeue' = Tail(activequeue) /\ Rearm(e)
    BY <1>5 DEF Process
  <2> HIDE DEF e
  <2>2. e \notin Pending /\ "TIMEOUT" \notin ev_flags[e]
    BY <1>3, <1>5 DEF AddedOnce, IInv, Stages, Pending
  <2>3. Interval[e] = ev_io_timeout[e]
    BY <1>5 DEF Interval
  <2>4. TQ!CallAgain(e)
    <3>1. CASE ev_io_timeout[e] = 0
      <4>1. ev_flags' = [ev_flags EXCEPT ![e] = @ \ {"ACTIVE"}] /\ ev_timeout' = ev_timeout
        BY <2>1, <3>1 DEF Rearm
      <4>2. Pending' = Pending
        BY <4>1 DEF IInv, Fields, Pending
      <4> QED BY <1>2, <1>5, <2>3, <3>1, <4>1, <4>2 DEF TQ!CallAgain
    <3>2. CASE ev_io_timeout[e] # 0
      <4>1. /\ ev_timeout' = [ev_timeout EXCEPT ![e] = RunAt(e)]
            /\ ev_flags' = [ev_flags EXCEPT ![e] = {"TIMEOUT"}]
        BY <2>1, <3>2 DEF Rearm
      <4>2. Pending' = Pending \cup {e}
        BY <4>1, <1>3 DEF IInv, Fields, Pending
      <4>3. RunAt(e) \in clock .. clock + ev_io_timeout[e]
        <5>1. clock \in Nat /\ ev_timeout[e] \in Nat /\ ev_io_timeout[e] \in Nat
          BY <1>3, Types DEF IInv, Fields
        <5>2. ev_timeout[e] <= clock
          BY <1>3, <2>2 DEF IInv, Due
        <5> QED BY <5>1, <5>2 DEF RunAt
      <4> QED BY <1>2, <1>5, <2>3, <3>2, <4>1, <4>2, <4>3 DEF TQ!CallAgain
    <3> QED BY <3>1, <3>2
  <2> QED BY <1>1, <1>2, <2>1, <2>4 DEF TQ!Call, e
<1> QED
  BY <1>4, <1>5

LEMMA AbstractStep ==
    ASSUME AddedOnce, IInv, [Next]_vars
    PROVE  [TQ!Next]_TQ!vars
<1>1. CASE UNCHANGED vars
  BY <1>1 DEF vars, timer, events, loop, TQ!vars, Waiting, Ready, Interval, Pending, Active
<1>2. CASE Tick
  <2>1. TQ!Advance
    BY <1>2 DEF Tick, timer, events, loop, TQ!Advance, Waiting, Ready, Interval, Pending, Active
  <2> QED BY <2>1 DEF TQ!Next
<1>3. ASSUME NEW e \in Events, EventDel(e) PROVE TQ!Next
  <2>1. Delete(e) /\ UNCHANGED <<clock, ev_timeout, ev_io_timeout, loop>> /\ pc # "expire"
    BY <1>3 DEF EventDel, UserTurn
  <2>2. TQ!Delete(e)
    BY <2>1, DeleteIsDelete
  <2> QED BY <2>2 DEF TQ!Next
<1>4. ASSUME NEW e \in Events, NEW d \in Delays, EventAdd(e, d) PROVE TQ!Next
  <2>1. TQ!Add(e, d)
    BY <1>4, AddIsAdd
  <2> QED BY <2>1 DEF TQ!Next
<1>5. CASE DestroyOne
  <2> DEFINE e == HeapTop(heap)
  <2>1. e \in Events
    BY <1>5, TopWaits DEF DestroyOne
  <2>2. Delete(e) /\ UNCHANGED <<clock, ev_timeout, ev_io_timeout, loop>> /\ pc # "expire"
    BY <1>5 DEF DestroyOne
  <2> HIDE DEF e
  <2>3. TQ!Delete(e)
    BY <2>1, <2>2, DeleteIsDelete
  <2> QED BY <2>1, <2>3 DEF TQ!Next
<1>6. CASE Create
  <2>1. Pending = {} /\ activequeue = <<>>
    <3>1. activequeue = <<>>
      BY <1>6 DEF Create, IInv, Stages
    <3>2. ASSUME NEW x \in Pending PROVE FALSE
      <4>1. x \in Events /\ heap.idx[x] # 0
        BY DEF IInv, HeapAgrees, Pending
      <4>2. heap.idx[x] \in 1 .. Len(heap.p)
        BY <4>1, HeapIs DEF IInv, HeapAgrees
      <4> QED BY <1>6, <4>2 DEF Create, IsEmpty
    <3> QED BY <3>1, <3>2
  <2>2. /\ Waiting = {} /\ Waiting' = {} /\ Ready = <<>> /\ Ready' = <<>>
        /\ UNCHANGED <<clock, ev_timeout, current>>
    BY <1>6, <2>1 DEF Create, Waiting, Ready, Pending
  <2>3. Interval' = [e \in Persistent |-> 0]
    BY <1>6, TimerAssumption DEF Create, Interval
  <2>4. TQ!Reset
    BY <2>2, <2>3 DEF TQ!Reset
  <2> QED BY <2>4 DEF TQ!Next
<1>7. CASE Expire
  <2> DEFINE e == HeapTop(heap)
  <2>1. e \in Events /\ e \in Pending
    BY <1>7, TopWaits DEF Expire, TopDue
  <2>2. /\ pc = "expire" /\ ev_flags' = [ev_flags EXCEPT ![e] = {"ACTIVE"}]
        /\ UNCHANGED <<clock, ev_timeout, ev_io_timeout, loop>>
    BY <1>7 DEF Expire, Activate
  <2> HIDE DEF e
  <2>3. Pending' \cup Active' = Pending \cup Active
    BY <2>1, <2>2 DEF IInv, Fields, Pending, Active
  <2> QED BY <2>2, <2>3 DEF loop, Waiting, Ready, Interval, TQ!vars
<1>8. CASE ExpireDone
  BY <1>8, ExpireDoneIsCollect DEF TQ!Next
<1>9. CASE Process
  BY <1>9, ProcessIsCall DEF TQ!Next
<1>10. CASE CallbackReturns
  <2>1. TQ!Return
    BY <1>10 DEF CallbackReturns, timer, events, TQ!Return, Waiting, Ready, Interval, Pending, Active
  <2> QED BY <2>1 DEF TQ!Next
<1>11. CASE ReadNow
  <2>1. activequeue = <<>> /\ Active = {}
    BY <1>11 DEF ReadNow, IInv, Stages, QueueAgrees, Range
  <2> QED BY <1>11, <2>1
          DEF ReadNow, timer, events, TQ!vars, Waiting, Ready, Interval, Pending, Active
<1>12. CASE StartLoop \/ DestroyBegin \/ TimeoutNext \/ Select \/ SelectReturns \/ ProcessDone
  BY <1>12 DEF StartLoop, DestroyBegin, TimeoutNext, Select, SelectReturns, ProcessDone,
               timer, events, TQ!vars, Waiting, Ready, Interval, Pending, Active
<1> QED
  BY <1>1, <1>2, <1>3, <1>4, <1>5, <1>6, <1>7, <1>8, <1>9, <1>10, <1>11, <1>12
     DEF Next, User, Manage, LoopStep

(***************************************************************************)
(* timer_event.c with its heap, flags and counters does what TimerQueue    *)
(* promises: the events that are due become ready together and in order,   *)
(* a deleted one does not run, a persistent one waits again.               *)
(***************************************************************************)
THEOREM RefinesTimerQueue == ASSUME AddedOnce PROVE Spec => ImplementsTimerQueue
<1>1. IInv /\ [Next]_vars => [TQ!Next]_TQ!vars
  BY AbstractStep
<1> QED
  BY <1>1, AbstractInit, InvariantHolds, PTL DEF Spec, TQ!Spec, ImplementsTimerQueue
=============================================================================
