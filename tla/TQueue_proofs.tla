--------------------------- MODULE TQueue_proofs ---------------------------
(***************************************************************************)
(* Proofs about the thread queue, for any number of writers, readers,      *)
(* elements and slots.                                                     *)
(***************************************************************************)
EXTENDS TQueue, FiniteSetTheorems, SequenceTheorems, TLAPS

\* A thread is in its critical section exactly when it owns the mutex.
Critical == {"write_check", "write_post", "write_unlock", "read_copy", "read_unlock"}
MutexInv == \A t \in Threads : pc[t] \in Critical <=> queue_mutex = t

\* The inductive invariant.
IInv == TypeOK /\ MutexInv /\ SemaphoreCountsElements /\ CursorsAgree

USE TQueueAssumption

----------------------------------------------------------------------------
(* The sets of threads the counters are compared with.                     *)

\* Both sets are finite, so their cardinalities are numbers.
LEMMA ThreadSetsFinite ==
    /\ IsFiniteSet(Claims) /\ Cardinality(Claims) \in Nat
    /\ IsFiniteSet(Unposted) /\ Cardinality(Unposted) \in Nat
<1>1. Claims \subseteq Readers /\ Unposted \subseteq Writers
  BY DEF Claims, Unposted
<1>2. IsFiniteSet(Claims) /\ IsFiniteSet(Unposted)
  BY <1>1, FS_Subset
<1> QED
  BY <1>2, FS_CardinalityType

\* A set with a member counts at least one.
LEMMA MemberCounts ==
    ASSUME NEW S, IsFiniteSet(S), NEW x \in S
    PROVE  Cardinality(S) \in Nat /\ Cardinality(S) >= 1
<1>1. Cardinality(S) \in Nat
  BY FS_CardinalityType
<1>2. Cardinality(S) # 0
  BY FS_EmptySet
<1> QED
  BY <1>1, <1>2

\* Claims and Unposted depend on pc alone; a step of a thread that is in
\* neither set before and after it leaves both as they are.
LEMMA OtherThreadSets ==
    ASSUME TypeOK, NEW t \in Threads, NEW l, Goto(t, l),
           pc[t] \notin {"read_lock", "read_copy", "write_post"},
           l \notin {"read_lock", "read_copy", "write_post"}
    PROVE  Claims' = Claims /\ Unposted' = Unposted
  BY DEF TypeOK, Goto, Claims, Unposted, Threads

----------------------------------------------------------------------------
(* Type correctness and the mutex, action by action.                       *)

\* The initial state satisfies the invariant: no thread is in a call.
LEMMA InitIInv == Init => IInv
<1> SUFFICES ASSUME Init PROVE IInv
  OBVIOUS
<1>1. TypeOK
  BY DEF Init, TypeOK, Threads, Slots, WriterPC, ReaderPC
<1>2. MutexInv
  BY DEF Init, MutexInv, Critical, Threads
<1>3. SemaphoreCountsElements
  <2>1. Claims = {} /\ Unposted = {}
    BY DEF Init, Claims, Unposted, Threads
  <2> QED
    BY <2>1, FS_EmptySet DEF Init, SemaphoreCountsElements
<1>4. CursorsAgree
  BY DEF Init, CursorsAgree, Slot
<1> QED
  BY <1>1, <1>2, <1>3, <1>4 DEF IInv


(***************************************************************************)
(* The invariant is preserved by every step.  Only four actions move an    *)
(* element or a unit of the semaphore; the others leave the counters, the  *)
(* cursors and both sets of threads alone.                                 *)
(***************************************************************************)
LEMMA NextIInv == IInv /\ [Next]_vars => IInv'
<1> SUFFICES ASSUME IInv, [Next]_vars PROVE IInv'
  OBVIOUS
<1> USE DEF IInv, vars, ring
<1>1. ASSUME NEW w \in Writers, WriteCall(w) PROVE IInv'
  <2>1. TypeOK'
    BY <1>1 DEF WriteCall, Goto, TypeOK, Threads, WriterPC, ReaderPC
  <2>2. MutexInv'
    BY <1>1 DEF WriteCall, Goto, TypeOK, MutexInv, Critical, Threads
  <2>3. Claims' = Claims /\ Unposted' = Unposted
    BY <1>1, OtherThreadSets DEF WriteCall, Threads
  <2> QED
    BY <1>1, <2>1, <2>2, <2>3 DEF WriteCall, SemaphoreCountsElements, CursorsAgree, Slot
<1>2. ASSUME NEW w \in Writers, WriteLock(w) PROVE IInv'
  <2>1. TypeOK'
    BY <1>2 DEF WriteLock, Lock, Goto, TypeOK, Threads, WriterPC, ReaderPC
  <2>2. MutexInv'
    BY <1>2 DEF WriteLock, Lock, Goto, TypeOK, MutexInv, Critical, Threads
  <2>3. Claims' = Claims /\ Unposted' = Unposted
    BY <1>2, OtherThreadSets DEF WriteLock, Lock, Threads
  <2> QED
    BY <1>2, <2>1, <2>2, <2>3
       DEF WriteLock, Lock, SemaphoreCountsElements, CursorsAgree, Slot
<1>3. ASSUME NEW w \in Writers, WriteFull(w) PROVE IInv'
  <2>1. TypeOK'
    BY <1>3 DEF WriteFull, Unlock, Goto, TypeOK, Threads, WriterPC, ReaderPC
  <2>2. MutexInv'
    BY <1>3 DEF WriteFull, Unlock, Goto, TypeOK, MutexInv, Critical, Threads
  <2>3. Claims' = Claims /\ Unposted' = Unposted
    BY <1>3, OtherThreadSets DEF WriteFull, Unlock, Threads
  <2> QED
    BY <1>3, <2>1, <2>2, <2>3
       DEF WriteFull, Unlock, SemaphoreCountsElements, CursorsAgree, Slot
<1>4. ASSUME NEW w \in Writers, WriteStore(w) PROVE IInv'
  <2>1. TypeOK'
    BY <1>4 DEF WriteStore, Advance, Goto, TypeOK, Threads, Slots, WriterPC, ReaderPC
  <2>2. MutexInv'
    BY <1>4 DEF WriteStore, Goto, TypeOK, MutexInv, Critical, Threads
  <2>3. Claims' = Claims
    BY <1>4 DEF WriteStore, Goto, TypeOK, Claims, Threads
  <2>4. Unposted' = Unposted \cup {w} /\ w \notin Unposted
    BY <1>4 DEF WriteStore, Goto, TypeOK, Unposted, Threads
  <2>5. Cardinality(Unposted') = Cardinality(Unposted) + 1
    BY <2>4, ThreadSetsFinite, FS_AddElement
  <2>6. SemaphoreCountsElements'
    BY <1>4, <2>3, <2>5, ThreadSetsFinite DEF WriteStore, SemaphoreCountsElements, TypeOK
  <2>7. CursorsAgree'
    BY <1>4 DEF WriteStore, Advance, CursorsAgree, Slot, TypeOK, Slots
  <2> QED
    BY <2>1, <2>2, <2>6, <2>7
<1>5. ASSUME NEW w \in Writers, WritePost(w) PROVE IInv'
  <2>1. Claims' = Claims
    BY <1>5 DEF WritePost, Goto, TypeOK, Claims, Threads
  <2>2. Unposted' = Unposted \ {w} /\ w \in Unposted
    BY <1>5 DEF WritePost, Goto, TypeOK, Unposted, Threads
  <2>3. /\ Cardinality(Unposted') = Cardinality(Unposted) - 1
        /\ Cardinality(Unposted) >= 1
    BY <2>2, ThreadSetsFinite, MemberCounts, FS_RemoveElement
  <2>4. queue_sem' \in 0 .. DataNum
    BY <1>5, <2>3, ThreadSetsFinite DEF WritePost, SemaphoreCountsElements, TypeOK
  <2>5. TypeOK'
    BY <1>5, <2>4 DEF WritePost, Goto, TypeOK, Threads, WriterPC, ReaderPC
  <2>6. MutexInv'
    BY <1>5 DEF WritePost, Goto, TypeOK, MutexInv, Critical, Threads
  <2>7. SemaphoreCountsElements'
    BY <1>5, <2>1, <2>3, ThreadSetsFinite DEF WritePost, SemaphoreCountsElements, TypeOK
  <2> QED
    BY <1>5, <2>5, <2>6, <2>7 DEF WritePost, CursorsAgree, Slot
<1>6. ASSUME NEW w \in Writers, WriteUnlock(w) PROVE IInv'
  <2>1. TypeOK'
    BY <1>6 DEF WriteUnlock, Unlock, Goto, TypeOK, Threads, WriterPC, ReaderPC
  <2>2. MutexInv'
    BY <1>6 DEF WriteUnlock, Unlock, Goto, TypeOK, MutexInv, Critical, Threads
  <2>3. Claims' = Claims /\ Unposted' = Unposted
    BY <1>6, OtherThreadSets DEF WriteUnlock, Unlock, Threads
  <2> QED
    BY <1>6, <2>1, <2>2, <2>3
       DEF WriteUnlock, Unlock, SemaphoreCountsElements, CursorsAgree, Slot
<1>7. ASSUME NEW r \in Readers, ReadCall(r) PROVE IInv'
  <2>0. PICK call \in Trying : Goto(r, call)
    BY <1>7 DEF ReadCall
  <2>1. TypeOK'
    BY <1>7, <2>0 DEF ReadCall, Goto, TypeOK, Threads, WriterPC, ReaderPC, Trying
  <2>2. MutexInv'
    BY <1>7, <2>0 DEF ReadCall, Goto, TypeOK, MutexInv, Critical, Threads, Trying
  <2>3. Claims' = Claims /\ Unposted' = Unposted
    BY <1>7, <2>0, OtherThreadSets DEF ReadCall, Threads, Trying
  <2> QED
    BY <1>7, <2>1, <2>2, <2>3 DEF ReadCall, SemaphoreCountsElements, CursorsAgree, Slot
<1>8. ASSUME NEW r \in Readers, SemTake(r) PROVE IInv'
  <2>1. TypeOK'
    BY <1>8 DEF SemTake, Goto, TypeOK, Threads, WriterPC, ReaderPC
  <2>2. MutexInv'
    BY <1>8 DEF SemTake, Goto, TypeOK, MutexInv, Critical, Threads, Trying, Blocked
  <2>3. Claims' = Claims \cup {r} /\ r \notin Claims
    BY <1>8 DEF SemTake, Goto, TypeOK, Claims, Threads, Trying, Blocked
  <2>4. Unposted' = Unposted
    BY <1>8 DEF SemTake, Goto, TypeOK, Unposted, Threads
  <2>5. Cardinality(Claims') = Cardinality(Claims) + 1
    BY <2>3, ThreadSetsFinite, FS_AddElement
  <2>6. SemaphoreCountsElements'
    BY <1>8, <2>4, <2>5, ThreadSetsFinite DEF SemTake, SemaphoreCountsElements, TypeOK
  <2> QED
    BY <1>8, <2>1, <2>2, <2>6 DEF SemTake, CursorsAgree, Slot
<1>9. ASSUME NEW r \in Readers, SemBlock(r) PROVE IInv'
  <2>0. PICK l \in Blocked : Goto(r, l) /\ pc[r] \in Trying
    BY <1>9 DEF SemBlock, Blocked, Trying
  <2>1. TypeOK'
    BY <1>9, <2>0 DEF SemBlock, Goto, TypeOK, Threads, WriterPC, ReaderPC, Blocked
  <2>2. MutexInv'
    BY <1>9, <2>0 DEF SemBlock, Goto, TypeOK, MutexInv, Critical, Threads, Trying, Blocked
  <2>3. Claims' = Claims /\ Unposted' = Unposted
    BY <1>9, <2>0, OtherThreadSets DEF SemBlock, Threads, Trying, Blocked
  <2> QED
    BY <1>9, <2>1, <2>2, <2>3 DEF SemBlock, SemaphoreCountsElements, CursorsAgree, Slot
<1>10. ASSUME NEW r \in Readers, SemFail(r) PROVE IInv'
  <2>0. pc[r] \in Trying \cup Blocked
    BY <1>10 DEF SemFail, Blocked, Trying
  <2>1. TypeOK'
    BY <1>10 DEF SemFail, Goto, TypeOK, Threads, WriterPC, ReaderPC
  <2>2. MutexInv'
    BY <1>10, <2>0 DEF SemFail, Goto, TypeOK, MutexInv, Critical, Threads, Trying, Blocked
  <2>3. Claims' = Claims /\ Unposted' = Unposted
    BY <1>10, <2>0, OtherThreadSets DEF SemFail, Threads, Trying, Blocked
  <2> QED
    BY <1>10, <2>1, <2>2, <2>3 DEF SemFail, SemaphoreCountsElements, CursorsAgree, Slot
<1>11. ASSUME NEW r \in Readers, ReadLock(r) PROVE IInv'
  <2>1. TypeOK'
    BY <1>11 DEF ReadLock, Lock, Goto, TypeOK, Threads, WriterPC, ReaderPC
  <2>2. MutexInv'
    BY <1>11 DEF ReadLock, Lock, Goto, TypeOK, MutexInv, Critical, Threads
  <2>3. Claims' = Claims /\ Unposted' = Unposted
    BY <1>11 DEF ReadLock, Lock, Goto, TypeOK, Claims, Unposted, Threads
  <2> QED
    BY <1>11, <2>1, <2>2, <2>3
       DEF ReadLock, Lock, SemaphoreCountsElements, CursorsAgree, Slot
<1>12. ASSUME NEW r \in Readers, ReadCopy(r) PROVE IInv'
  <2>1. Claims' = Claims \ {r} /\ r \in Claims
    BY <1>12 DEF ReadCopy, Goto, TypeOK, Claims, Threads
  <2>2. Unposted' = Unposted
    BY <1>12 DEF ReadCopy, Goto, TypeOK, Unposted, Threads
  <2>3. /\ Cardinality(Claims') = Cardinality(Claims) - 1
        /\ Cardinality(Claims) >= 1
    BY <2>1, ThreadSetsFinite, MemberCounts, FS_RemoveElement
  <2>4. curr_len > 0
    BY <2>3, ThreadSetsFinite DEF SemaphoreCountsElements, TypeOK
  <2>5. TypeOK'
    BY <1>12, <2>4
       DEF ReadCopy, Advance, Goto, TypeOK, Threads, Slots, WriterPC, ReaderPC
  <2>6. MutexInv'
    BY <1>12 DEF ReadCopy, Goto, TypeOK, MutexInv, Critical, Threads
  <2>7. SemaphoreCountsElements'
    BY <1>12, <2>2, <2>3, <2>4, ThreadSetsFinite
       DEF ReadCopy, SemaphoreCountsElements, TypeOK
  <2>8. CursorsAgree'
    BY <1>12, <2>4 DEF ReadCopy, Advance, CursorsAgree, Slot, TypeOK, Slots
  <2> QED
    BY <2>5, <2>6, <2>7, <2>8
<1>13. ASSUME NEW r \in Readers, ReadUnlock(r) PROVE IInv'
  <2>1. TypeOK'
    BY <1>13 DEF ReadUnlock, Unlock, Goto, TypeOK, Threads, WriterPC, ReaderPC
  <2>2. MutexInv'
    BY <1>13 DEF ReadUnlock, Unlock, Goto, TypeOK, MutexInv, Critical, Threads
  <2>3. Claims' = Claims /\ Unposted' = Unposted
    BY <1>13, OtherThreadSets DEF ReadUnlock, Unlock, Threads
  <2> QED
    BY <1>13, <2>1, <2>2, <2>3
       DEF ReadUnlock, Unlock, SemaphoreCountsElements, CursorsAgree, Slot
<1>14. CASE UNCHANGED vars
  BY <1>14 DEF TypeOK, MutexInv, SemaphoreCountsElements, Claims, Unposted, CursorsAgree, Slot
<1> QED
  BY <1>1, <1>2, <1>3, <1>4, <1>5, <1>6, <1>7, <1>8, <1>9, <1>10, <1>11, <1>12,
     <1>13, <1>14
     DEF Next, Write, Read, SemCall

\* The strengthened invariant holds throughout.
LEMMA InvariantHolds == Spec => []IInv
BY InitIInv, NextIInv, PTL DEF Spec

(***************************************************************************)
(* The queue is type correct: the cursors stay inside the ring, and the    *)
(* semaphore and the count between 0 and data_num, for any ring size and   *)
(* any number of threads.                                                  *)
(***************************************************************************)
THEOREM TypeCorrect == Spec => []TypeOK
BY InvariantHolds, PTL DEF IInv

(***************************************************************************)
(* The semaphore, the writers about to post and the readers with a claim   *)
(* account for every stored element.                                       *)
(***************************************************************************)
THEOREM SemaphoreAccounting == Spec => []SemaphoreCountsElements
BY InvariantHolds, PTL DEF IInv

(***************************************************************************)
(* The write cursor is as many slots ahead of the read cursor as there are *)
(* elements, also when the ring is full or has wrapped.                    *)
(***************************************************************************)
THEOREM CursorsInStep == Spec => []CursorsAgree
BY InvariantHolds, PTL DEF IInv

(***************************************************************************)
(* A read that passed the semaphore never meets an empty ring: a read that *)
(* returns 0 has delivered an element.                                     *)
(***************************************************************************)
THEOREM SuccessfulReadDelivers == Spec => []ClaimFindsElement
<1>1. IInv => ClaimFindsElement
  <2> SUFFICES ASSUME IInv, NEW r \in Claims PROVE curr_len > 0
    BY DEF ClaimFindsElement
  <2>1. Cardinality(Claims) >= 1
    BY ThreadSetsFinite, MemberCounts
  <2> QED
    BY <2>1, ThreadSetsFinite DEF IInv, SemaphoreCountsElements, TypeOK
<1> QED
  BY <1>1, InvariantHolds, PTL

----------------------------------------------------------------------------
(* No element is lost or overwritten.                                      *)

\* Different positions of the occupied stretch are different slots.
LEMMA SlotInjective ==
    ASSUME TypeOK, NEW i \in 0 .. DataNum - 1, NEW j \in 0 .. DataNum - 1
    PROVE  Slot(i) \in Slots /\ (Slot(i) = Slot(j) => i = j)
  BY DEF TypeOK, Slot, Slots

\* Reading an element makes every later one move up by one position.
LEMMA SlotShift ==
    ASSUME TypeOK, NEW r \in Readers, ReadCopy(r), curr_len > 0, NEW i \in 1 .. DataNum - 1
    PROVE  Slot(i - 1)' = Slot(i)
  BY DEF ReadCopy, Advance, Slot, TypeOK, Slots

(***************************************************************************)
(* Whatever any thread does, a stored and unread element stays where it is *)
(* until a reader is given it: in particular a write never reaches an      *)
(* unread slot, however often the cursors have wrapped.                    *)
(***************************************************************************)
THEOREM ElementsKept == Spec => NoElementLost
<1>1. IInv /\ [Next]_vars => KeepsElements
  <2> SUFFICES ASSUME IInv, [Next]_vars PROVE KeepsElements
    OBVIOUS
  <2>1. TypeOK /\ CursorsAgree
    BY DEF IInv
  <2>2. CASE UNCHANGED ring
    BY <2>2 DEF KeepsElements, ring, Occupied, Slot
  <2>3. ASSUME NEW w \in Writers, WriteStore(w) PROVE KeepsElements
    <3> SUFFICES ASSUME NEW i \in 0 .. curr_len - 1
                 PROVE  Slot(i) \in Occupied' /\ buffer'[Slot(i)] = buffer[Slot(i)]
      BY DEF KeepsElements, Occupied
    <3>1. pos_write = Slot(curr_len) /\ curr_len < DataNum
      BY <2>1, <2>3 DEF WriteStore, CursorsAgree, TypeOK
    <3>2. Slot(i) # pos_write /\ Slot(i) \in Slots
      BY <2>1, <3>1, SlotInjective DEF TypeOK
    <3>3. buffer'[Slot(i)] = buffer[Slot(i)]
      BY <2>1, <2>3, <3>2 DEF WriteStore, TypeOK
    <3>4. Slot(i)' = Slot(i) /\ i \in 0 .. curr_len' - 1
      BY <2>1, <2>3 DEF WriteStore, Slot, TypeOK
    <3> QED
      BY <3>3, <3>4 DEF Occupied, Slot
  <2>4. ASSUME NEW r \in Readers, ReadCopy(r) PROVE KeepsElements
    <3> SUFFICES ASSUME NEW i \in 0 .. curr_len - 1
                 PROVE  \/ Slot(i) \in Occupied' /\ buffer'[Slot(i)] = buffer[Slot(i)]
                        \/ data'[r] = buffer[Slot(i)]
      BY <2>1, <2>4 DEF KeepsElements, Occupied, ReadCopy, Goto, TypeOK, Threads
    <3>1. curr_len > 0 /\ buffer' = buffer
      BY <2>1, <2>4 DEF ReadCopy, TypeOK
    <3>2. CASE i = 0
      BY <2>1, <2>4, <3>1, <3>2 DEF ReadCopy, Slot, TypeOK, Slots, Threads
    <3>3. CASE i # 0
      <4>1. Slot(i) = Slot(i - 1)' /\ i - 1 \in 0 .. curr_len' - 1
        BY <2>1, <2>4, <3>1, <3>3, SlotShift DEF ReadCopy, TypeOK
      <4> QED
        BY <3>1, <4>1 DEF Occupied, Slot
    <3> QED
      BY <3>2, <3>3
  <2> QED
    BY <2>2, <2>3, <2>4
       DEF Next, Write, Read, SemCall, WriteCall, WriteLock, WriteFull, WritePost,
           WriteUnlock, ReadCall, SemTake, SemBlock, SemFail, ReadLock, ReadUnlock,
           Lock, Unlock, vars
<1> QED
  BY <1>1, InvariantHolds, PTL DEF Spec, NoElementLost

----------------------------------------------------------------------------
(* The ring implements the bounded queue.                                  *)

\* What a reader's ret holds at each point of its call.
ReadRet ==
    \A r \in Readers :
        /\ pc[r] \in Trying \cup Blocked => ret[r] = -1
        /\ pc[r] \in {"read_lock", "read_copy", "read_unlock"} => ret[r] = 0

\* ReadRet is inductive relative to the types.
LEMMA ReadRetHolds == Spec => []ReadRet
<1>1. Init => ReadRet
  BY DEF Init, ReadRet, Threads, Trying, Blocked
<1>2. TypeOK /\ ReadRet /\ [Next]_vars => ReadRet'
  <2> SUFFICES ASSUME TypeOK, ReadRet, [Next]_vars PROVE ReadRet'
    OBVIOUS
  <2> USE DEF TypeOK, ReadRet, Threads, Goto, Trying, Blocked
  <2>1. ASSUME NEW w \in Writers, WriteCall(w) \/ Write(w) PROVE ReadRet'
    BY <2>1 DEF Write, WriteCall, WriteLock, WriteFull, WriteStore, WritePost,
                WriteUnlock, Lock, Unlock
  <2>2. ASSUME NEW r \in Readers, ReadCall(r) \/ SemCall(r) PROVE ReadRet'
    BY <2>2 DEF ReadCall, SemCall, SemTake, SemBlock, SemFail
  <2>3. ASSUME NEW r \in Readers, ReadLock(r) \/ ReadCopy(r) \/ ReadUnlock(r)
        PROVE  ReadRet'
    BY <2>3 DEF ReadLock, ReadCopy, ReadUnlock, Lock, Unlock
  <2>4. CASE UNCHANGED vars
    BY <2>4 DEF vars
  <2> QED
    BY <2>1, <2>2, <2>3, <2>4 DEF Next, Read
<1> QED
  BY <1>1, <1>2, TypeCorrect, PTL DEF Spec

\* The stretch of occupied slots, read from pos_read on, is a sequence.
FifoIsRing ==
    /\ Fifo \in Seq(Data)
    /\ Len(Fifo) = curr_len
    /\ \A i \in 1 .. curr_len : Fifo[i] = buffer[Slot(i - 1)]

LEMMA FifoType == TypeOK => FifoIsRing
<1> SUFFICES ASSUME TypeOK PROVE FifoIsRing
  OBVIOUS
<1>1. \A i \in 1 .. curr_len : buffer[Slot(i - 1)] \in Data
  BY DEF TypeOK, Slot, Slots
<1> QED
  BY <1>1 DEF FifoIsRing, Fifo, TypeOK

LEMMA FifoTypeNext == TypeOK' => FifoIsRing'
BY FifoType, PTL

\* A step that leaves the ring alone leaves the sequence alone.
LEMMA FifoUnchanged == UNCHANGED ring => Fifo' = Fifo
BY DEF ring, Fifo, Slot

\* A step of one thread moves the phase of that thread only.
LEMMA PhaseStep ==
    ASSUME TypeOK, NEW t \in Threads, NEW l, Goto(t, l)
    PROVE  Phase' = [Phase EXCEPT ![t] = PhaseOf(l)]
<1>1. \A u \in Threads : pc'[u] = IF u = t THEN l ELSE pc[u]
  BY DEF TypeOK, Goto
<1>2. Phase' = [u \in Threads |-> PhaseOf(pc'[u])]
  BY DEF Phase, PhaseOf
<1> QED
  BY <1>1, <1>2, Zenon DEF Phase

\* A step that stays within a phase is not seen.
LEMMA PhaseSame ==
    ASSUME TypeOK, NEW t \in Threads, NEW l, Goto(t, l), PhaseOf(l) = PhaseOf(pc[t])
    PROVE  Phase' = Phase
<1>1. \A u \in Threads : PhaseOf(pc'[u]) = PhaseOf(pc[u])
  BY Zenon DEF TypeOK, Goto
<1>2. Phase' = [u \in Threads |-> PhaseOf(pc'[u])]
  BY DEF Phase, PhaseOf
<1> QED
  BY <1>1, <1>2 DEF Phase

(***************************************************************************)
(* The refinement mapping turns the initial state and every step of the    *)
(* ring into an initial state and a step, or a stutter, of BoundedFifo.    *)
(***************************************************************************)
LEMMA InitRefines == Init => BF!Init
<1> SUFFICES ASSUME Init PROVE BF!Init
  OBVIOUS
<1>1. TypeOK
  BY InitIInv DEF IInv
<1>2. Fifo = <<>>
  BY <1>1, FifoType DEF Init, FifoIsRing
<1>3. Phase = [t \in Threads |-> "idle"]
  BY DEF Init, Phase, PhaseOf
<1>4. Outcome = [t \in Threads |-> -1]
  BY DEF Init, Outcome
<1> QED
  BY <1>2, <1>3, <1>4 DEF Init, BF!Init, BF!Threads, Threads

LEMMA NextRefines == IInv /\ ReadRet /\ ReadRet' /\ [Next]_vars => [BF!Next]_BF!vars
<1> SUFFICES ASSUME IInv, ReadRet, ReadRet', [Next]_vars PROVE [BF!Next]_BF!vars
  OBVIOUS
<1>0. TypeOK /\ TypeOK' /\ CursorsAgree
  BY NextIInv DEF IInv
<1>00. FifoIsRing /\ FifoIsRing'
  BY <1>0, FifoType, FifoTypeNext
<1> USE <1>0, <1>00
<1>1. ASSUME NEW w \in Writers, WriteCall(w) PROVE BF!InvokeWrite(w)
  <2>1. Phase' = [Phase EXCEPT ![w] = "called"] /\ Phase[w] = "idle"
    <3>1. PhaseOf("write_lock") = "called"
      BY DEF PhaseOf
    <3>2. Phase' = [Phase EXCEPT ![w] = "called"]
      BY <1>1, <3>1, PhaseStep DEF WriteCall, Threads
    <3> QED
      BY <1>1, <3>2 DEF WriteCall, Phase, PhaseOf, Threads
  <2>2. Outcome' = [Outcome EXCEPT ![w] = -1]
    BY <1>1 DEF WriteCall, Outcome, Goto, TypeOK, Threads
  <2> QED
    BY <1>1, <2>1, <2>2, FifoUnchanged DEF WriteCall, BF!InvokeWrite, BF!Invoke
<1>2. ASSUME NEW w \in Writers, WriteLock(w) PROVE UNCHANGED BF!vars
  <2>1. Phase' = Phase
    BY <1>2, PhaseSame DEF WriteLock, Lock, PhaseOf, Threads
  <2>2. Outcome' = Outcome
    BY <1>2 DEF WriteLock, Lock, Outcome, Goto, TypeOK, Threads
  <2> QED
    BY <1>2, <2>1, <2>2, FifoUnchanged DEF WriteLock, Lock, BF!vars
<1>3. ASSUME NEW w \in Writers, WriteFull(w) PROVE BF!Refuse(w)
  <2>1. Phase' = [Phase EXCEPT ![w] = "idle"] /\ Phase[w] = "called"
    BY <1>3, PhaseStep DEF WriteFull, Unlock, Phase, PhaseOf, Threads
  <2>2. Outcome' = Outcome
    BY <1>3 DEF WriteFull, Unlock, Outcome, Goto, TypeOK, Threads
  <2>3. Len(Fifo) = DataNum
    BY <1>3 DEF FifoIsRing, WriteFull, TypeOK
  <2> QED
    BY <1>3, <2>1, <2>2, <2>3, FifoUnchanged DEF WriteFull, Unlock, BF!Refuse
<1>4. ASSUME NEW w \in Writers, WriteStore(w) PROVE BF!Put(w)
  <2>1. Phase' = [Phase EXCEPT ![w] = "done"] /\ Phase[w] = "called"
    BY <1>4, PhaseStep DEF WriteStore, Phase, PhaseOf, Threads
  <2>2. Outcome' = [Outcome EXCEPT ![w] = 0]
    BY <1>4 DEF WriteStore, Outcome, Goto, TypeOK, Threads
  <2>3. Len(Fifo) = curr_len /\ Len(Fifo') = curr_len + 1 /\ curr_len < DataNum
    BY <1>4 DEF FifoIsRing, WriteStore, TypeOK
  <2>4. ASSUME NEW i \in 1 .. curr_len PROVE Fifo'[i] = Fifo[i]
    <3>1. pos_write = Slot(curr_len) /\ curr_len < DataNum
      BY <1>4 DEF WriteStore, CursorsAgree, TypeOK
    <3>2. Slot(i - 1) # pos_write /\ Slot(i - 1) \in Slots
      BY <3>1, SlotInjective DEF TypeOK
    <3>3. Fifo'[i] = buffer'[Slot(i - 1)]
      BY <1>4 DEF FifoIsRing, WriteStore, Slot, TypeOK
    <3> QED
      BY <1>4, <3>2, <3>3 DEF FifoIsRing, WriteStore, TypeOK
  <2>5. Fifo'[curr_len + 1] = data[w]
    <3>1. pos_write = Slot(curr_len)
      BY <1>4 DEF WriteStore, CursorsAgree, TypeOK
    <3>2. Fifo'[curr_len + 1] = buffer'[Slot(curr_len)]
      BY <1>4 DEF FifoIsRing, WriteStore, Slot, TypeOK
    <3> QED
      BY <1>4, <3>1, <3>2 DEF WriteStore, TypeOK
  <2>6. Fifo' = Append(Fifo, data[w])
    <3> DEFINE appended == Append(Fifo, data[w])
    <3>1. Fifo \in Seq(Data) /\ Fifo' \in Seq(Data) /\ data[w] \in Data
      BY DEF FifoIsRing, TypeOK, Threads
    <3>2. /\ appended \in Seq(Data)
          /\ Len(appended) = curr_len + 1
          /\ \A i \in 1 .. curr_len : appended[i] = Fifo[i]
          /\ appended[curr_len + 1] = data[w]
      BY <2>3, <3>1, AppendProperties
    <3>3. \A i \in 1 .. curr_len + 1 : Fifo'[i] = appended[i]
      BY <2>4, <2>5, <3>2 DEF TypeOK
    <3> QED
      BY <2>3, <3>1, <3>2, <3>3, SeqEqual
  <2> QED
    BY <1>4, <2>1, <2>2, <2>3, <2>6 DEF WriteStore, BF!Put
<1>5. ASSUME NEW w \in Writers, WritePost(w) \/ WriteUnlock(w)
      PROVE  UNCHANGED BF!vars \/ BF!Return(w)
  <2>1. CASE WritePost(w)
    <3>1. Phase' = Phase
      BY <2>1, PhaseSame DEF WritePost, PhaseOf, Threads
    <3>2. Outcome' = Outcome
      BY <2>1 DEF WritePost, Outcome, Goto, TypeOK, Threads
    <3> QED
      BY <2>1, <3>1, <3>2, FifoUnchanged DEF WritePost, BF!vars
  <2>2. CASE WriteUnlock(w)
    <3>1. Phase' = [Phase EXCEPT ![w] = "idle"] /\ Phase[w] = "done"
      BY <2>2, PhaseStep DEF WriteUnlock, Unlock, Phase, PhaseOf, Threads
    <3>2. Outcome' = Outcome
      BY <2>2 DEF WriteUnlock, Unlock, Outcome, Goto, TypeOK, Threads
    <3> QED
      BY <2>2, <3>1, <3>2, FifoUnchanged DEF WriteUnlock, Unlock, BF!Return
  <2> QED
    BY <1>5, <2>1, <2>2
<1>6. ASSUME NEW r \in Readers, ReadCall(r) PROVE BF!InvokeRead(r)
  <2>0. PICK call \in Trying : Goto(r, call)
    BY <1>6 DEF ReadCall
  <2>1. Phase' = [Phase EXCEPT ![r] = "called"] /\ Phase[r] = "idle"
    BY <1>6, <2>0, PhaseStep DEF ReadCall, Phase, PhaseOf, Threads, Trying
  <2>2. Outcome' = [Outcome EXCEPT ![r] = -1]
    BY <1>6, <2>0 DEF ReadCall, Outcome, Goto, TypeOK, Threads, Trying
  <2> QED
    BY <1>6, <2>1, <2>2, FifoUnchanged DEF ReadCall, BF!InvokeRead, BF!Invoke
<1>7. ASSUME NEW r \in Readers, SemTake(r) \/ SemBlock(r) \/ ReadLock(r)
      PROVE  UNCHANGED BF!vars
  <2>0. PICK l \in {"read_lock", "read_copy"} \cup Blocked : Goto(r, l)
    BY <1>7 DEF SemTake, SemBlock, ReadLock, Lock, Blocked
  <2>1. pc[r] \in Trying \cup Blocked \cup {"read_lock"}
    BY <1>7 DEF SemTake, SemBlock, ReadLock, Lock, Trying
  <2>2. Phase' = Phase
    BY <2>0, <2>1, PhaseSame DEF PhaseOf, Threads, Trying, Blocked
  <2>3. Outcome[r] = -1
    BY <2>1 DEF Outcome, ReadRet, Threads, Trying, Blocked
  <2>4. Outcome'[r] = -1
    <3>1. pc'[r] = l
      BY <2>0 DEF Goto, TypeOK, Threads
    <3> QED
      BY <3>1 DEF Outcome, ReadRet, Threads, Blocked
  <2>5. \A t \in Threads : t # r => Outcome'[t] = Outcome[t]
    BY <1>7 DEF SemTake, SemBlock, ReadLock, Lock, Outcome, Goto, TypeOK, Threads
  <2>6. Outcome' = Outcome
    BY <2>3, <2>4, <2>5 DEF Outcome
  <2> QED
    BY <1>7, <2>2, <2>6, FifoUnchanged DEF SemTake, SemBlock, ReadLock, Lock, BF!vars
<1>8. ASSUME NEW r \in Readers, SemFail(r) PROVE BF!GiveUp(r)
  <2>1. Phase' = [Phase EXCEPT ![r] = "idle"] /\ Phase[r] = "called"
    BY <1>8, PhaseStep DEF SemFail, Phase, PhaseOf, Threads, Blocked
  <2>2. Outcome' = Outcome
    BY <1>8 DEF SemFail, Outcome, Goto, TypeOK, Threads, Blocked
  <2> QED
    BY <1>8, <2>1, <2>2, FifoUnchanged DEF SemFail, BF!GiveUp
<1>9. ASSUME NEW r \in Readers, ReadCopy(r) PROVE BF!Take(r)
  <2>1. Phase' = [Phase EXCEPT ![r] = "done"] /\ Phase[r] = "called"
    BY <1>9, PhaseStep DEF ReadCopy, Phase, PhaseOf, Threads
  <2>2. Outcome' = [Outcome EXCEPT ![r] = 0]
    BY <1>9 DEF ReadCopy, ReadRet, Outcome, Goto, TypeOK, Threads
  <2>3. curr_len > 0
    <3>1. r \in Claims
      BY <1>9 DEF ReadCopy, Claims
    <3>2. Cardinality(Claims) >= 1
      BY <3>1, ThreadSetsFinite, MemberCounts
    <3> QED
      BY <3>2, ThreadSetsFinite DEF IInv, SemaphoreCountsElements, TypeOK
  <2>4. Fifo # <<>> /\ Head(Fifo) = buffer[pos_read]
    BY <2>3 DEF FifoIsRing, Slot, TypeOK, Slots
  <2>5. Len(Fifo) = curr_len /\ Len(Fifo') = curr_len - 1
    BY <1>9, <2>3 DEF FifoIsRing, ReadCopy, TypeOK
  <2>6. ASSUME NEW i \in 1 .. curr_len - 1 PROVE Fifo'[i] = Fifo[i + 1]
    <3>1. Slot(i - 1)' = Slot(i)
      BY <1>9, <2>3, SlotShift DEF TypeOK
    <3>2. Fifo'[i] = buffer'[Slot(i - 1)']
      BY <1>9, <2>3 DEF FifoIsRing, ReadCopy, TypeOK
    <3>3. Fifo[i + 1] = buffer[Slot(i)]
      BY DEF FifoIsRing, TypeOK
    <3> QED
      BY <1>9, <3>1, <3>2, <3>3 DEF ReadCopy
  <2>7. Fifo' = Tail(Fifo)
    <3>1. Fifo \in Seq(Data) /\ Fifo' \in Seq(Data)
      BY DEF FifoIsRing
    <3>2. /\ Tail(Fifo) \in Seq(Data)
          /\ Len(Tail(Fifo)) = curr_len - 1
          /\ \A i \in 1 .. curr_len - 1 : Tail(Fifo)[i] = Fifo[i + 1]
      BY <2>4, <2>5, <3>1, HeadTailProperties
    <3> QED
      BY <2>5, <2>6, <3>1, <3>2, SeqEqual
  <2> QED
    BY <1>9, <2>1, <2>2, <2>3, <2>4, <2>7 DEF ReadCopy, BF!Take
<1>10. ASSUME NEW r \in Readers, ReadUnlock(r) PROVE BF!Return(r)
  <2>1. Phase' = [Phase EXCEPT ![r] = "idle"] /\ Phase[r] = "done"
    BY <1>10, PhaseStep DEF ReadUnlock, Unlock, Phase, PhaseOf, Threads
  <2>2. Outcome' = Outcome
    BY <1>10 DEF ReadUnlock, Unlock, Outcome, Goto, TypeOK, Threads
  <2> QED
    BY <1>10, <2>1, <2>2, FifoUnchanged DEF ReadUnlock, Unlock, BF!Return
<1>11. CASE UNCHANGED vars
  BY <1>11, FifoUnchanged DEF vars, BF!vars, Phase, Outcome
<1> QED
  BY <1>1, <1>2, <1>3, <1>4, <1>5, <1>6, <1>7, <1>8, <1>9, <1>10, <1>11
     DEF Next, Write, Read, SemCall, BF!Next, BF!Threads

(***************************************************************************)
(* The ring with its mutex and semaphore implements the bounded queue:     *)
(* elements come out once, in the order they went in, and every call       *)
(* returns what it did, for any ring size and any number of threads.       *)
(***************************************************************************)
THEOREM RefinesBoundedFifo == Spec => ImplementsBoundedFifo
BY InitRefines, NextRefines, InvariantHolds, ReadRetHolds, PTL
   DEF Spec, ImplementsBoundedFifo, BF!Spec
=============================================================================
