------------------------------- MODULE TQueue -------------------------------
(***************************************************************************)
(* The thread queue of vpk/src/vpk_tqueue.c: a ring of data_num slots      *)
(* shared by writer and reader threads.  A mutex protects the ring; a      *)
(* counting semaphore, posted by writers inside the critical section and   *)
(* awaited by readers before they enter it, counts the stored elements.    *)
(*                                                                         *)
(* One action is one stretch of code between two points where another      *)
(* thread can tell the difference: the mutex operations, the semaphore     *)
(* operations (which do not need the mutex), and the update of the ring.   *)
(***************************************************************************)
EXTENDS Integers, Sequences, FiniteSets

CONSTANTS Writers,      \* threads that call vpk_tqueue_write
          Readers,      \* threads that call vpk_tqueue_read
          Data,         \* the elements (data_size bytes each)
          DataNum,      \* data_num, the number of slots
          NoThread      \* the mutex is free

ASSUME TQueueAssumption ==
    /\ IsFiniteSet(Writers)
    /\ IsFiniteSet(Readers)
    /\ Writers \cap Readers = {}
    /\ NoThread \notin Writers \cup Readers
    /\ Data # {}
    /\ DataNum \in Nat \ {0}

VARIABLES buffer,       \* the slots
          pos_read,     \* the next slot to read
          pos_write,    \* the next slot to write
          curr_len,     \* how many slots are occupied
          queue_sem,    \* value of the semaphore
          queue_mutex,  \* owner of the mutex, or NoThread
          pc,           \* where each thread is
          data,         \* what each thread's data pointer refers to
          ret           \* what each thread's call returns, or returned last

ring == <<buffer, pos_read, pos_write, curr_len>>
vars == <<ring, queue_sem, queue_mutex, pc, data, ret>>

Threads == Writers \cup Readers
Slots   == 0 .. DataNum - 1

(***************************************************************************)
(* A reader inside the semaphore call is about to try (the timout argument *)
(* selects the call) or is blocked in it.  sem_trywait never blocks.       *)
(***************************************************************************)
Trying   == {"sem_trywait", "sem_timedwait", "sem_wait"}
Blocked  == {"blocked_timed", "blocked"}
WriterPC == {"idle", "write_lock", "write_check", "write_post", "write_unlock"}
ReaderPC == {"idle", "read_lock", "read_copy", "read_unlock"}
                \cup Trying \cup Blocked

\* malloc leaves the slots, and the caller its own buffers, as they happen to be.
Init ==
    /\ buffer \in [Slots -> Data]
    /\ pos_read = 0
    /\ pos_write = 0
    /\ curr_len = 0
    /\ queue_sem = 0
    /\ queue_mutex = NoThread
    /\ pc = [t \in Threads |-> "idle"]
    /\ data \in [Threads -> Data]
    /\ ret = [t \in Threads |-> -1]

Goto(t, l) == pc' = [pc EXCEPT ![t] = l]

Lock(t, from, to) ==
    /\ pc[t] = from
    /\ queue_mutex = NoThread
    /\ queue_mutex' = t
    /\ Goto(t, to)
    /\ UNCHANGED <<ring, queue_sem, data, ret>>

Unlock(t, from) ==
    /\ pc[t] = from
    /\ queue_mutex' = NoThread
    /\ Goto(t, "idle")
    /\ UNCHANGED <<ring, queue_sem, data, ret>>

(***************************************************************************)
(* Slips that the properties below must notice.  They are not part of the  *)
(* model: each has the parameters of the definition it could be mistaken   *)
(* for, and the mutants of PROJECT.json put it in that one's place.        *)
(***************************************************************************)
\* the wrap comes one slot too late
AdvanceLate(pos) == IF pos + 1 > DataNum THEN 0 ELSE pos + 1

\* the early return on a full queue forgets to unlock
WriteFullStillLocked(w) ==
    /\ curr_len >= DataNum
    /\ pc[w] = "write_check"
    /\ Goto(w, "idle")
    /\ UNCHANGED <<ring, queue_sem, queue_mutex, data, ret>>

\* no early return: a dropped element is posted all the same
WriteFullPosts(w) ==
    /\ curr_len >= DataNum
    /\ pc[w] = "write_check"
    /\ Goto(w, "write_post")
    /\ UNCHANGED <<ring, queue_sem, queue_mutex, data, ret>>

\* the test for a full queue admits one element too many
WriteStoreOverfull(w) ==
    /\ pc[w] = "write_check"
    /\ curr_len <= DataNum
    /\ buffer' = [buffer EXCEPT ![pos_write] = data[w]]
    /\ curr_len' = IF curr_len = DataNum THEN DataNum ELSE curr_len + 1
    /\ pos_write' = IF pos_write + 1 >= DataNum THEN 0 ELSE pos_write + 1
    /\ Goto(w, "write_post")
    /\ UNCHANGED <<pos_read, queue_sem, queue_mutex, data, ret>>

\* the element is stored but the semaphore is not posted
WritePostForgotten(w) ==
    /\ pc[w] = "write_post"
    /\ ret' = [ret EXCEPT ![w] = 0]
    /\ Goto(w, "write_unlock")
    /\ UNCHANGED <<ring, queue_sem, queue_mutex, data>>

\* a failed semaphore call is not returned from
SemFailIgnored(r) ==
    /\ \/ pc[r] = "sem_trywait" /\ queue_sem = 0
       \/ pc[r] \in Blocked
    /\ Goto(r, "read_lock")
    /\ UNCHANGED <<ring, queue_sem, queue_mutex, data, ret>>

\* pos++ and back to 0 at data_num
Advance(pos) == IF pos + 1 >= DataNum THEN 0 ELSE pos + 1

----------------------------------------------------------------------------
(* vpk_tqueue_write                                                        *)

WriteCall(w) ==
    /\ pc[w] = "idle"
    /\ \E d \in Data : data' = [data EXCEPT ![w] = d]
    /\ ret' = [ret EXCEPT ![w] = -1]
    /\ Goto(w, "write_lock")
    /\ UNCHANGED <<ring, queue_sem, queue_mutex>>

WriteLock(w) == Lock(w, "write_lock", "write_check")

\* The queue is full: the element is dropped and the caller told so.
WriteFull(w) ==
    /\ curr_len >= DataNum
    /\ Unlock(w, "write_check")

WriteStore(w) ==
    /\ pc[w] = "write_check"
    /\ curr_len < DataNum
    /\ buffer' = [buffer EXCEPT ![pos_write] = data[w]]
    /\ curr_len' = curr_len + 1
    /\ pos_write' = Advance(pos_write)
    /\ Goto(w, "write_post")
    /\ UNCHANGED <<pos_read, queue_sem, queue_mutex, data, ret>>

\* sem_post, still inside the critical section
WritePost(w) ==
    /\ pc[w] = "write_post"
    /\ queue_sem' = queue_sem + 1
    /\ ret' = [ret EXCEPT ![w] = 0]
    /\ Goto(w, "write_unlock")
    /\ UNCHANGED <<ring, queue_mutex, data>>

WriteUnlock(w) == Unlock(w, "write_unlock")

----------------------------------------------------------------------------
(* vpk_tqueue_read                                                         *)

ReadCall(r) ==
    /\ pc[r] = "idle"
    /\ \E call \in Trying : Goto(r, call)
    /\ ret' = [ret EXCEPT ![r] = -1]
    /\ UNCHANGED <<ring, queue_sem, queue_mutex, data>>

\* The semaphore call succeeds, at once or after having blocked.
SemTake(r) ==
    /\ pc[r] \in Trying \cup Blocked
    /\ queue_sem > 0
    /\ queue_sem' = queue_sem - 1
    /\ ret' = [ret EXCEPT ![r] = 0]
    /\ Goto(r, "read_lock")
    /\ UNCHANGED <<ring, queue_mutex, data>>

SemBlock(r) ==
    /\ queue_sem = 0
    /\ \/ pc[r] = "sem_timedwait" /\ Goto(r, "blocked_timed")
       \/ pc[r] = "sem_wait" /\ Goto(r, "blocked")
    /\ UNCHANGED <<ring, queue_sem, queue_mutex, data, ret>>

(***************************************************************************)
(* The semaphore call fails and read returns its -1: EAGAIN of an empty    *)
(* semaphore, ETIMEDOUT of a blocked timed wait (a post may just have come *)
(* too late to be noticed, so the semaphore need not be 0), or EINTR of a  *)
(* blocked wait.                                                           *)
(***************************************************************************)
SemFail(r) ==
    /\ \/ pc[r] = "sem_trywait" /\ queue_sem = 0
       \/ pc[r] \in Blocked
    /\ Goto(r, "idle")
    /\ UNCHANGED <<ring, queue_sem, queue_mutex, data, ret>>

ReadLock(r) == Lock(r, "read_lock", "read_copy")

(***************************************************************************)
(* An empty ring is passed over in silence: ret stays the 0 of the         *)
(* semaphore call and the caller's buffer is not written.                  *)
(***************************************************************************)
ReadCopy(r) ==
    /\ pc[r] = "read_copy"
    /\ IF curr_len > 0
         THEN /\ data' = [data EXCEPT ![r] = buffer[pos_read]]
              /\ curr_len' = curr_len - 1
              /\ pos_read' = Advance(pos_read)
         ELSE UNCHANGED <<data, curr_len, pos_read>>
    /\ Goto(r, "read_unlock")
    /\ UNCHANGED <<buffer, pos_write, queue_sem, queue_mutex, ret>>

ReadUnlock(r) == Unlock(r, "read_unlock")

----------------------------------------------------------------------------
Write(w) == WriteLock(w) \/ WriteFull(w) \/ WriteStore(w) \/ WritePost(w) \/ WriteUnlock(w)
SemCall(r) == SemTake(r) \/ SemBlock(r) \/ SemFail(r)
Read(r) == SemCall(r) \/ ReadLock(r) \/ ReadCopy(r) \/ ReadUnlock(r)

Next ==
    \/ \E w \in Writers : WriteCall(w) \/ Write(w)
    \/ \E r \in Readers : ReadCall(r) \/ Read(r)

Spec == Init /\ [][Next]_vars

(***************************************************************************)
(* Fairness.  A running thread keeps running; a timed wait ends (a plain   *)
(* wait need not be interrupted).  The mutex is contended for a few        *)
(* instructions at a time by threads that sleep between calls              *)
(* (main/tqueue_demo.c), so a thread that finds it free again and again    *)
(* gets it: strong fairness.  The reader thread of the demo reads in an    *)
(* endless loop; nothing makes a writer write.                             *)
(***************************************************************************)
Fairness ==
    /\ \A w \in Writers : WF_vars(Write(w)) /\ SF_vars(WriteLock(w))
    /\ \A r \in Readers :
          /\ WF_vars(ReadCall(r))
          /\ WF_vars(SemTake(r) \/ SemBlock(r) \/ (pc[r] # "blocked" /\ SemFail(r)))
          /\ WF_vars(ReadCopy(r) \/ ReadUnlock(r))
          /\ SF_vars(ReadLock(r))

FairSpec == Spec /\ Fairness

----------------------------------------------------------------------------
(* Properties                                                              *)

TypeOK ==
    /\ buffer \in [Slots -> Data]
    /\ pos_read \in Slots
    /\ pos_write \in Slots
    /\ curr_len \in 0 .. DataNum
    /\ queue_sem \in 0 .. DataNum
    /\ queue_mutex \in Threads \cup {NoThread}
    /\ pc \in [Threads -> WriterPC \cup ReaderPC]
    /\ \A w \in Writers : pc[w] \in WriterPC
    /\ \A r \in Readers : pc[r] \in ReaderPC
    /\ data \in [Threads -> Data]
    /\ ret \in [Threads -> {-1, 0}]

\* Readers that hold a unit of the semaphore and have not yet taken its element.
Claims == {r \in Readers : pc[r] \in {"read_lock", "read_copy"}}
\* Writers that have stored an element and not yet posted it.
Unposted == {w \in Writers : pc[w] = "write_post"}

(***************************************************************************)
(* The two counters of the queue agree: every stored element is either     *)
(* counted by the semaphore, or about to be posted by its writer, or       *)
(* claimed by exactly one reader that passed the semaphore.                *)
(***************************************************************************)
SemaphoreCountsElements ==
    queue_sem + Cardinality(Claims) + Cardinality(Unposted) = curr_len

(***************************************************************************)
(* A reader that passed the semaphore always finds an element, so a read   *)
(* that returns 0 has filled the caller's buffer, whatever other readers   *)
(* did between its semaphore call and its lock.                            *)
(***************************************************************************)
ClaimFindsElement == \A r \in Claims : curr_len > 0

(***************************************************************************)
(* The cursors and the count describe the same stretch of the ring.        *)
(***************************************************************************)
Slot(i) == IF pos_read + i >= DataNum THEN pos_read + i - DataNum ELSE pos_read + i
CursorsAgree == pos_write = IF curr_len = DataNum THEN pos_read ELSE Slot(curr_len)

\* The slots whose element has not been read.
Occupied == {Slot(i) : i \in 0 .. curr_len - 1}

(***************************************************************************)
(* No step of any thread changes an element that is stored and unread; a   *)
(* slot leaves the occupied stretch only by being delivered to a reader.   *)
(***************************************************************************)
KeepsElements ==
    \A s \in Occupied :
        \/ s \in Occupied' /\ buffer'[s] = buffer[s]
        \/ \E r \in Readers : /\ pc[r] = "read_copy"
                              /\ pc'[r] = "read_unlock"
                              /\ data'[r] = buffer[s]
NoElementLost == [][KeepsElements]_vars

(***************************************************************************)
(* The queue implements the bounded queue its header describes.            *)
(***************************************************************************)
Fifo == [i \in 1 .. curr_len |-> buffer[Slot(i - 1)]]

PhaseOf(l) ==
    CASE l = "idle" -> "idle"
      [] l \in {"write_post", "write_unlock", "read_unlock"} -> "done"
      [] OTHER -> "called"
Phase == [t \in Threads |-> PhaseOf(pc[t])]

\* The call takes effect when the ring changes, the writer's ret a little
\* later and the reader's a little earlier.
Outcome == [t \in Threads |->
              CASE pc[t] = "write_post" -> 0
                [] pc[t] \in {"read_lock", "read_copy"} -> -1
                [] OTHER -> ret[t]]

BF == INSTANCE BoundedFifo WITH
        Capacity <- DataNum, fifo <- Fifo, phase <- Phase, data <- data, ret <- Outcome

ImplementsBoundedFifo == BF!Spec

(***************************************************************************)
(* Every stored element is eventually delivered while readers keep         *)
(* reading, although any single read may time out or be interrupted.       *)
(***************************************************************************)
EveryElementDelivered == \A s \in Slots : s \in Occupied ~> s \notin Occupied

(***************************************************************************)
(* No call hangs: a write always returns (full or not), and so does a read *)
(* with a timeout or without waiting, even if nobody ever writes.          *)
(***************************************************************************)
WriteReturns == \A w \in Writers : pc[w] # "idle" ~> pc[w] = "idle"
BoundedReadReturns ==
    \A r \in Readers : pc[r] \in {"sem_trywait", "sem_timedwait"} ~> pc[r] = "idle"
=============================================================================
