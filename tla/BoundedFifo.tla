---------------------------- MODULE BoundedFifo ----------------------------
(***************************************************************************)
(* What a thread queue promises to its callers, without the ring buffer,   *)
(* the mutex and the semaphore that keep the promise.                      *)
(*                                                                         *)
(*   - a write that returns 0 has appended its element at the tail, once;  *)
(*   - a write that returns -1 met a full queue and has changed nothing;   *)
(*   - a read that returns 0 has removed the head and delivered it;        *)
(*   - a read that returns -1 has changed nothing.                         *)
(*                                                                         *)
(* A call takes effect in one step between its invocation and its return.  *)
(***************************************************************************)
EXTENDS Integers, Sequences

CONSTANTS Writers, Readers,   \* threads that call write, threads that call read
          Data,               \* the elements
          Capacity            \* the number of elements the queue holds

VARIABLES fifo,    \* the elements written and not yet read, oldest first
          phase,   \* where each thread's call stands
          data,    \* what each thread's data pointer refers to
          ret      \* what each thread's last call returned

vars == <<fifo, phase, data, ret>>

Threads == Writers \cup Readers

Init ==
    /\ fifo = <<>>
    /\ phase = [t \in Threads |-> "idle"]
    /\ data \in [Threads -> Data]
    /\ ret = [t \in Threads |-> -1]

Invoke(t) ==
    /\ phase[t] = "idle"
    /\ phase' = [phase EXCEPT ![t] = "called"]
    /\ ret' = [ret EXCEPT ![t] = -1]
    /\ fifo' = fifo

\* A writer brings the element to write; a reader brings an empty buffer.
InvokeWrite(w) ==
    /\ Invoke(w)
    /\ \E d \in Data : data' = [data EXCEPT ![w] = d]

InvokeRead(r) == Invoke(r) /\ UNCHANGED data

Put(w) ==
    /\ phase[w] = "called"
    /\ Len(fifo) < Capacity
    /\ fifo' = Append(fifo, data[w])
    /\ phase' = [phase EXCEPT ![w] = "done"]
    /\ ret' = [ret EXCEPT ![w] = 0]
    /\ UNCHANGED data

Refuse(w) ==
    /\ phase[w] = "called"
    /\ Len(fifo) = Capacity
    /\ phase' = [phase EXCEPT ![w] = "idle"]
    /\ UNCHANGED <<fifo, data, ret>>

Take(r) ==
    /\ phase[r] = "called"
    /\ fifo # <<>>
    /\ data' = [data EXCEPT ![r] = Head(fifo)]
    /\ fifo' = Tail(fifo)
    /\ phase' = [phase EXCEPT ![r] = "done"]
    /\ ret' = [ret EXCEPT ![r] = 0]

\* Nothing to read in time, or a signal: the caller is told so.
GiveUp(r) ==
    /\ phase[r] = "called"
    /\ phase' = [phase EXCEPT ![r] = "idle"]
    /\ UNCHANGED <<fifo, data, ret>>

Return(t) ==
    /\ phase[t] = "done"
    /\ phase' = [phase EXCEPT ![t] = "idle"]
    /\ UNCHANGED <<fifo, data, ret>>

Next ==
    \/ \E w \in Writers : InvokeWrite(w) \/ Put(w) \/ Refuse(w)
    \/ \E r \in Readers : InvokeRead(r) \/ Take(r) \/ GiveUp(r)
    \/ \E t \in Threads : Return(t)

Spec == Init /\ [][Next]_vars
=============================================================================
