----------------------------- MODULE TimerEvent -----------------------------
(***************************************************************************)
(* The timer of vpk/src/timer/timer_event.c: events with an absolute       *)
(* deadline wait in a min heap; the loop sleeps until the nearest one,     *)
(* moves every event whose deadline has passed to the active queue, and    *)
(* runs the callbacks of the active queue in order.  A persistent event is *)
(* put back into the heap before its callback runs.                        *)
(*                                                                         *)
(* Everything runs in the one thread that calls vpk_timer_loop: the calls  *)
(* of the library's user come before the loop and from callbacks.  Time    *)
(* passes between any two steps.  The clock is CLOCK_MONOTONIC where the   *)
(* system has it, so it never goes back; a step that reads it twice reads  *)
(* it once here.  An event becomes active only by its timeout (READ, WRITE *)
(* and SIGNAL events are declared and not implemented), so ev_result is    *)
(* left out; no event is INTERNAL; all have the one priority.  Memory does *)
(* not run out: minheap_reserve succeeds.                                  *)
(***************************************************************************)
EXTENDS MinHeap, FiniteSets, Functions

CONSTANTS Events,       \* the events, assigned to the timer
          Persistent,   \* those assigned with VPK_EV_PERSIST
          Delays,       \* the relative timeouts users ask for
          MaxTime,      \* bound: the clock stops here,
          Oversleep,    \* bound: and a sleep goes on for so long after it
          Garbage,      \* what an uninitialized tv may hold
          ReAddActive,  \* the events a user may add while they are active
          ReAddPending, \* the events a user may add while they are pending
          NoEvent       \* no callback is running

ASSUME TimerAssumption ==
    /\ Persistent \subseteq Events
    /\ Delays \subseteq Nat
    /\ MaxTime \in Nat /\ Oversleep \in Nat
    /\ Garbage \subseteq Nat
    /\ ReAddActive \subseteq Events
    /\ ReAddPending \subseteq Events
    /\ NoEvent \notin Events

VARIABLES clock,                \* what vpk_gettime returns
          heap,                 \* timeheap
          activequeue,          \* activequeues[0]
          event_count,          \* insertions into either queue, minus removals
          event_count_active,   \* insertions into the active queue, minus removals
          ev_flags,             \* of each event: TIMEOUT, ACTIVE
          ev_timeout,           \* of each event: the deadline, absolute
          ev_io_timeout,        \* of each event: the interval, if persistent
          pc,                   \* where the thread is
          now,                  \* timeout_process: the time all deadlines are compared with
          tv,                   \* vpk_timer_loop: how long to sleep
          wake,                 \* when select will return
          current               \* the event whose callback runs

timer  == <<heap, activequeue, event_count, event_count_active>>
events == <<ev_flags, ev_timeout, ev_io_timeout>>
loop   == <<pc, now, tv, wake, current>>
vars   == <<clock, timer, events, loop>>

\* Every event is fresh from vpk_event_assign; tv is an uninitialized local.
Init ==
    /\ clock = 0
    /\ heap = EmptyHeap(Events)
    /\ activequeue = <<>>
    /\ event_count = 0
    /\ event_count_active = 0
    /\ ev_flags = [e \in Events |-> {}]
    /\ ev_timeout = [e \in Events |-> 0]
    /\ ev_io_timeout = [e \in Events |-> 0]
    /\ pc = "setup"
    /\ now = 0
    /\ tv \in Garbage
    /\ wake = 0
    /\ current = NoEvent

----------------------------------------------------------------------------
(* Slips that the properties must notice; they are not part of the model,  *)
(* the mutants of PROJECT.json put them in the place of a definition of it.*)

\* the event is counted once, however many queues it is on
DeleteCountsOnce(e) ==
    /\ ev_flags' = [ev_flags EXCEPT ![e] = {}]
    /\ event_count' = event_count - 1
    /\ heap' = IF "TIMEOUT" \in ev_flags[e] THEN Erase(heap, ev_timeout, e) ELSE heap
    /\ IF "ACTIVE" \in ev_flags[e]
         THEN /\ activequeue' = SelectSeq(activequeue, LAMBDA x : x # e)
              /\ event_count_active' = event_count_active - 1
         ELSE UNCHANGED <<activequeue, event_count_active>>

\* a deleted event stays on the active queue
DeleteWaitingOnly(e) ==
    /\ ev_flags' = [ev_flags EXCEPT ![e] = @ \ {"TIMEOUT"}]
    /\ event_count' = event_count - Cardinality(ev_flags[e] \ {"ACTIVE"})
    /\ heap' = IF "TIMEOUT" \in ev_flags[e] THEN Erase(heap, ev_timeout, e) ELSE heap
    /\ UNCHANGED <<activequeue, event_count_active>>

\* the first deadline that is due ends the loop of timeout_process
TopDueStrict == ~IsEmpty(heap) /\ ev_timeout[HeapTop(heap)] < now

\* an event joins the front of the active queue
ActivateFirst(e) ==
    /\ heap' = Erase(heap, ev_timeout, e)
    /\ activequeue' = <<e>> \o SelectSeq(activequeue, LAMBDA x : x # e)
    /\ ev_flags' = [ev_flags EXCEPT ![e] = {"ACTIVE"}]
    /\ event_count' = event_count - Cardinality(ev_flags[e]) + 1
    /\ event_count_active' =
           event_count_active + IF "ACTIVE" \in ev_flags[e] THEN 0 ELSE 1

----------------------------------------------------------------------------
(* The queues.  The heap compares the deadlines it is given.               *)

\* event_queue_insert(ev, VPK_EVLIST_TIMEOUT): an event that is already there
\* is logged, and the heap left as it is.
InsertTimeout(e, deadlines) ==
    IF "TIMEOUT" \in ev_flags[e]
      THEN UNCHANGED <<heap, event_count, ev_flags>>
      ELSE /\ heap' = Push(heap, deadlines, e)
           /\ event_count' = event_count + 1
           /\ ev_flags' = [ev_flags EXCEPT ![e] = @ \cup {"TIMEOUT"}]

\* The active queue without e, which is on it once.
Unlinked(e) ==
    LET at == CHOOSE i \in DOMAIN activequeue : activequeue[i] = e
    IN  [i \in 1 .. Len(activequeue) - 1 |-> activequeue[IF i < at THEN i ELSE i + 1]]

\* event_del_internal: off the heap and off the active queue, wherever it is.
Delete(e) ==
    /\ ev_flags' = [ev_flags EXCEPT ![e] = {}]
    /\ event_count' = event_count - Cardinality(ev_flags[e])
    /\ heap' = IF "TIMEOUT" \in ev_flags[e] THEN Erase(heap, ev_timeout, e) ELSE heap
    /\ IF "ACTIVE" \in ev_flags[e]
         THEN /\ activequeue' = Unlinked(e)
              /\ event_count_active' = event_count_active - 1
         ELSE UNCHANGED <<activequeue, event_count_active>>

----------------------------------------------------------------------------
(* The user: before the loop, and in callbacks.                            *)

UserTurn == pc \in {"setup", "callback"}

(***************************************************************************)
(* vpk_timer_event_add with a relative timeout of d.  The deadline is set  *)
(* whether or not the event is pending already.                            *)
(***************************************************************************)
EventAdd(e, d) ==
    /\ UserTurn
    /\ "ACTIVE" \in ev_flags[e] => e \in ReAddActive
    /\ "TIMEOUT" \in ev_flags[e] => e \in ReAddPending
    /\ ev_io_timeout' = [ev_io_timeout EXCEPT ![e] = IF e \in Persistent THEN d ELSE @]
    /\ ev_timeout' = [ev_timeout EXCEPT ![e] = clock + d]
    /\ InsertTimeout(e, ev_timeout')
    /\ UNCHANGED <<clock, activequeue, event_count_active, loop>>

EventDel(e) ==
    /\ UserTurn
    /\ Delete(e)
    /\ UNCHANGED <<clock, ev_timeout, ev_io_timeout, loop>>

----------------------------------------------------------------------------
(* vpk_timer_loop                                                          *)

StartLoop ==
    /\ pc = "setup"
    /\ pc' = "sleep_time"
    /\ UNCHANGED <<clock, timer, events, now, tv, wake, current>>

\* (slip) the deadline is taken for a time to sleep
TimeoutNextAbsolute ==
    /\ pc = "sleep_time"
    /\ tv' = IF event_count_active > 0 THEN 0
             ELSE IF IsEmpty(heap) THEN tv ELSE ev_timeout[HeapTop(heap)]
    /\ pc' = "select"
    /\ UNCHANGED <<clock, timer, events, now, wake, current>>

\* (slip) tv is not cleared for an event that is due already
TimeoutNextStale ==
    /\ pc = "sleep_time"
    /\ tv' = IF event_count_active > 0 THEN 0
             ELSE IF IsEmpty(heap) \/ ev_timeout[HeapTop(heap)] <= clock THEN tv
             ELSE ev_timeout[HeapTop(heap)] - clock
    /\ pc' = "select"
    /\ UNCHANGED <<clock, timer, events, now, wake, current>>

\* timeout_next: without an event in the heap, tv keeps what it holds and is
\* used all the same.
TimeoutNext ==
    /\ pc = "sleep_time"
    /\ tv' = IF event_count_active > 0 THEN 0
             ELSE IF IsEmpty(heap) THEN tv
             ELSE IF ev_timeout[HeapTop(heap)] <= clock THEN 0
             ELSE ev_timeout[HeapTop(heap)] - clock
    /\ pc' = "select"
    /\ UNCHANGED <<clock, timer, events, now, wake, current>>

Select ==
    /\ pc = "select"
    /\ wake' = clock + tv
    /\ pc' = "selecting"
    /\ UNCHANGED <<clock, timer, events, now, tv, current>>

\* select returns in time, or early because of a signal; Linux leaves in tv
\* the time that was left.
SelectReturns ==
    /\ pc = "selecting"
    /\ tv' = IF clock >= wake THEN 0 ELSE wake - clock
    /\ pc' = "timeout_process"
    /\ UNCHANGED <<clock, timer, events, now, wake, current>>

ReadNow ==
    /\ pc = "timeout_process"
    /\ now' = clock
    /\ pc' = "expire"
    /\ UNCHANGED <<clock, timer, events, tv, wake, current>>

\* The test of the loop in timeout_process
TopDue == ~IsEmpty(heap) /\ ev_timeout[HeapTop(heap)] <= now

\* The event leaves every queue it is on and joins the end of the active queue.
Activate(e) ==
    /\ heap' = IF "TIMEOUT" \in ev_flags[e] THEN Erase(heap, ev_timeout, e) ELSE heap
    /\ activequeue' = Append(IF "ACTIVE" \in ev_flags[e] THEN Unlinked(e) ELSE activequeue, e)
    /\ ev_flags' = [ev_flags EXCEPT ![e] = {"ACTIVE"}]
    /\ event_count' = event_count - Cardinality(ev_flags[e]) + 1
    /\ event_count_active' =
           event_count_active + IF "ACTIVE" \in ev_flags[e] THEN 0 ELSE 1

Expire ==
    /\ pc = "expire"
    /\ TopDue
    /\ Activate(HeapTop(heap))
    /\ UNCHANGED <<clock, ev_timeout, ev_io_timeout, loop>>

ExpireDone ==
    /\ pc = "expire"
    /\ ~TopDue
    /\ pc' = "process"
    /\ UNCHANGED <<clock, timer, events, now, tv, wake, current>>

(***************************************************************************)
(* event_persist_closure: the next deadline is one interval after the last *)
(* one, or after now if that is past already.                              *)
(***************************************************************************)
RunAt(e) ==
    IF ev_timeout[e] + ev_io_timeout[e] < clock
      THEN clock + ev_io_timeout[e]
      ELSE ev_timeout[e] + ev_io_timeout[e]

\* Off the active queue only; a persistent event is not on the heap then,
\* unless a callback has added it meanwhile.
Rearm(e) ==
    /\ event_count_active' = event_count_active - 1
    /\ IF ev_io_timeout[e] = 0
         THEN /\ ev_flags' = [ev_flags EXCEPT ![e] = @ \ {"ACTIVE"}]
              /\ event_count' = event_count - 1
              /\ UNCHANGED <<heap, ev_timeout>>
         ELSE LET deadlines == [ev_timeout EXCEPT ![e] = RunAt(e)]
              IN  /\ ev_timeout' = deadlines
                  /\ ev_flags' = [ev_flags EXCEPT ![e] = {"TIMEOUT"}]
                  /\ IF "TIMEOUT" \in ev_flags[e]
                       THEN heap' = heap /\ event_count' = event_count - 1
                       ELSE heap' = Push(heap, deadlines, e) /\ UNCHANGED event_count

\* event_process_active_single_queue, up to the call of the callback
Process ==
    /\ pc = "process"
    /\ activequeue # <<>>
    /\ LET e == Head(activequeue)
       IN  /\ IF e \in Persistent
                THEN activequeue' = Tail(activequeue) /\ Rearm(e)
                ELSE Delete(e) /\ UNCHANGED ev_timeout
           /\ current' = e
    /\ pc' = "callback"
    /\ UNCHANGED <<clock, ev_io_timeout, now, tv, wake>>

CallbackReturns ==
    /\ pc = "callback"
    /\ pc' = "process"
    /\ current' = NoEvent
    /\ UNCHANGED <<clock, timer, events, now, tv, wake>>

ProcessDone ==
    /\ pc = "process"
    /\ activequeue = <<>>
    /\ pc' = "sleep_time"
    /\ UNCHANGED <<clock, timer, events, now, tv, wake, current>>

\* Past the bound only a sleep that has begun goes on.
Tick ==
    /\ clock < MaxTime \/ (pc = "selecting" /\ clock < wake /\ clock < MaxTime + Oversleep)
    /\ clock' = clock + 1
    /\ UNCHANGED <<timer, events, loop>>

(***************************************************************************)
(* vpk_timer_destroy takes every event off the heap and the active queue,  *)
(* which is empty outside the loop; the loop never returns, so this is     *)
(* before it.  vpk_timer_create and vpk_event_assign begin anew.           *)
(***************************************************************************)
DestroyBegin ==
    /\ pc = "setup"
    /\ pc' = "destroying"
    /\ UNCHANGED <<clock, timer, events, now, tv, wake, current>>

DestroyOne ==
    /\ pc = "destroying"
    /\ ~IsEmpty(heap)
    /\ Delete(HeapTop(heap))
    /\ UNCHANGED <<clock, ev_timeout, ev_io_timeout, loop>>

Create ==
    /\ pc = "destroying"
    /\ IsEmpty(heap)
    /\ heap' = EmptyHeap(Events)
    /\ activequeue' = <<>>
    /\ event_count' = 0
    /\ event_count_active' = 0
    /\ ev_flags' = [e \in Events |-> {}]
    /\ ev_io_timeout' = [e \in Events |-> IF e \in Persistent THEN 0 ELSE ev_io_timeout[e]]
    /\ pc' = "setup"
    /\ UNCHANGED <<clock, ev_timeout, now, tv, wake, current>>

----------------------------------------------------------------------------
User == \E e \in Events : EventDel(e) \/ \E d \in Delays : EventAdd(e, d)

LoopStep ==
    \/ TimeoutNext \/ Select \/ SelectReturns \/ ReadNow
    \/ Expire \/ ExpireDone \/ Process \/ CallbackReturns \/ ProcessDone

Manage == StartLoop \/ DestroyBegin \/ DestroyOne \/ Create

Next == Tick \/ User \/ Manage \/ LoopStep

Spec == Init /\ [][Next]_vars

(***************************************************************************)
(* Fairness.  The thread runs, callbacks return, time passes and select    *)
(* ends when its time is up, and need not end before: no signal has to     *)
(* arrive.  A sleep that reaches past the bounds of the clock is one       *)
(* without an end.  The user starts the loop.                              *)
(***************************************************************************)
TimeIsUp == clock >= wake

FairSpec ==
    /\ Spec
    /\ WF_vars(Tick)
    /\ WF_vars(Manage)
    /\ WF_vars(LoopStep /\ (pc = "selecting" => TimeIsUp))

----------------------------------------------------------------------------
(* Properties                                                              *)

Pending == {e \in Events : "TIMEOUT" \in ev_flags[e]}
Active  == {e \in Events : "ACTIVE" \in ev_flags[e]}

TypeOK ==
    /\ clock \in 0 .. MaxTime + Oversleep
    /\ heap.p \in Seq(Events)
    /\ activequeue \in Seq(Events)
    /\ event_count \in Nat
    /\ event_count_active \in Nat
    /\ ev_flags \in [Events -> SUBSET {"TIMEOUT", "ACTIVE"}]
    /\ ev_timeout \in [Events -> Nat]
    /\ ev_io_timeout \in [Events -> Delays \cup {0}]
    /\ pc \in {"setup", "destroying", "sleep_time", "select", "selecting",
               "timeout_process", "expire", "process", "callback"}
    /\ now \in 0 .. MaxTime + Oversleep
    /\ tv \in Nat
    /\ wake \in Nat
    /\ current \in Events \cup {NoEvent}

(***************************************************************************)
(* Flags, queues and counters tell one story, whatever callbacks add and   *)
(* delete while the queues are being emptied: an event is on a queue, once,*)
(* exactly when its flag says so, knows its place in the heap, and is      *)
(* counted once for every queue it is on.                                  *)
(***************************************************************************)
QueuesAgree ==
    /\ Positioned(heap)
    /\ Members(heap) = Pending /\ Len(heap.p) = Cardinality(Pending)
    /\ Range(activequeue) = Active /\ Len(activequeue) = Cardinality(Active)
    /\ event_count_active = Cardinality(Active)
    /\ event_count = Cardinality(Pending) + Cardinality(Active)

(***************************************************************************)
(* No event in the heap is due before its parent, as minheap_erase and     *)
(* minheap_adjust take for granted (vpk_minheap.h:117 and 138).            *)
(***************************************************************************)
HeapInOrder == HeapOrdered(heap, ev_timeout)

(***************************************************************************)
(* An event that is deleted is gone from the heap: timer_event.c:301,      *)
(* "delete this event from the queues".                                    *)
(***************************************************************************)
DeletedIsGone == Members(heap) \subseteq Pending

(***************************************************************************)
(* When timeout_process is done, no event that was due is left waiting,    *)
(* although it only ever looked at the top of the heap.                    *)
(***************************************************************************)
NoneOverlooked ==
    [][pc = "expire" /\ pc' = "process" => \A e \in Pending : ev_timeout[e] > now]_vars

(***************************************************************************)
(* Callbacks run in the order of their deadlines, and none before its      *)
(* deadline; an event that was added again meanwhile has a later one.      *)
(***************************************************************************)
ActiveInDeadlineOrder ==
    /\ \A i, j \in DOMAIN activequeue :
          i < j /\ {activequeue[i], activequeue[j]} \cap Pending = {}
              => ev_timeout[activequeue[i]] <= ev_timeout[activequeue[j]]
    /\ \A e \in Active \ Pending : ev_timeout[e] <= clock

(***************************************************************************)
(* The sleep that timeout_next computes (timer_event.c:263) does not reach *)
(* over the deadline of any event that waits, and there is none if one is  *)
(* due already; what a previous sleep has left in tv plays no part.        *)
(***************************************************************************)
SleepsUntilNext ==
    [][pc = "sleep_time" /\ pc' = "select" =>
          \A e \in Pending :
              clock + tv' <= IF ev_timeout[e] <= clock THEN clock ELSE ev_timeout[e]]_vars

\* TimerQueue moves all events that are due at once: those that are moved one by
\* one in timeout_process still count as waiting until the last one is.
Waiting  == IF pc = "expire" THEN Pending \cup Active ELSE Pending
Ready    == IF pc = "expire" THEN <<>> ELSE activequeue
Interval == [e \in Persistent |-> ev_io_timeout[e]]

TQ == INSTANCE TimerQueue WITH
        time <- clock, waiting <- Waiting, deadline <- ev_timeout,
        interval <- Interval, ready <- Ready, running <- current

(***************************************************************************)
(* The timer keeps the promise of TimerQueue: what is due runs together    *)
(* and in the order of the deadlines, what is deleted does not run, even   *)
(* from the active queue, and a persistent event waits again, for an       *)
(* interval at most, when its callback begins.                             *)
(***************************************************************************)
ImplementsTimerQueue == TQ!Spec

(***************************************************************************)
(* Every event that is due within the bounded time is taken off the heap:  *)
(* the loop wakes up for it, whatever tv held and however late it has      *)
(* called select, or its user has deleted it.                              *)
(***************************************************************************)
EveryDeadlineMet ==
    \A e \in Events : e \in Pending /\ ev_timeout[e] <= MaxTime ~> e \notin Pending
=============================================================================
