----------------------------- MODULE TimerQueue -----------------------------
(***************************************************************************)
(* What the timer promises to its users, without the heap, the flags, the  *)
(* counters and the loop that keep the promise.                            *)
(*                                                                         *)
(*   - an event that is added waits, and is due after its delay;           *)
(*   - all events that are due at some moment become ready at once, in the *)
(*     order of their deadlines, and no other event does;                  *)
(*   - callbacks run one at a time, in the order in which their events     *)
(*     became ready, and each once for every time its event was ready;     *)
(*   - an event that is deleted neither waits nor runs, even if it was     *)
(*     ready already;                                                      *)
(*   - a persistent event waits again when its callback begins, for an     *)
(*     interval at most.                                                   *)
(***************************************************************************)
EXTENDS Integers, Sequences, FiniteSets, Functions

CONSTANTS Events,       \* the events
          Persistent,   \* those that are armed again each time they run
          Delays,       \* the delays and intervals users ask for
          NoEvent       \* no callback is running

VARIABLES time,       \* the clock
          waiting,    \* the events whose deadline has not been noticed
          deadline,   \* of each event: the time it was last due at
          interval,   \* of each persistent event; 0 is none
          ready,      \* the events whose callback is to run
          running     \* the event whose callback runs

vars == <<time, waiting, deadline, interval, ready, running>>

Init ==
    /\ time = 0
    /\ waiting = {}
    /\ deadline = [e \in Events |-> 0]
    /\ interval = [e \in Persistent |-> 0]
    /\ ready = <<>>
    /\ running = NoEvent

\* ready without what is at place i
ReadyWithout(i) == [j \in 1 .. Len(ready) - 1 |-> ready[IF j < i THEN j ELSE j + 1]]

\* The ways to line up the events of S, nearest deadline first
Arrangements(S) ==
    {q \in [1 .. Cardinality(S) -> S] :
        /\ Range(q) = S
        /\ \A i, j \in DOMAIN q : i < j => deadline[q[i]] <= deadline[q[j]]}

Advance ==
    /\ time' = time + 1
    /\ UNCHANGED <<waiting, deadline, interval, ready, running>>

\* An event that waits already, or is ready, gets the new deadline.
Add(e, d) ==
    /\ waiting' = waiting \cup {e}
    /\ deadline' = [deadline EXCEPT ![e] = time + d]
    /\ interval' = [x \in Persistent |-> IF x = e THEN d ELSE interval[x]]
    /\ UNCHANGED <<time, ready, running>>

Delete(e) ==
    /\ waiting' = waiting \ {e}
    /\ IF e \in Range(ready)
         THEN \E i \in DOMAIN ready : ready[i] = e /\ ready' = ReadyWithout(i)
         ELSE UNCHANGED ready
    /\ UNCHANGED <<time, deadline, interval, running>>

\* The moment is past when its events are ready: finding them takes time.
Collect ==
    /\ ready = <<>>
    /\ running = NoEvent
    /\ \E moment \in 0 .. time :
          LET due == {e \in waiting : deadline[e] <= moment}
          IN  waiting' = waiting \ due /\ ready' \in Arrangements(due)
    /\ UNCHANGED <<time, deadline, interval, running>>

\* A one-shot event is done with, also if it was added again meanwhile.
CallOnce(e) ==
    /\ e \notin Persistent
    /\ waiting' = waiting \ {e}
    /\ UNCHANGED deadline

\* Without an interval, there is nothing to wait for.
CallAgain(e) ==
    /\ e \in Persistent
    /\ IF interval[e] = 0
         THEN UNCHANGED <<waiting, deadline>>
         ELSE /\ waiting' = waiting \cup {e}
              /\ \E next \in time .. time + interval[e] :
                    deadline' = [deadline EXCEPT ![e] = next]

Call ==
    /\ ready # <<>>
    /\ running = NoEvent
    /\ running' = Head(ready)
    /\ ready' = Tail(ready)
    /\ CallOnce(Head(ready)) \/ CallAgain(Head(ready))
    /\ UNCHANGED <<time, interval>>

Return ==
    /\ running' = NoEvent
    /\ UNCHANGED <<time, waiting, deadline, interval, ready>>

\* The timer is destroyed and made anew.
Reset ==
    /\ waiting = {} /\ ready = <<>>
    /\ interval' = [e \in Persistent |-> 0]
    /\ UNCHANGED <<time, waiting, deadline, ready, running>>

Next ==
    \/ Advance \/ Collect \/ Call \/ Return \/ Reset
    \/ \E e \in Events : Delete(e) \/ \E d \in Delays : Add(e, d)

Spec == Init /\ [][Next]_vars
=============================================================================
