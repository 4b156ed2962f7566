------------------------------ MODULE HeapUse ------------------------------
(***************************************************************************)
(* A program that uses one heap in every way its interface allows, as      *)
(* main/sample_minheap.c does in part: elements are pushed, popped, erased *)
(* from anywhere, and adjusted after their key has changed.  The heap is a *)
(* priority queue whatever the order of the calls.                         *)
(***************************************************************************)
EXTENDS MinHeap, FiniteSets

CONSTANTS Elements,     \* the elements
          Keys          \* the keys they are ordered by

ASSUME HeapUseAssumption == Keys \subseteq Int /\ Keys # {}

VARIABLES heap,         \* the heap
          key,          \* ev_timeout of each element
          queued,       \* ghost: the elements pushed and not yet removed
          popped        \* ghost: whether the last step was a pop, and of which element

vars == <<heap, key, queued, popped>>

NothingPopped == <<>>

Init ==
    /\ heap = EmptyHeap(Elements)
    /\ key \in [Elements -> Keys]
    /\ queued = {}
    /\ popped = NothingPopped

\* e is not in the heap: its key is set, and it is pushed.
DoPush(e) ==
    /\ e \notin queued
    /\ \E k \in Keys : key' = [key EXCEPT ![e] = k]
    /\ heap' = Push(heap, key', e)
    /\ queued' = queued \cup {e}
    /\ popped' = NothingPopped

DoPop ==
    /\ ~IsEmpty(heap)
    /\ heap' = Pop(heap, key)
    /\ queued' = queued \ {HeapTop(heap)}
    /\ popped' = <<HeapTop(heap)>>
    /\ UNCHANGED key

\* Erasing an element that is in no heap fails and changes nothing.
DoErase(e) ==
    /\ heap' = Erase(heap, key, e)
    /\ queued' = queued \ {e}
    /\ popped' = NothingPopped
    /\ UNCHANGED key

DoAdjust(e) ==
    /\ \E k \in Keys : key' = [key EXCEPT ![e] = k]
    /\ heap' = Adjust(heap, key', e)
    /\ queued' = queued \cup {e}
    /\ popped' = NothingPopped

Next == DoPop \/ \E e \in Elements : DoPush(e) \/ DoErase(e) \/ DoAdjust(e)

Spec == Init /\ [][Next]_vars

----------------------------------------------------------------------------
(***************************************************************************)
(* The array stays a heap through any sequence of operations; in           *)
(* particular erasing from the middle restores the order above the hole as *)
(* well as below it.                                                       *)
(***************************************************************************)
OrderKept == HeapOrdered(heap, key)

(***************************************************************************)
(* Every element's position is right after all the moves, and the heap     *)
(* holds exactly the elements that were put in and not taken out, once     *)
(* each.                                                                   *)
(***************************************************************************)
PositionsKept ==
    /\ Positioned(heap)
    /\ Members(heap) = queued
    /\ Len(heap.p) = Cardinality(queued)

(***************************************************************************)
(* A pop yields a least element of those queued at the time.               *)
(***************************************************************************)
PopsLeast == [][popped' # NothingPopped => \A e \in queued : key[popped'[1]] <= key[e]]_vars
=============================================================================
