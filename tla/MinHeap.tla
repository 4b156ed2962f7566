------------------------------ MODULE MinHeap ------------------------------
(***************************************************************************)
(* The binary heap of vpk/inc/vpk_minheap.h (and, with a comparison        *)
(* callback in place of the time stamps, of vpk/inc/vpk_heap.h): an array  *)
(* of elements ordered by key, in which every element knows its position,  *)
(* so that it can be erased or moved from anywhere.                        *)
(*                                                                         *)
(* A heap is a record: p is the array, idx the elements' heap_idx fields.  *)
(* Positions count from 1 and idx is 0 for an element in no heap, where    *)
(* the code counts from 0 and writes -1: the parent (i-1)/2 of the code is *)
(* i \div 2 here, the left child 2i+1 is 2i.  n is Len(p); the growing     *)
(* allocation a is left out.                                               *)
(*                                                                         *)
(* Definitions marked (slip) are mistakes that the properties of HeapUse   *)
(* and TimerEvent must notice; they are not part of the model.             *)
(***************************************************************************)
EXTENDS Integers, Sequences

\* No element of E is in the heap.
EmptyHeap(E) == [p |-> <<>>, idx |-> [e \in E |-> 0]]

HeapTop(h) == h.p[1]
IsEmpty(h) == h.p = <<>>

Place(h, i, e) == [p |-> [h.p EXCEPT ![i] = e], idx |-> [h.idx EXCEPT ![e] = i]]
Forget(h, e) == [h EXCEPT !.idx[e] = 0]
Extend(h, e) == [h EXCEPT !.p = Append(h.p, e)]
Shrink(h) == [h EXCEPT !.p = SubSeq(h.p, 1, Len(h.p) - 1)]

(***************************************************************************)
(* The hole at i moves up past every greater parent, and e fills it.  The  *)
(* unconditional variant has compared e with the first parent already.     *)
(***************************************************************************)
ShiftUp(h, key, i, e) ==
    LET up[j \in 1 .. i] ==
            IF j > 1 /\ key[h.p[j \div 2]] > key[e]
              THEN Place(up[j \div 2], j, h.p[j \div 2])
              ELSE Place(h, j, e)
    IN  up[i]

ShiftUpUnconditional(h, key, i, e) ==
    Place(ShiftUp(h, key, i \div 2, e), i, h.p[i \div 2])

\* (slip) the hole always moves down to the left
ShiftDownLeft(h, key, n, i, e) ==
    LET down[j \in 1 .. n + 1] ==
            IF 2 * j <= n /\ key[e] > key[h.p[2 * j]]
              THEN Place(down[2 * j], j, h.p[2 * j])
              ELSE Place(h, j, e)
    IN  down[i]

(***************************************************************************)
(* The hole at i of a heap of n elements moves down past the smaller child *)
(* while that is less than e.                                              *)
(***************************************************************************)
ShiftDown(h, key, n, i, e) ==
    LET MinChild(j) ==
            IF 2 * j = n \/ key[h.p[2 * j + 1]] > key[h.p[2 * j]] THEN 2 * j ELSE 2 * j + 1
        down[j \in 1 .. n + 1] ==
            IF 2 * j <= n /\ key[e] > key[h.p[MinChild(j)]]
              THEN Place(down[MinChild(j)], j, h.p[MinChild(j)])
              ELSE Place(h, j, e)
    IN  down[i]

\* e goes up or down from the hole at i, whichever its key asks for.
Settle(h, key, n, i, e) ==
    IF i > 1 /\ key[h.p[i \div 2]] > key[e]
      THEN ShiftUpUnconditional(h, key, i, e)
      ELSE ShiftDown(h, key, n, i, e)

\* (slip) the new element stays at the end
PushUnordered(h, key, e) == Place(Extend(h, e), Len(h.p) + 1, e)

Push(h, key, e) == ShiftUp(Extend(h, e), key, Len(h.p) + 1, e)

\* The last element fills the hole at the top.
Pop(h, key) ==
    LET n == Len(h.p)
    IN  Forget(Shrink(ShiftDown(h, key, n - 1, 1, h.p[n])), h.p[1])

\* (slip) the last element always goes down, never up
EraseDownOnly(h, key, e) ==
    IF h.idx[e] = 0 THEN h ELSE
    LET n == Len(h.p)
    IN  Forget(Shrink(ShiftDown(h, key, n - 1, h.idx[e], h.p[n])), e)
\* (slip) the erased element keeps its position
EraseNotForgotten(h, key, e) ==
    IF h.idx[e] = 0 THEN h ELSE
    LET n == Len(h.p)
    IN  Shrink(Settle(h, key, n - 1, h.idx[e], h.p[n]))

\* The last element replaces e, wherever e is.
Erase(h, key, e) ==
    IF h.idx[e] = 0 THEN h ELSE
    LET n == Len(h.p)
    IN  Forget(Shrink(Settle(h, key, n - 1, h.idx[e], h.p[n])), e)

\* (slip) a changed key is only ever moved up
AdjustUpOnly(h, key, e) ==
    IF h.idx[e] = 0 THEN Push(h, key, e) ELSE ShiftUp(h, key, h.idx[e], e)

\* The key of e has changed, or e is not in the heap yet.
Adjust(h, key, e) ==
    IF h.idx[e] = 0 THEN Push(h, key, e) ELSE Settle(h, key, Len(h.p), h.idx[e], e)

----------------------------------------------------------------------------
\* No element is less than its parent.
HeapOrdered(h, key) == \A i \in 2 .. Len(h.p) : key[h.p[i \div 2]] <= key[h.p[i]]

\* Every element knows where it is, and those in no heap know that.
Positioned(h) ==
    \A e \in DOMAIN h.idx :
        IF h.idx[e] = 0 THEN \A i \in DOMAIN h.p : h.p[i] # e
                        ELSE h.idx[e] \in DOMAIN h.p /\ h.p[h.idx[e]] = e

Members(h) == {h.p[i] : i \in DOMAIN h.p}
=============================================================================
