--------------------------- MODULE HeapUse_proofs ---------------------------
(***************************************************************************)
(* Proofs about HeapUse, for any set of elements, finite or not, and any   *)
(* integer keys.                                                           *)
(***************************************************************************)
EXTENDS HeapUse, MinHeap_proofs

\* The heap is one, for the keys as they are, and of what is queued.
IInv ==
    /\ key \in [Elements -> Keys]
    /\ IsHeap(heap, key, Elements)
    /\ queued = {x \in Elements : heap.idx[x] # 0}

LEMMA KeysAreInts ==
    ASSUME NEW f \in [Elements -> Keys]
    PROVE  f \in [Elements -> Int]
BY HeapUseAssumption

LEMMA InitIInv == Init => IInv
<1> SUFFICES ASSUME Init PROVE IInv
  OBVIOUS
<1>1. IsHeap(heap, key, Elements)
  BY EmptyIsHeap DEF Init
<1>2. \A x \in Elements : heap.idx[x] = 0
  BY DEF Init, EmptyHeap
<1> QED
  BY <1>1, <1>2 DEF Init, IInv

\* A pop takes the top, which is queued, and is as good as an erasure of it.
LEMMA PopStep ==
    ASSUME IInv, DoPop
    PROVE  /\ HeapTop(heap) \in queued
           /\ heap' = Erase(heap, key, HeapTop(heap))
<1>1. HeapTop(heap) \in Elements /\ heap.idx[HeapTop(heap)] # 0
      /\ Pop(heap, key) = Erase(heap, key, HeapTop(heap))
  BY KeysAreInts, PopIs DEF IInv, DoPop
<1> QED
  BY <1>1 DEF IInv, DoPop

\* One element is erased, if it is in the heap.
LEMMA EraseStep ==
    ASSUME IInv, NEW e \in Elements, key' = key,
           heap' = Erase(heap, key, e), queued' = queued \ {e}
    PROVE  IInv'
<1>1. key \in [Elements -> Int] /\ IsHeap(heap, key, Elements)
  BY KeysAreInts DEF IInv
<1>2. IsHeap(heap', key, Elements)
      /\ \A x \in Elements : heap'.idx[x] # 0 <=> x # e /\ heap.idx[x] # 0
  BY <1>1, Erased
<1>3. queued' = {x \in Elements : heap'.idx[x] # 0}
  BY <1>2 DEF IInv
<1> QED
  BY <1>2, <1>3 DEF IInv

\* An element that is not in the heap is pushed with a new key.
LEMMA PushStep ==
    ASSUME IInv, NEW e \in Elements, heap.idx[e] = 0, NEW k \in Keys,
           key' = [key EXCEPT ![e] = k], heap' = Push(heap, key', e), queued' = queued \cup {e}
    PROVE  IInv'
<1>1. key' \in [Elements -> Keys] /\ key' \in [Elements -> Int]
  <2>1. key' \in [Elements -> Keys]
    BY DEF IInv
  <2> QED BY <2>1, KeysAreInts
<1>2. key \in [Elements -> Int] /\ \A x \in Elements : x # e => key'[x] = key[x]
  BY KeysAreInts DEF IInv
<1>3. IsHeap(heap', key', Elements)
      /\ \A x \in Elements : heap'.idx[x] # 0 <=> x = e \/ heap.idx[x] # 0
  <2>1. IsHeap(heap, key, Elements)
    BY DEF IInv
  <2> QED BY ONLY <1>1, <1>2, <2>1, e \in Elements, heap.idx[e] = 0, heap' = Push(heap, key', e),
                  Pushed
<1>4. queued' = {x \in Elements : heap'.idx[x] # 0}
  BY <1>3 DEF IInv
<1> QED
  BY <1>1, <1>3, <1>4 DEF IInv

LEMMA AdjustStep ==
    ASSUME IInv, NEW e \in Elements, DoAdjust(e)
    PROVE  IInv'
<1>1. PICK k \in Keys : key' = [key EXCEPT ![e] = k]
  BY DEF DoAdjust
<1>2. CASE heap.idx[e] = 0
  <2>1. heap' = Push(heap, key', e)
    BY <1>2 DEF DoAdjust, Adjust
  <2> QED BY <1>1, <1>2, <2>1, PushStep DEF DoAdjust
<1>3. CASE heap.idx[e] # 0
  <2>1. key' \in [Elements -> Keys] /\ \A x \in Elements : x # e => key'[x] = key[x]
    BY <1>1 DEF IInv
  <2>2. key \in [Elements -> Int] /\ key' \in [Elements -> Int]
    BY <2>1, KeysAreInts DEF IInv
  <2>3. IsHeap(heap', key', Elements)
        /\ \A x \in Elements : heap'.idx[x] # 0 <=> heap.idx[x] # 0
    <3>1. IsHeap(heap, key, Elements) /\ heap' = Adjust(heap, key', e)
      BY DEF IInv, DoAdjust
    <3> QED BY ONLY <1>3, <2>1, <2>2, <3>1, e \in Elements, Adjusted
  <2>4. queued' = {x \in Elements : heap'.idx[x] # 0}
    BY <1>3, <2>3 DEF IInv, DoAdjust
  <2> QED BY <2>1, <2>3, <2>4 DEF IInv
<1> QED
  BY <1>2, <1>3

LEMMA NextIInv == IInv /\ [Next]_vars => IInv'
<1> SUFFICES ASSUME IInv, [Next]_vars PROVE IInv'
  OBVIOUS
<1>1. CASE UNCHANGED vars
  BY <1>1 DEF IInv, vars
<1>2. CASE DoPop
  BY <1>2, PopStep, EraseStep DEF DoPop, IInv
<1>3. ASSUME NEW e \in Elements, DoPush(e) PROVE IInv'
  <2>1. heap.idx[e] = 0
    BY <1>3 DEF DoPush, IInv
  <2>2. PICK k \in Keys : key' = [key EXCEPT ![e] = k]
    BY <1>3 DEF DoPush
  <2> QED BY <1>3, <2>1, <2>2, PushStep DEF DoPush
<1>4. ASSUME NEW e \in Elements, DoErase(e) PROVE IInv'
  BY <1>4, EraseStep DEF DoErase
<1>5. ASSUME NEW e \in Elements, DoAdjust(e) PROVE IInv'
  BY <1>5, AdjustStep
<1> QED
  BY <1>1, <1>2, <1>3, <1>4, <1>5 DEF Next

LEMMA InvariantHolds == Spec => []IInv
BY InitIInv, NextIInv, PTL DEF Spec

----------------------------------------------------------------------------
(***************************************************************************)
(* Whatever is pushed, popped, erased and adjusted, in any order, no       *)
(* element is less than its parent.                                        *)
(***************************************************************************)
THEOREM OrderIsKept == Spec => []OrderKept
<1>1. IInv => OrderKept
  BY DEF IInv, IsHeap, OrderKept
<1> QED
  BY <1>1, InvariantHolds, PTL

(***************************************************************************)
(* Every element knows its place in the array, which holds what was put in *)
(* and not taken out, each element once.                                   *)
(***************************************************************************)
THEOREM PositionsAreKept == Spec => []PositionsKept
<1>1. IInv => PositionsKept
  BY MembersAre DEF IInv, IsHeap, PositionsKept
<1> QED
  BY <1>1, InvariantHolds, PTL

(***************************************************************************)
(* A pop yields a least element: the heap is a priority queue.             *)
(***************************************************************************)
THEOREM PopIsLeast == Spec => PopsLeast
<1> DEFINE Least1 == popped' # NothingPopped => \A e \in queued : key[popped'[1]] <= key[e]
<1>1. IInv /\ [Next]_vars => [Least1]_vars
  <2> SUFFICES ASSUME IInv, Next, popped' # NothingPopped, NEW e \in queued
               PROVE  key[popped'[1]] <= key[e]
    BY Zenon
  <2>1. DoPop
    BY DEF Next, DoPush, DoErase, DoAdjust
  <2>2. popped'[1] = HeapTop(heap)
    BY <2>1 DEF DoPop
  <2>3. key \in [Elements -> Int]
    BY KeysAreInts DEF IInv
  <2>4. \A m \in 1 .. Len(heap.p) : key[HeapTop(heap)] <= key[heap.p[m]]
    BY <2>3, TopIsLeast DEF IInv
  <2>5. heap.idx[e] \in 1 .. Len(heap.p) /\ heap.p[heap.idx[e]] = e
    BY HeapIs DEF IInv
  <2> QED BY <2>2, <2>4, <2>5
<1> QED
  BY <1>1, InvariantHolds, PTL DEF Spec, PopsLeast
=============================================================================
