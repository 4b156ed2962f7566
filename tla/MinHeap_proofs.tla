--------------------------- MODULE MinHeap_proofs ---------------------------
(***************************************************************************)
(* Proofs about the heap, for any elements, any integer keys and heaps of  *)
(* any size.                                                               *)
(***************************************************************************)
EXTENDS MinHeap, FiniteSetTheorems, FunctionTheorems, SequenceTheorems, WellFoundedInduction,
        TLAPS

----------------------------------------------------------------------------
(* Induction over data.  Theorems with an operator for a parameter are of  *)
(* no use to the provers at hand, so the induction is over sets: one that  *)
(* holds whatever it holds everything of a lower rank of, is everything.   *)

LEMMA Least ==
    ASSUME NEW T, T \subseteq Nat, T # {}
    PROVE  \E m \in T : \A k \in T : m <= k
<1> DEFINE R == OpToRel(<, Nat)
<1>1. IsWellFoundedOn(R, Nat)
  BY NatLessThanWellFounded, Zenon
<1>2. \A x, y \in Nat : <<x, y>> \in R <=> x < y
  BY DEF OpToRel
<1> HIDE DEF R
<1>3. PICK m \in T : \A k \in T : ~(<<k, m>> \in R)
  BY <1>1, WFMin
<1>4. \A k \in T : m \in Nat /\ k \in Nat /\ ~(k < m)
  BY <1>2, <1>3
<1> QED
  BY <1>4

LEMMA RankInduction ==
    ASSUME NEW D, NEW rank \in [D -> Nat], NEW Good,
           \A j \in D : (\A k \in D : rank[k] < rank[j] => k \in Good) => j \in Good
    PROVE  D \subseteq Good
<1> SUFFICES ASSUME D \ Good # {} PROVE FALSE
  OBVIOUS
<1> DEFINE T == {rank[j] : j \in D \ Good}
<1>1. T \subseteq Nat /\ T # {}
  OBVIOUS
<1>2. PICK m \in T : \A k \in T : m <= k
  BY <1>1, Least
<1>3. PICK j \in D \ Good : m = rank[j]
  OBVIOUS
<1>4. ASSUME NEW k \in D, rank[k] < rank[j] PROVE k \in Good
  <2> SUFFICES ASSUME k \notin Good PROVE FALSE
    OBVIOUS
  <2>1. rank[k] \in T /\ rank[k] \in Nat /\ rank[j] \in Nat
    OBVIOUS
  <2> HIDE DEF T
  <2>2. m <= rank[k]
    BY <1>2, <2>1
  <2> QED
    BY <1>3, <1>4, <2>1, <2>2
<1>5. j \in D /\ j \notin Good
  BY <1>3
<1> HIDE DEF T
<1> QED
  BY <1>4, <1>5, Zenon

----------------------------------------------------------------------------
(* One move: e is put in place i.                                          *)

Heaps(E, L) == [p : [1 .. L -> E], idx : [E -> Nat]]

LEMMA PlaceIs ==
    ASSUME NEW E, NEW L \in Nat, NEW h \in Heaps(E, L), NEW i \in 1 .. L, NEW e \in E
    PROVE  /\ Place(h, i, e) \in Heaps(E, L)
           /\ \A m \in 1 .. L : Place(h, i, e).p[m] = IF m = i THEN e ELSE h.p[m]
           /\ \A x \in E : Place(h, i, e).idx[x] = IF x = e THEN i ELSE h.idx[x]
BY DEF Place, Heaps

\* The same, of what has been got by it.
LEMMA PlacedIs ==
    ASSUME NEW E, NEW L \in Nat, NEW h \in Heaps(E, L), NEW i \in 1 .. L, NEW e \in E,
           NEW u, u = Place(h, i, e)
    PROVE  /\ u \in Heaps(E, L)
           /\ \A m \in 1 .. L : u.p[m] = IF m = i THEN e ELSE h.p[m]
BY DEF Place, Heaps

----------------------------------------------------------------------------
(***************************************************************************)
(* What the two shifts have in common.  From a hole at j in D, the hole    *)
(* moves to next[j] if j is in M, and e fills it otherwise.                *)
(***************************************************************************)
Shifts(f, h, D, M, next, e) ==
    f = [j \in D |-> IF j \in M THEN Place(f[next[j]], j, h.p[next[j]]) ELSE Place(h, j, e)]

\* The same for the places of D only.
ShiftsIn(f, h, D, M, next, e) == \A j \in D :
    f[j] = IF j \in M THEN Place(f[next[j]], j, h.p[next[j]]) ELSE Place(h, j, e)

Descends(D, M, next, rank) ==
    /\ M \subseteq D
    /\ rank \in [D -> Nat]
    /\ \A j \in M : next[j] \in D /\ rank[next[j]] < rank[j]

Low(D, rank, n) == {j \in D : rank[j] < n}

\* The recursive function is there: for every rank up to any, by induction.
LEMMA ShiftsExists ==
    ASSUME NEW h, NEW D, NEW M, NEW next, NEW rank, NEW e, Descends(D, M, next, rank)
    PROVE  \A n \in Nat : \E f : Shifts(f, h, Low(D, rank, n), M, next, e)
<1> DEFINE Good == {n \in Nat : \E f : Shifts(f, h, Low(D, rank, n), M, next, e)}
           id == [n \in Nat |-> n]
<1>1. ASSUME NEW n \in Nat, \A k \in Nat : id[k] < id[n] => k \in Good
      PROVE  n \in Good
  <2>1. CASE n = 0
    <3>1. Low(D, rank, n) = {}
      BY <2>1 DEF Descends, Low
    <3>2. Shifts([j \in {} |-> 0], h, {}, M, next, e)
      BY DEF Shifts
    <3> QED  BY <3>1, <3>2
  <2>2. CASE n > 0
    <3>1. n - 1 \in Nat /\ n - 1 < n
      BY <2>2
    <3>2. PICK g : Shifts(g, h, Low(D, rank, n - 1), M, next, e)
      BY <1>1, <3>1
    <3> DEFINE f == [j \in Low(D, rank, n) |-> IF j \in M THEN Place(g[next[j]], j, h.p[next[j]])
                                                 ELSE Place(h, j, e)]
    <3>3. \A j \in Low(D, rank, n) : j \in M => next[j] \in Low(D, rank, n - 1)
      BY <3>1 DEF Descends, Low
    <3>4. \A j \in Low(D, rank, n - 1) : j \in Low(D, rank, n)
      BY <3>1 DEF Descends, Low
    <3>5. \A j \in Low(D, rank, n - 1) : f[j] = g[j]
      BY <3>2, <3>4 DEF Shifts
    <3>6. \A j \in Low(D, rank, n) : j \in M => f[next[j]] = g[next[j]]
      BY <3>3, <3>5
    <3>7. f = [j \in Low(D, rank, n) |-> IF j \in M THEN Place(f[next[j]], j, h.p[next[j]])
                                           ELSE Place(h, j, e)]
      <4>1. \A j \in Low(D, rank, n) : f[j] = IF j \in M THEN Place(f[next[j]], j, h.p[next[j]])
                                           ELSE Place(h, j, e)
        BY <3>6
      <4> QED BY <4>1
    <3> QED  BY <3>7 DEF Shifts
  <2> QED  BY <2>1, <2>2
<1>2. Nat \subseteq Good
  <2> HIDE DEF Good
  <2>1. id \in [Nat -> Nat]  OBVIOUS
  <2> QED  BY <1>1, <2>1, RankInduction
<1> QED  BY <1>2
LEMMA ShiftsIs ==
    ASSUME NEW h, NEW D, NEW M, NEW next, NEW rank, NEW e, NEW n \in Nat,
           Descends(D, M, next, rank), \A j \in D : rank[j] < n
    PROVE  \E f : Shifts(f, h, D, M, next, e)
<1>1. Low(D, rank, n) = D
  BY DEF Low
<1>2. \A k \in Nat : \E f : Shifts(f, h, Low(D, rank, k), M, next, e)
  BY ShiftsExists, Zenon
<1> QED
  BY <1>1, <1>2

----------------------------------------------------------------------------
LEMMA HalfIs ==
    ASSUME NEW i \in Nat
    PROVE  /\ i \div 2 \in Nat
           /\ i = 2 * (i \div 2) \/ i = 2 * (i \div 2) + 1
OBVIOUS

UpMoves(h, key, i, e) == {j \in 2 .. i : key[h.p[j \div 2]] > key[e]}
Parents(i) == [j \in 1 .. i |-> j \div 2]

LEMMA UpDescends ==
    ASSUME NEW h, NEW key, NEW e, NEW i \in Nat
    PROVE  Descends(1 .. i, UpMoves(h, key, i, e), Parents(i), [j \in 1 .. i |-> j])
<1>1. \A j \in 2 .. i : j \div 2 \in 1 .. i /\ j \div 2 < j
  BY HalfIs
<1> QED
  BY <1>1 DEF Descends, UpMoves, Parents

LEMMA ShiftUpIs ==
    ASSUME NEW h, NEW key, NEW e, NEW i \in Nat \ {0}
    PROVE  \E f : /\ Shifts(f, h, 1 .. i, UpMoves(h, key, i, e), Parents(i), e)
                  /\ ShiftUp(h, key, i, e) = f[i]
<1> DEFINE M == UpMoves(h, key, i, e)
           Body(f) == [j \in 1 .. i |->
                          IF j > 1 /\ key[h.p[j \div 2]] > key[e]
                            THEN Place(f[j \div 2], j, h.p[j \div 2])
                            ELSE Place(h, j, e)]
           up == CHOOSE f : f = Body(f)
<1>1. \A f : Body(f) = [j \in 1 .. i |-> IF j \in M THEN Place(f[Parents(i)[j]], j, h.p[Parents(i)[j]])
                                        ELSE Place(h, j, e)]
  <2>1. \A j \in 1 .. i : (j > 1 /\ key[h.p[j \div 2]] > key[e] <=> j \in M) /\ Parents(i)[j] = j \div 2
    BY DEF UpMoves, Parents
  <2> QED BY <2>1
<1>2. PICK g : Shifts(g, h, 1 .. i, M, Parents(i), e)
  <2> DEFINE rank == [j \in 1 .. i |-> j]
  <2>1. \A j \in 1 .. i : rank[j] < i + 1
    OBVIOUS
  <2>2. i + 1 \in Nat
    OBVIOUS
  <2>3. Descends(1 .. i, M, Parents(i), rank)
    BY UpDescends
  <2> HIDE DEF rank, M
  <2> QED  BY <2>1, <2>2, <2>3, ShiftsIs, Zenon
<1>3. g = Body(g)
  BY <1>1, <1>2 DEF Shifts
<1>4. up = Body(up)
  <2> HIDE DEF Body
  <2> QED BY <1>3
<1>5. ShiftUp(h, key, i, e) = up[i]
  BY DEF ShiftUp
<1>6. Shifts(up, h, 1 .. i, M, Parents(i), e)
  <2> HIDE DEF up, M, Body
  <2> QED BY <1>1, <1>4 DEF Shifts
<1> QED
  BY <1>5, <1>6

----------------------------------------------------------------------------
LesserChild(h, key, n, j) ==
    IF 2 * j = n \/ key[h.p[2 * j + 1]] > key[h.p[2 * j]] THEN 2 * j ELSE 2 * j + 1
Children(h, key, n) == [j \in 1 .. n + 1 |-> LesserChild(h, key, n, j)]
DownMoves(h, key, n, e) ==
    {j \in 1 .. n + 1 : 2 * j <= n /\ key[e] > key[h.p[LesserChild(h, key, n, j)]]}
FromBelow(n) == [j \in 1 .. n + 1 |-> n + 1 - j]

LEMMA LesserChildIs ==
    ASSUME NEW h, NEW key, NEW n \in Nat, NEW j \in 1 .. n + 1, 2 * j <= n
    PROVE  LesserChild(h, key, n, j) \in (2 * j .. 2 * j + 1) \cap (1 .. n)
BY DEF LesserChild

LEMMA DownDescends ==
    ASSUME NEW h, NEW key, NEW e, NEW n \in Nat
    PROVE  Descends(1 .. n + 1, DownMoves(h, key, n, e), Children(h, key, n), FromBelow(n))
<1> DEFINE M == DownMoves(h, key, n, e)
<1>1. M \subseteq 1 .. n + 1 /\ FromBelow(n) \in [1 .. n + 1 -> Nat]
  BY DEF DownMoves, FromBelow
<1>2. ASSUME NEW j \in M
      PROVE  LET k == Children(h, key, n)[j] IN k \in 1 .. n + 1 /\ FromBelow(n)[k] < FromBelow(n)[j]
  <2> DEFINE k == Children(h, key, n)[j]
  <2>1. j \in 1 .. n + 1 /\ 2 * j <= n
    BY DEF DownMoves
  <2>2. k = LesserChild(h, key, n, j)
    BY <2>1 DEF Children
  <2>3. k \in (2 * j .. 2 * j + 1) \cap (1 .. n)
    BY <2>1, <2>2, LesserChildIs
  <2> QED BY <2>1, <2>3 DEF FromBelow
<1> QED
  BY <1>1, <1>2 DEF Descends

LEMMA ShiftDownIs ==
    ASSUME NEW h, NEW key, NEW e, NEW n \in Nat, NEW i \in 1 .. n + 1
    PROVE  \E f : /\ Shifts(f, h, 1 .. n + 1, DownMoves(h, key, n, e), Children(h, key, n), e)
                  /\ ShiftDown(h, key, n, i, e) = f[i]
<1> DEFINE M == DownMoves(h, key, n, e)
           next == Children(h, key, n)
           Body(f) == [j \in 1 .. n + 1 |->
                          IF 2 * j <= n /\ key[e] > key[h.p[LesserChild(h, key, n, j)]]
                            THEN Place(f[LesserChild(h, key, n, j)], j, h.p[LesserChild(h, key, n, j)])
                            ELSE Place(h, j, e)]
           down == CHOOSE f : f = Body(f)
<1>1. \A f : Body(f) = [j \in 1 .. n + 1 |-> IF j \in M THEN Place(f[next[j]], j, h.p[next[j]])
                                             ELSE Place(h, j, e)]
  <2>1. \A j \in 1 .. n + 1 :
            /\ 2 * j <= n /\ key[e] > key[h.p[LesserChild(h, key, n, j)]] <=> j \in M
            /\ next[j] = LesserChild(h, key, n, j)
    BY DEF DownMoves, Children
  <2> QED BY <2>1
<1>2. PICK g : Shifts(g, h, 1 .. n + 1, M, next, e)
  <2> DEFINE rank == FromBelow(n)
  <2>1. \A j \in 1 .. n + 1 : rank[j] < n + 1
    BY DEF FromBelow
  <2>2. n + 1 \in Nat
    OBVIOUS
  <2>3. Descends(1 .. n + 1, M, next, rank)
    BY DownDescends
  <2> HIDE DEF rank, M, next
  <2> QED  BY <2>1, <2>2, <2>3, ShiftsIs, Zenon
<1>3. g = Body(g)
  BY <1>1, <1>2 DEF Shifts
<1>4. down = Body(down)
  <2> HIDE DEF Body
  <2> QED BY <1>3
<1>5. ShiftDown(h, key, n, i, e) = down[i]
  BY DEF ShiftDown, LesserChild
<1>6. Shifts(down, h, 1 .. n + 1, M, next, e)
  <2> HIDE DEF down, M, next, Body
  <2> QED BY <1>1, <1>4 DEF Shifts
<1> QED
  BY <1>5, <1>6

----------------------------------------------------------------------------
(***************************************************************************)
(* What a shift does to the contents.  The hole is at i, N are the other   *)
(* positions; the elements there know them.  While a move is under way,    *)
(* e is among them in the place of the element at j.                       *)
(***************************************************************************)
In(h, N, x) == h.idx[x] \in N /\ h.p[h.idx[x]] = x
Know(h, N) == \A m \in N : h.idx[h.p[m]] = m
Absent(h, N, e) == \A m \in N : h.p[m] # e

Shifted(E, h, u, N, j, e) ==
    /\ Know(u, N)
    /\ \A x \in E : In(u, N, x) <=> x = e \/ (In(h, N, x) /\ x # h.p[j])
    /\ \A x \in E : ~In(h, N, x) /\ x # e => u.idx[x] = h.idx[x]

LEMMA ShiftedFirst ==
    ASSUME NEW E, NEW L \in Nat, NEW h \in Heaps(E, L), NEW e \in E,
           NEW N, N \subseteq 1 .. L, NEW j \in N, Know(h, N), Absent(h, N, e)
    PROVE  Shifted(E, h, Place(h, j, e), N, j, e)
<1> DEFINE u == Place(h, j, e)
<1>0. /\ \A m \in N : h.p[m] \in E
      /\ \A x \in E : h.idx[x] \in Nat
  BY DEF Heaps
<1>1. /\ \A m \in 1 .. L : u.p[m] = IF m = j THEN e ELSE h.p[m]
      /\ \A x \in E : u.idx[x] = IF x = e THEN j ELSE h.idx[x]
  BY PlaceIs
<1> HIDE DEF u
<1>2. \A m \in N : u.idx[u.p[m]] = m
  BY <1>0, <1>1 DEF Know, Absent
<1>3. ASSUME NEW x \in E PROVE In(u, N, x) <=> x = e \/ (In(h, N, x) /\ x # h.p[j])
  <2>1. CASE x = e
    BY <1>1, <2>1 DEF In
  <2>2. CASE x # e
    <3>1. u.idx[x] = h.idx[x]
      BY <1>1, <2>2
    <3>2. h.idx[x] = j => ~In(u, N, x) /\ ~(In(h, N, x) /\ x # h.p[j])
      BY <1>1, <2>2, <3>1 DEF In
    <3>3. h.idx[x] # j => (In(u, N, x) <=> In(h, N, x)) /\ x # h.p[j]
      BY <1>1, <2>2, <3>1 DEF In, Know
    <3> QED  BY <2>2, <3>2, <3>3
  <2> QED  BY <2>1, <2>2
<1>4. \A x \in E : ~In(h, N, x) /\ x # e => u.idx[x] = h.idx[x]
  BY <1>1
<1> QED
  BY <1>2, <1>3, <1>4 DEF Shifted, Know, u

LEMMA ShiftedNext ==
    ASSUME NEW E, NEW L \in Nat, NEW h \in Heaps(E, L), NEW e \in E,
           NEW N, N \subseteq 1 .. L, NEW j \in N, NEW k \in N, k # j, Know(h, N), Absent(h, N, e),
           NEW v \in Heaps(E, L), Shifted(E, h, v, N, k, e), v.p[j] = h.p[j]
    PROVE  Shifted(E, h, Place(v, j, h.p[k]), N, j, e)
<1> DEFINE y == h.p[k]
           u == Place(v, j, y)
<1>0. /\ \A m \in N : v.p[m] \in E /\ h.p[m] \in E /\ v.idx[v.p[m]] = m /\ h.idx[h.p[m]] = m
      /\ \A x \in E : h.idx[x] \in Nat /\ v.idx[x] \in Nat
  BY DEF Heaps, Shifted, Know
<1>1. /\ \A m \in 1 .. L : u.p[m] = IF m = j THEN y ELSE v.p[m]
      /\ \A x \in E : u.idx[x] = IF x = y THEN j ELSE v.idx[x]
  <2>1. y \in E /\ j \in 1 .. L
    BY <1>0
  <2> HIDE DEF y
  <2> QED  BY <2>1, PlaceIs
<1>2. y # e /\ In(h, N, y) /\ y # h.p[j] /\ h.p[j] # e
  BY <1>0 DEF In, Absent
<1>3. \A x \in E : In(v, N, x) <=> x = e \/ (In(h, N, x) /\ x # y)
  BY DEF Shifted
<1>4. \A m \in N : v.p[m] # y
  BY <1>0, <1>2, <1>3 DEF In
<1>5. y \in E /\ h.p[j] \in E /\ v.p[j] = h.p[j]
  BY <1>0
<1> HIDE DEF u, y
<1>6. \A m \in N : u.idx[u.p[m]] = m
  BY <1>0, <1>1, <1>4, <1>5
<1>7. ASSUME NEW x \in E PROVE In(u, N, x) <=> x = e \/ (In(h, N, x) /\ x # h.p[j])
  <2>1. CASE x = y
    BY <1>1, <1>2, <2>1 DEF In
  <2>2. CASE x # y /\ v.idx[x] = j
    <3>1. u.idx[x] = j /\ u.p[j] = y
      BY <1>1, <2>2
    <3>2. ~In(u, N, x)
      BY <2>2, <3>1 DEF In
    <3>3. In(v, N, x) => x = h.p[j]
      BY <1>5, <2>2 DEF In
    <3>4. x # e
      BY <1>2, <1>3, <3>3
    <3>5. In(h, N, x) => x = h.p[j]
      BY <1>3, <2>2, <3>3
    <3> QED  BY <3>2, <3>4, <3>5
  <2>3. CASE x # y /\ v.idx[x] # j
    <3>1. u.idx[x] = v.idx[x]
      BY <1>1, <2>3
    <3>2. In(u, N, x) <=> In(v, N, x)
      BY <1>1, <2>3, <3>1 DEF In
    <3>3. x # h.p[j]
      BY <1>0, <1>5, <2>3
    <3> QED  BY <1>3, <2>3, <3>2, <3>3
  <2> QED  BY <2>1, <2>2, <2>3
<1>8. ASSUME NEW x \in E, ~In(h, N, x), x # e PROVE u.idx[x] = h.idx[x]
  <2>1. x # y
    BY <1>2, <1>8
  <2>2. v.idx[x] = h.idx[x]
    BY <1>8 DEF Shifted
  <2> QED  BY <1>1, <2>1, <2>2
<1>9. Know(u, N)
  BY <1>6 DEF Know
<1>10. Shifted(E, h, u, N, j, e)
  BY <1>7, <1>8, <1>9 DEF Shifted
<1> QED
  BY <1>10 DEF u, y

\* All shifts from places but i, by induction on their rank.
LEMMA ShiftedAll ==
    ASSUME NEW E, NEW L \in Nat, NEW h \in Heaps(E, L), NEW e \in E,
           NEW N, N \subseteq 1 .. L, Know(h, N), Absent(h, N, e),
           NEW D, D \subseteq N, NEW M, NEW next, NEW rank, Descends(D, M, next, rank),
           NEW f, ShiftsIn(f, h, D, M, next, e)
    PROVE  \A j \in D :
              /\ f[j] \in Heaps(E, L)
              /\ \A m \in 1 .. L : m \notin D \/ rank[m] > rank[j] => f[j].p[m] = h.p[m]
              /\ Shifted(E, h, f[j], N, j, e)
<1> DEFINE Claim(j) ==
              /\ f[j] \in Heaps(E, L)
              /\ \A m \in 1 .. L : m \notin D \/ rank[m] > rank[j] => f[j].p[m] = h.p[m]
              /\ Shifted(E, h, f[j], N, j, e)
           Good == {j \in D : Claim(j)}
<1>0. rank \in [D -> Nat] /\ \A m \in D : m \in N /\ m \in 1 .. L /\ h.p[m] \in E
  BY DEF Descends, Heaps
<1>1. ASSUME NEW j \in D, \A k \in D : rank[k] < rank[j] => k \in Good
      PROVE  j \in Good
  <2>1. CASE j \notin M
    <3>1. f[j] = Place(h, j, e)
      BY <2>1 DEF ShiftsIn
    <3>2. Shifted(E, h, f[j], N, j, e)
      <4>1. j \in N
        BY <1>0
      <4> QED BY <3>1, <4>1, ShiftedFirst
    <3>3. f[j] \in Heaps(E, L) /\ \A m \in 1 .. L : m # j => f[j].p[m] = h.p[m]
      BY <1>0, <3>1, PlaceIs
    <3> QED  BY <1>0, <3>2, <3>3
  <2>2. CASE j \in M
    <3> DEFINE k == next[j]
               v == f[k]
    <3>1. k \in D /\ rank[k] < rank[j] /\ k # j
      BY <1>0, <2>2 DEF Descends
    <3>2. Claim(k)
      BY <1>1, <3>1
    <3>3. f[j] = Place(v, j, h.p[k])
      BY <2>2 DEF ShiftsIn
    <3>4. v.p[j] = h.p[j] /\ v \in Heaps(E, L) /\ Shifted(E, h, v, N, k, e)
      BY <1>0, <3>1, <3>2
    <3>5. Shifted(E, h, f[j], N, j, e)
      <4>1. j \in N /\ k \in N
        BY <1>0, <3>1
      <4> HIDE DEF v, k
      <4> QED BY <3>1, <3>3, <3>4, <4>1, ShiftedNext
    <3>6. f[j] \in Heaps(E, L) /\ \A m \in 1 .. L : m # j => f[j].p[m] = v.p[m]
      <4>1. h.p[k] \in E /\ j \in 1 .. L
        BY <1>0, <3>1
      <4> HIDE DEF v, k
      <4> QED BY <3>3, <3>4, <4>1, PlaceIs
    <3>7. ASSUME NEW m \in 1 .. L, m \notin D \/ rank[m] > rank[j] PROVE f[j].p[m] = h.p[m]
      <4>1. m # j
        BY <1>0, <3>7
      <4>2. ASSUME m \in D PROVE rank[m] > rank[k]
        <5>1. rank[m] \in Nat /\ rank[k] \in Nat /\ rank[j] \in Nat
          BY <1>0, <3>1, <4>2
        <5> HIDE DEF k
        <5> QED BY <3>1, <3>7, <4>2, <5>1
      <4> QED BY <3>2, <3>6, <4>1, <4>2
    <3> QED  BY <3>5, <3>6, <3>7
  <2> QED  BY <2>1, <2>2
<1>2. D \subseteq Good
  <2> HIDE DEF Good
  <2> QED BY <1>0, <1>1, RankInduction
<1> QED  BY <1>2

(***************************************************************************)
(* The shift as a whole: e is in the place of what was at i, and of the    *)
(* positions 1 .. n every one is known.                                    *)
(***************************************************************************)
Settled(E, h, u, n, N, e) ==
    /\ Know(u, 1 .. n)
    /\ \A x \in E : In(u, 1 .. n, x) <=> x = e \/ In(h, N, x)
    /\ \A x \in E : ~In(h, N, x) /\ x # e => u.idx[x] = h.idx[x]

But(n, i) == (1 .. n) \ {i}

LEMMA SettledFirst ==
    ASSUME NEW E, NEW L \in Nat, NEW h \in Heaps(E, L), NEW e \in E,
           NEW n \in 0 .. L, NEW i \in 1 .. n, Know(h, But(n, i)), Absent(h, But(n, i), e)
    PROVE  Settled(E, h, Place(h, i, e), n, But(n, i), e)
<1> DEFINE u == Place(h, i, e)
           N == But(n, i)
<1>0. /\ \A m \in 1 .. n : m \in 1 .. L /\ h.p[m] \in E
      /\ \A x \in E : h.idx[x] \in Nat
      /\ i \in 1 .. L
  BY DEF Heaps
<1>1. /\ \A m \in 1 .. L : u.p[m] = IF m = i THEN e ELSE h.p[m]
      /\ \A x \in E : u.idx[x] = IF x = e THEN i ELSE h.idx[x]
  <2>1. i \in 1 .. L
    BY <1>0
  <2> QED  BY <2>1, PlaceIs
<1>2. \A m \in 1 .. n : m = i \/ (m \in N /\ h.p[m] # e /\ h.idx[h.p[m]] = m)
  BY DEF Know, Absent, But
<1>3. i \notin N /\ N \subseteq 1 .. n
  BY DEF But
<1> HIDE DEF u, N
<1>4. \A m \in 1 .. n : u.idx[u.p[m]] = m
  BY <1>0, <1>1, <1>2
<1>5. ASSUME NEW x \in E PROVE In(u, 1 .. n, x) <=> x = e \/ In(h, N, x)
  <2>1. CASE x = e
    BY <1>0, <1>1, <2>1 DEF In
  <2>2. CASE x # e
    <3>1. u.idx[x] = h.idx[x]
      BY <1>1, <2>2
    <3>2. h.idx[x] = i => ~In(u, 1 .. n, x) /\ ~In(h, N, x)
      BY <1>0, <1>1, <1>3, <2>2, <3>1 DEF In
    <3>3. h.idx[x] # i => (In(u, 1 .. n, x) <=> In(h, N, x))
      BY <1>0, <1>1, <1>2, <1>3, <2>2, <3>1 DEF In
    <3> QED  BY <2>2, <3>2, <3>3
  <2> QED  BY <2>1, <2>2
<1>6. \A x \in E : ~In(h, N, x) /\ x # e => u.idx[x] = h.idx[x]
  BY <1>1
<1> QED
  BY <1>4, <1>5, <1>6 DEF Settled, Know, u, N

LEMMA SettledNext ==
    ASSUME NEW E, NEW L \in Nat, NEW h \in Heaps(E, L), NEW e \in E,
           NEW n \in 0 .. L, NEW i \in 1 .. n, Know(h, But(n, i)), Absent(h, But(n, i), e),
           NEW k \in But(n, i), NEW v \in Heaps(E, L), Shifted(E, h, v, But(n, i), k, e)
    PROVE  Settled(E, h, Place(v, i, h.p[k]), n, But(n, i), e)
<1> DEFINE y == h.p[k]
           u == Place(v, i, y)
           N == But(n, i)
<1>0. /\ \A m \in 1 .. n : m \in 1 .. L /\ v.p[m] \in E /\ h.p[m] \in E
      /\ \A m \in N : v.idx[v.p[m]] = m /\ h.idx[h.p[m]] = m /\ h.p[m] # e
      /\ \A x \in E : h.idx[x] \in Nat /\ v.idx[x] \in Nat
      /\ i \in 1 .. L /\ i \notin N /\ N \subseteq 1 .. n
  BY DEF Heaps, Shifted, Know, But, Absent
<1>1. /\ \A m \in 1 .. L : u.p[m] = IF m = i THEN y ELSE v.p[m]
      /\ \A x \in E : u.idx[x] = IF x = y THEN i ELSE v.idx[x]
  <2>1. y \in E /\ i \in 1 .. L
    BY <1>0
  <2> HIDE DEF y
  <2> QED  BY <2>1, PlaceIs
<1>2. y # e /\ In(h, N, y) /\ y \in E
  BY <1>0 DEF In
<1>3. \A x \in E : In(v, N, x) <=> x = e \/ (In(h, N, x) /\ x # y)
  BY DEF Shifted
<1>4. \A m \in N : v.p[m] # y
  BY <1>0, <1>2, <1>3 DEF In
<1>5. \A m \in 1 .. n : m = i \/ m \in N
  BY DEF But
<1>6. \A x \in E : ~In(h, N, x) /\ x # e => v.idx[x] = h.idx[x]
  BY DEF Shifted
<1> HIDE DEF u, N, y
<1>7. \A m \in 1 .. n : u.idx[u.p[m]] = m
  BY <1>0, <1>1, <1>2, <1>4, <1>5
<1>8. ASSUME NEW x \in E PROVE In(u, 1 .. n, x) <=> x = e \/ In(h, N, x)
  <2>1. CASE x = y
    BY <1>0, <1>1, <1>2, <2>1 DEF In
  <2>2. CASE x # y
    <3>1. u.idx[x] = v.idx[x]
      BY <1>1, <2>2
    <3>2. In(u, 1 .. n, x) <=> In(v, N, x)
      BY <1>0, <1>1, <1>5, <2>2, <3>1 DEF In
    <3> QED  BY <1>3, <2>2, <3>2
  <2> QED  BY <2>1, <2>2
<1>9. ASSUME NEW x \in E, ~In(h, N, x), x # e PROVE u.idx[x] = h.idx[x]
  BY <1>1, <1>2, <1>6, <1>9
<1>10. Settled(E, h, u, n, N, e)
  BY <1>7, <1>8, <1>9 DEF Settled, Know
<1> QED
  BY <1>10 DEF u, N, y

----------------------------------------------------------------------------
(***************************************************************************)
(* What a shift up does to the order.  Apart from the hole at i, the       *)
(* elements at 1 .. n are in order.  While the moves above it are under    *)
(* way, no place but j holds anything greater than before, and what is out *)
(* of order is at the hole or below j.                                     *)
(***************************************************************************)
Ordered(h, key, n) == \A m \in 2 .. n : key[h.p[m \div 2]] <= key[h.p[m]]
Apart(h, key, n, i) ==
    \A m \in 2 .. n : m # i /\ m \div 2 # i => key[h.p[m \div 2]] <= key[h.p[m]]

Rising(h, u, key, n, i, j, e) ==
    /\ \A m \in 1 .. n : m # j => key[u.p[m]] <= key[h.p[m]]
    /\ u.p[j] = e \/ (j > 1 /\ u.p[j] = h.p[j \div 2])
    /\ \A m \in 2 .. n : m # i /\ m \div 2 # i /\ m \div 2 # j => key[u.p[m \div 2]] <= key[u.p[m]]

LEMMA RisingFirst ==
    ASSUME NEW E, NEW key \in [E -> Int], NEW L \in Nat, NEW h \in Heaps(E, L), NEW e \in E,
           NEW n \in 0 .. L, NEW i \in Nat, NEW j \in 1 .. n, j < i, Apart(h, key, n, i),
           j = 1 \/ key[h.p[j \div 2]] <= key[e]
    PROVE  Rising(h, Place(h, j, e), key, n, i, j, e)
<1> DEFINE u == Place(h, j, e)
<1>0. \A m \in 1 .. n : m \in 1 .. L /\ h.p[m] \in E /\ key[h.p[m]] \in Int
  BY DEF Heaps
<1>1. \A m \in 1 .. n : u.p[m] = IF m = j THEN e ELSE h.p[m]
  BY <1>0, PlaceIs
<1> HIDE DEF u
<1>2. \A m \in 1 .. n : m # j => key[u.p[m]] <= key[h.p[m]]
  BY <1>0, <1>1
<1>3. ASSUME NEW m \in 2 .. n, m # i, m \div 2 # i, m \div 2 # j
      PROVE  key[u.p[m \div 2]] <= key[u.p[m]]
  <2>1. m \in 1 .. n /\ m \div 2 \in 1 .. n
    BY HalfIs
  <2>2. u.p[m \div 2] = h.p[m \div 2]
    BY <1>1, <1>3, <2>1
  <2>3. CASE m = j
    BY <1>1, <2>1, <2>2, <2>3
  <2>4. CASE m # j
    BY <1>1, <1>3, <2>1, <2>2, <2>4 DEF Apart
  <2> QED  BY <2>3, <2>4
<1>4. u.p[j] = e
  BY <1>1
<1> QED
  BY <1>2, <1>3, <1>4 DEF Rising, u

LEMMA RisingNext ==
    ASSUME NEW E, NEW key \in [E -> Int], NEW L \in Nat, NEW h \in Heaps(E, L), NEW e \in E,
           NEW n \in 0 .. L, NEW i \in Nat, NEW j \in 2 .. n, j < i, Apart(h, key, n, i),
           key[h.p[j \div 2]] > key[e],
           NEW v \in Heaps(E, L), Rising(h, v, key, n, i, j \div 2, e),
           \A m \in 1 .. L : m > j \div 2 => v.p[m] = h.p[m]
    PROVE  Rising(h, Place(v, j, h.p[j \div 2]), key, n, i, j, e)
<1> DEFINE k == j \div 2
           y == h.p[k]
           u == Place(v, j, y)
<1>0. /\ \A m \in 1 .. n : /\ m \in 1 .. L /\ h.p[m] \in E /\ key[h.p[m]] \in Int
                           /\ v.p[m] \in E /\ key[v.p[m]] \in Int
      /\ key[e] \in Int
  BY DEF Heaps
<1>1. k \in 1 .. n /\ k < j /\ k # i /\ k \div 2 < k /\ k \div 2 \in Nat /\ j \in 1 .. n
  BY HalfIs
<1>2. \A m \in 1 .. n : u.p[m] = IF m = j THEN y ELSE v.p[m]
  <2>1. y \in E
    BY <1>0, <1>1
  <2>2. j \in 1 .. L
    BY <1>0
  <2>3. u = Place(v, j, y)
    OBVIOUS
  <2> HIDE DEF y, u, k
  <2>4. \A m \in 1 .. L : u.p[m] = IF m = j THEN y ELSE v.p[m]
    BY ONLY L \in Nat, v \in Heaps(E, L), <2>1, <2>2, <2>3, PlacedIs
  <2> QED  BY <1>0, <2>4
<1>3. key[v.p[k]] <= key[y]
  <2>1. CASE v.p[k] = e
    BY <1>0, <1>1, <2>1
  <2>2. CASE k > 1 /\ v.p[k] = h.p[k \div 2]
    <3>1. k \in 2 .. n /\ k # i /\ k \div 2 # i
      BY <1>1, <2>2
    <3> HIDE DEF k
    <3> QED BY <2>2, <3>1 DEF Apart
  <2> QED  BY <2>1, <2>2 DEF Rising
<1>4. u.p[j] = y /\ j > 1
  BY <1>1, <1>2
<1>5. \A m \in 1 .. n : m > k => v.p[m] = h.p[m]
  BY <1>0
<1>6. \A m \in 1 .. n : m # k => key[v.p[m]] <= key[h.p[m]]
  BY DEF Rising
<1>7. \A m \in 2 .. n : m # i /\ m \div 2 # i /\ m \div 2 # k => key[v.p[m \div 2]] <= key[v.p[m]]
  BY DEF Rising
<1>8. j > 1 /\ u.p[j] = h.p[j \div 2]
  BY <1>4
<1>9. y = h.p[k]
  OBVIOUS
<1> HIDE DEF u, y, k
<1>10. \A m \in 1 .. n : m # j => key[u.p[m]] <= key[h.p[m]]
  BY <1>2, <1>3, <1>6, <1>9
<1>11. ASSUME NEW m \in 2 .. n, m # i, m \div 2 # i, m \div 2 # j
      PROVE  key[u.p[m \div 2]] <= key[u.p[m]]
  <2>1. m \in 1 .. n /\ m \div 2 \in 1 .. n /\ m \div 2 < m
    BY HalfIs
  <2>2. u.p[m \div 2] = v.p[m \div 2]
    BY <1>2, <1>11, <2>1
  <2>3. CASE m = j
    <3>1. m \div 2 = k
      BY <2>3 DEF k
    <3> QED BY <1>3, <1>4, <2>2, <2>3, <3>1
  <2>4. CASE m # j /\ m \div 2 = k
    <3>1. u.p[m] = h.p[m]
      BY <1>2, <1>5, <2>1, <2>4
    <3>2. key[y] <= key[h.p[m]]
      BY <1>9, <1>11, <2>4 DEF Apart
    <3>3. key[y] \in Int /\ key[h.p[m]] \in Int /\ key[v.p[k]] \in Int
      BY <1>0, <1>1, <1>9, <2>1
    <3> QED BY <1>3, <2>2, <2>4, <3>1, <3>2, <3>3
  <2>5. CASE m # j /\ m \div 2 # k
    BY <1>2, <1>7, <1>11, <2>1, <2>2, <2>5
  <2> QED  BY <2>3, <2>4, <2>5
<1> QED
  BY <1>8, <1>10, <1>11 DEF Rising, u, y, k

LEMMA RisingAll ==
    ASSUME NEW E, NEW key \in [E -> Int], NEW L \in Nat, NEW h \in Heaps(E, L), NEW e \in E,
           NEW n \in 0 .. L, NEW i \in 1 .. n, Know(h, But(n, i)), Absent(h, But(n, i), e),
           Apart(h, key, n, i), NEW t \in 0 .. i, NEW d \in 0 .. t, d < i,
           NEW f, Shifts(f, h, 1 .. t, UpMoves(h, key, t, e), Parents(t), e)
    PROVE  \A j \in 1 .. d :
              /\ f[j] \in Heaps(E, L)
              /\ \A m \in 1 .. L : m > j => f[j].p[m] = h.p[m]
              /\ Shifted(E, h, f[j], But(n, i), j, e)
              /\ Rising(h, f[j], key, n, i, j, e)
<1> DEFINE D == 1 .. d
           M == UpMoves(h, key, t, e) \cap D
           rank == [j \in D |-> j]
           next == Parents(t)
<1>1. D \subseteq But(n, i) /\ But(n, i) \subseteq 1 .. L /\ D \subseteq 1 .. t
  BY DEF But
<1>2. \A j \in M : j \in 2 .. d /\ key[h.p[j \div 2]] > key[e] /\ next[j] = j \div 2
  BY <1>1 DEF UpMoves, Parents
<1>3. Descends(D, M, next, rank)
  <2>1. \A j \in M : next[j] \in D /\ next[j] < j
    BY <1>2, HalfIs
  <2> QED BY <2>1 DEF Descends
<1>4. ShiftsIn(f, h, D, M, next, e)
  BY <1>1 DEF Shifts, ShiftsIn
<1>5. \A j \in D :
          /\ f[j] \in Heaps(E, L)
          /\ \A m \in 1 .. L : m \notin D \/ rank[m] > rank[j] => f[j].p[m] = h.p[m]
          /\ Shifted(E, h, f[j], But(n, i), j, e)
  <2> HIDE DEF D, M, rank, next
  <2> QED BY <1>1, <1>3, <1>4, ShiftedAll
<1>6. \A j \in D : \A m \in 1 .. L : m > j => f[j].p[m] = h.p[m]
  <2> SUFFICES ASSUME NEW j \in D, NEW m \in 1 .. L, m > j PROVE m \notin D \/ rank[m] > rank[j]
    BY <1>5
  <2> QED OBVIOUS
<1> DEFINE Good == {j \in D : Rising(h, f[j], key, n, i, j, e)}
<1>7. ASSUME NEW j \in D, \A k \in D : rank[k] < rank[j] => k \in Good
      PROVE  j \in Good
  <2>0. j \in 1 .. n /\ j < i /\ i \in Nat
    OBVIOUS
  <2>1. CASE j \notin M
    <3>1. f[j] = Place(h, j, e)
      BY <1>4, <2>1 DEF ShiftsIn
    <3>2. j = 1 \/ key[h.p[j \div 2]] <= key[e]
      <4>1. j = 1 \/ ~(key[h.p[j \div 2]] > key[e])
        BY <2>1 DEF UpMoves
      <4>2. j > 1 => key[h.p[j \div 2]] \in Int
        <5>1. j > 1 => j \div 2 \in 1 .. L
          BY HalfIs
        <5> QED BY <5>1 DEF Heaps
      <4> QED BY <4>1, <4>2
    <3> QED BY <2>0, <3>1, <3>2, RisingFirst
  <2>2. CASE j \in M
    <3> DEFINE v == f[j \div 2]
    <3>1. j \in 2 .. n /\ j \div 2 \in D /\ j \div 2 < j
      BY <1>2, <2>2, HalfIs
    <3>2. f[j] = Place(v, j, h.p[j \div 2])
      BY <1>2, <1>4, <2>2 DEF ShiftsIn
    <3>3. v \in Heaps(E, L) /\ \A m \in 1 .. L : m > j \div 2 => v.p[m] = h.p[m]
      BY <1>5, <1>6, <3>1
    <3>4. Rising(h, v, key, n, i, j \div 2, e)
      BY <1>7, <3>1
    <3>5. key[h.p[j \div 2]] > key[e]
      BY <1>2, <2>2
    <3>6. Rising(h, Place(v, j, h.p[j \div 2]), key, n, i, j, e)
      <4> HIDE DEF v
      <4> QED BY <2>0, <3>1, <3>3, <3>4, <3>5, RisingNext
    <3> QED BY <3>2, <3>6
  <2> QED BY <2>1, <2>2
<1>8. D \subseteq Good
  <2>1. rank \in [D -> Nat]
    OBVIOUS
  <2> HIDE DEF Good, D, rank
  <2> QED BY <1>7, <2>1, RankInduction
<1> QED
  BY <1>5, <1>6, <1>8

(***************************************************************************)
(* A shift fills the hole at i for good: the elements at 1 .. n are in     *)
(* order and know their places, and nothing after n has moved.             *)
(***************************************************************************)
Filled(E, L, h, u, key, n, i, e) ==
    /\ u \in Heaps(E, L)
    /\ Settled(E, h, u, n, But(n, i), e)
    /\ \A m \in 1 .. L : m > n => u.p[m] = h.p[m]
    /\ Ordered(u, key, n)

\* The element above the hole is not greater than the elements below it.
Bypass(h, key, n, i) ==
    \A m \in 2 .. n : m \div 2 = i /\ i > 1 => key[h.p[i \div 2]] <= key[h.p[m]]
NotAbove(h, key, n, i, e) == \A m \in 2 .. n : m \div 2 = i => key[e] <= key[h.p[m]]

LEMMA FirstFills ==
    ASSUME NEW E, NEW key \in [E -> Int], NEW L \in Nat, NEW h \in Heaps(E, L), NEW e \in E,
           NEW n \in 0 .. L, NEW i \in 1 .. n, Know(h, But(n, i)), Absent(h, But(n, i), e),
           Apart(h, key, n, i), NotAbove(h, key, n, i, e),
           i = 1 \/ key[h.p[i \div 2]] <= key[e]
    PROVE  Filled(E, L, h, Place(h, i, e), key, n, i, e)
<1> DEFINE u == Place(h, i, e)
<1>1. Settled(E, h, u, n, But(n, i), e)
  BY SettledFirst
<1>2. u \in Heaps(E, L) /\ \A m \in 1 .. L : u.p[m] = IF m = i THEN e ELSE h.p[m]
  BY PlaceIs
<1> HIDE DEF u
<1>3. \A m \in 1 .. L : m > n => u.p[m] = h.p[m]
  BY <1>2
<1>4. ASSUME NEW m \in 2 .. n PROVE key[u.p[m \div 2]] <= key[u.p[m]]
  <2>1. m \in 1 .. L /\ m \div 2 \in 1 .. L /\ m \div 2 < m
    BY HalfIs
  <2>2. CASE m = i
    BY <1>2, <2>1, <2>2
  <2>3. CASE m \div 2 = i
    BY <1>2, <2>1, <2>3 DEF NotAbove
  <2>4. CASE m # i /\ m \div 2 # i
    BY <1>2, <2>1, <2>4 DEF Apart
  <2> QED BY <2>2, <2>3, <2>4
<1>5. Filled(E, L, h, u, key, n, i, e)
  BY <1>1, <1>2, <1>3, <1>4 DEF Filled, Ordered
<1> QED
  BY <1>5 DEF u

LEMMA UpFills ==
    ASSUME NEW E, NEW key \in [E -> Int], NEW L \in Nat, NEW h \in Heaps(E, L), NEW e \in E,
           NEW n \in 0 .. L, NEW i \in 2 .. n, Know(h, But(n, i)), Absent(h, But(n, i), e),
           Apart(h, key, n, i), Bypass(h, key, n, i), NEW k, k = i \div 2,
           key[h.p[k]] > key[e],
           NEW v \in Heaps(E, L), \A m \in 1 .. L : m > k => v.p[m] = h.p[m],
           Shifted(E, h, v, But(n, i), k, e), Rising(h, v, key, n, i, k, e)
    PROVE  Filled(E, L, h, Place(v, i, h.p[k]), key, n, i, e)
<1> DEFINE y == h.p[k]
           u == Place(v, i, y)
<1>0. k \in But(n, i) /\ k \in 1 .. L /\ i \in 1 .. n /\ i \in 1 .. L /\ k < i /\ k \div 2 < k
  BY HalfIs DEF But
<1>1. Settled(E, h, u, n, But(n, i), e)
  BY <1>0, SettledNext
<1>2. y \in E /\ key[y] \in Int /\ key[e] \in Int
  BY <1>0 DEF Heaps
<1>3. u \in Heaps(E, L) /\ \A m \in 1 .. L : u.p[m] = IF m = i THEN y ELSE v.p[m]
  BY ONLY L \in Nat, v \in Heaps(E, L), <1>0, <1>2, PlaceIs
<1>4. key[v.p[k]] <= key[y]
  <2>1. CASE v.p[k] = e
    BY <1>2, <2>1
  <2>2. CASE k > 1 /\ v.p[k] = h.p[k \div 2]
    <3>1. k \in 2 .. n /\ k # i /\ k \div 2 # i
      BY <1>0, <2>2
    <3> QED BY <2>2, <3>1 DEF Apart
  <2> QED  BY <2>1, <2>2 DEF Rising
<1>5. \A m \in 2 .. n : m # i /\ m \div 2 # i /\ m \div 2 # k => key[v.p[m \div 2]] <= key[v.p[m]]
  BY DEF Rising
<1> HIDE DEF u
<1>6. \A m \in 1 .. L : m > n => u.p[m] = h.p[m]
  BY <1>0, <1>3
<1>7. ASSUME NEW m \in 2 .. n PROVE key[u.p[m \div 2]] <= key[u.p[m]]
  <2>1. m \in 1 .. L /\ m \div 2 \in 1 .. L /\ m \div 2 < m
    BY HalfIs
  <2>2. CASE m = i
    <3>1. u.p[m] = y /\ u.p[m \div 2] = v.p[k]
      BY <1>3, <2>1, <2>2
    <3> QED BY <1>4, <3>1
  <2>3. CASE m \div 2 = i
    <3>1. u.p[m] = h.p[m] /\ u.p[m \div 2] = y
      BY <1>0, <1>3, <2>1, <2>3
    <3> QED BY <2>3, <3>1 DEF Bypass
  <2>4. CASE m # i /\ m \div 2 = k
    <3>1. u.p[m] = h.p[m] /\ u.p[m \div 2] = v.p[k]
      BY <1>0, <1>3, <2>1, <2>4
    <3>2. key[y] <= key[h.p[m]]
      BY <1>0, <2>4 DEF Apart
    <3>3. key[h.p[m]] \in Int /\ key[v.p[k]] \in Int
      BY <1>0, <2>1 DEF Heaps
    <3> QED BY <1>2, <1>4, <3>1, <3>2, <3>3
  <2>5. CASE m # i /\ m \div 2 # i /\ m \div 2 # k
    <3>1. u.p[m] = v.p[m] /\ u.p[m \div 2] = v.p[m \div 2]
      BY <1>3, <2>1, <2>5
    <3> QED BY <1>5, <2>5, <3>1
  <2> QED BY <2>2, <2>3, <2>4, <2>5
<1>8. Filled(E, L, h, u, key, n, i, e)
  BY <1>1, <1>3, <1>6, <1>7 DEF Filled, Ordered
<1> QED
  BY <1>8 DEF u

LEMMA ShiftUpFills ==
    ASSUME NEW E, NEW key \in [E -> Int], NEW L \in Nat, NEW h \in Heaps(E, L), NEW e \in E,
           NEW n \in 0 .. L, NEW i \in 1 .. n, Know(h, But(n, i)), Absent(h, But(n, i), e),
           Apart(h, key, n, i), Bypass(h, key, n, i), NotAbove(h, key, n, i, e)
    PROVE  Filled(E, L, h, ShiftUp(h, key, i, e), key, n, i, e)
<1>1. PICK f : /\ Shifts(f, h, 1 .. i, UpMoves(h, key, i, e), Parents(i), e)
               /\ ShiftUp(h, key, i, e) = f[i]
  BY ShiftUpIs
<1>2. CASE i > 1 /\ key[h.p[i \div 2]] > key[e]
  <2> DEFINE k == i \div 2
  <2>1. i \in UpMoves(h, key, i, e) /\ Parents(i)[i] = k
    BY <1>2 DEF UpMoves, Parents
  <2>2. f[i] = Place(f[k], i, h.p[k])
    BY <1>1, <2>1 DEF Shifts
  <2>3. k \in 1 .. i - 1 /\ i \in 0 .. i /\ i - 1 \in 0 .. i /\ i - 1 < i /\ i \in 2 .. n
    BY <1>2, HalfIs
  <2>4. /\ f[k] \in Heaps(E, L)
        /\ \A m \in 1 .. L : m > k => f[k].p[m] = h.p[m]
        /\ Shifted(E, h, f[k], But(n, i), k, e)
        /\ Rising(h, f[k], key, n, i, k, e)
    BY <1>1, <2>3, RisingAll
  <2>5. k = i \div 2 /\ key[h.p[k]] > key[e]
    BY <1>2
  <2> HIDE DEF k
  <2>6. Filled(E, L, h, Place(f[k], i, h.p[k]), key, n, i, e)
    BY <2>3, <2>4, <2>5, UpFills
  <2> QED BY <1>1, <2>2, <2>6
<1>3. CASE ~(i > 1 /\ key[h.p[i \div 2]] > key[e])
  <2>1. i \notin UpMoves(h, key, i, e)
    BY <1>3 DEF UpMoves
  <2>2. f[i] = Place(h, i, e)
    BY <1>1, <2>1 DEF Shifts
  <2>3. i = 1 \/ key[h.p[i \div 2]] <= key[e]
    <3>1. i > 1 => i \div 2 \in 1 .. L
      BY HalfIs
    <3>2. i > 1 => key[h.p[i \div 2]] \in Int /\ key[e] \in Int
      BY <3>1 DEF Heaps
    <3> QED BY <1>3, <3>2
  <2> QED BY <1>1, <2>2, <2>3, FirstFills
<1> QED
  BY <1>2, <1>3

LEMMA ShiftUpUnconditionalFills ==
    ASSUME NEW E, NEW key \in [E -> Int], NEW L \in Nat, NEW h \in Heaps(E, L), NEW e \in E,
           NEW n \in 0 .. L, NEW i \in 2 .. n, Know(h, But(n, i)), Absent(h, But(n, i), e),
           Apart(h, key, n, i), Bypass(h, key, n, i), key[h.p[i \div 2]] > key[e]
    PROVE  Filled(E, L, h, ShiftUpUnconditional(h, key, i, e), key, n, i, e)
<1> DEFINE k == i \div 2
<1>1. k \in Nat \ {0} /\ k < i /\ k \in 0 .. i /\ k \in 0 .. k /\ k \in 1 .. k /\ i \in 1 .. n
  BY HalfIs
<1>2. k = i \div 2 /\ key[h.p[k]] > key[e]
  OBVIOUS
<1>3. ShiftUpUnconditional(h, key, i, e) = Place(ShiftUp(h, key, k, e), i, h.p[k])
  BY DEF ShiftUpUnconditional
<1> HIDE DEF k
<1>4. PICK f : /\ Shifts(f, h, 1 .. k, UpMoves(h, key, k, e), Parents(k), e)
               /\ ShiftUp(h, key, k, e) = f[k]
  BY <1>1, ShiftUpIs
<1>5. /\ f[k] \in Heaps(E, L)
      /\ \A m \in 1 .. L : m > k => f[k].p[m] = h.p[m]
      /\ Shifted(E, h, f[k], But(n, i), k, e)
      /\ Rising(h, f[k], key, n, i, k, e)
  BY <1>1, <1>4, RisingAll
<1>6. Filled(E, L, h, Place(f[k], i, h.p[k]), key, n, i, e)
  BY <1>1, <1>2, <1>5, UpFills
<1> QED
  BY <1>3, <1>4, <1>6

----------------------------------------------------------------------------
(***************************************************************************)
(* What a shift down does to the order.  While the moves below the hole    *)
(* are under way, no place but j holds anything less than before, and what *)
(* is out of order is at the hole or above j.                              *)
(***************************************************************************)
Sinking(h, u, key, n, i, j, e) ==
    /\ \A m \in 1 .. n : m # j => key[h.p[m]] <= key[u.p[m]]
    /\ u.p[j] = e \/ (2 * j <= n /\ u.p[j] = h.p[LesserChild(h, key, n, j)])
    /\ \A m \in 2 .. n : m # i /\ m \div 2 # i /\ m # j => key[u.p[m \div 2]] <= key[u.p[m]]

LEMMA LesserChildLeast ==
    ASSUME NEW E, NEW key \in [E -> Int], NEW L \in Nat, NEW h \in Heaps(E, L),
           NEW n \in 0 .. L, NEW j \in 1 .. n
    PROVE  /\ \A m \in 2 .. n : m \div 2 = j =>
                  /\ 2 * j <= n
                  /\ key[h.p[LesserChild(h, key, n, j)]] <= key[h.p[m]]
           /\ 2 * j <= n => /\ LesserChild(h, key, n, j) \in 2 .. n
                            /\ LesserChild(h, key, n, j) > j
                            /\ LesserChild(h, key, n, j) \div 2 = j
<1>1. ASSUME NEW m \in 2 .. n, m \div 2 = j
      PROVE  2 * j <= n /\ key[h.p[LesserChild(h, key, n, j)]] <= key[h.p[m]]
  <2>1. m = 2 * j \/ m = 2 * j + 1
    BY <1>1, HalfIs
  <2>2. 2 * j <= n /\ 2 * j \in 1 .. L /\ (2 * j + 1 <= n => 2 * j + 1 \in 1 .. L)
    BY <2>1
  <2>3. key[h.p[2 * j]] \in Int /\ (2 * j + 1 <= n => key[h.p[2 * j + 1]] \in Int)
    BY <2>2 DEF Heaps
  <2>4. m = 2 * j + 1 => 2 * j + 1 <= n /\ 2 * j # n
    OBVIOUS
  <2>5. CASE 2 * j = n
    BY <2>1, <2>2, <2>3, <2>4, <2>5 DEF LesserChild
  <2>6. CASE 2 * j # n
    BY <2>1, <2>2, <2>3, <2>4, <2>6 DEF LesserChild
  <2> QED BY <2>5, <2>6
<1>2. ASSUME 2 * j <= n
      PROVE  LET c == LesserChild(h, key, n, j) IN c \in 2 .. n /\ c > j /\ c \div 2 = j
  <2> DEFINE c == LesserChild(h, key, n, j)
  <2>1. c = 2 * j \/ c = 2 * j + 1
    BY <1>2, LesserChildIs
  <2>2. c \in 1 .. n
    BY <1>2, LesserChildIs
  <2> HIDE DEF c
  <2>3. c \div 2 = j
    BY <2>1
  <2> QED BY <2>1, <2>2, <2>3 DEF c
<1> QED
  BY <1>1, <1>2

LEMMA SinkingFirst ==
    ASSUME NEW E, NEW key \in [E -> Int], NEW L \in Nat, NEW h \in Heaps(E, L), NEW e \in E,
           NEW n \in 0 .. L, NEW i \in Nat, NEW j \in 1 .. n, j > i, Apart(h, key, n, i),
           2 * j <= n => key[e] <= key[h.p[LesserChild(h, key, n, j)]]
    PROVE  Sinking(h, Place(h, j, e), key, n, i, j, e)
<1> DEFINE u == Place(h, j, e)
           c == LesserChild(h, key, n, j)
<1>0. /\ \A m \in 1 .. n : m \in 1 .. L /\ h.p[m] \in E /\ key[h.p[m]] \in Int
      /\ key[e] \in Int
  BY DEF Heaps
<1>1. \A m \in 1 .. n : u.p[m] = IF m = j THEN e ELSE h.p[m]
  <2>1. j \in 1 .. L
    BY <1>0
  <2>2. \A m \in 1 .. L : u.p[m] = IF m = j THEN e ELSE h.p[m]
    BY ONLY L \in Nat, h \in Heaps(E, L), e \in E, <2>1, PlaceIs
  <2> QED BY <1>0, <2>2
<1>2. \A m \in 1 .. n : m # j => key[h.p[m]] <= key[u.p[m]]
  <2> HIDE DEF u
  <2> QED BY <1>0, <1>1
<1>3. ASSUME NEW m \in 2 .. n, m # i, m \div 2 # i, m # j
      PROVE  key[u.p[m \div 2]] <= key[u.p[m]]
  <2> HIDE DEF u
  <2>1. m \in 1 .. n /\ m \div 2 \in 1 .. n
    BY HalfIs
  <2>2. u.p[m] = h.p[m]
    BY <1>1, <1>3, <2>1
  <2>3. CASE m \div 2 = j
    <3>1. 2 * j <= n /\ key[h.p[c]] <= key[h.p[m]] /\ c \in 1 .. n
      BY <2>3, LesserChildLeast
    <3>2. key[h.p[c]] \in Int /\ key[h.p[m]] \in Int /\ key[e] <= key[h.p[c]]
      BY <1>0, <2>1, <3>1
    <3>3. u.p[m \div 2] = e
      BY <1>1, <2>1, <2>3
    <3> HIDE DEF c
    <3> QED BY <1>0, <2>2, <3>1, <3>2, <3>3
  <2>4. CASE m \div 2 # j
    BY <1>1, <1>3, <2>1, <2>2, <2>4 DEF Apart
  <2> QED  BY <2>3, <2>4
<1>4. u.p[j] = e
  BY <1>1
<1> QED
  BY <1>2, <1>3, <1>4 DEF Sinking

LEMMA SunkChild ==
    ASSUME NEW E, NEW key \in [E -> Int], NEW L \in Nat, NEW h \in Heaps(E, L), NEW e \in E,
           NEW n \in 0 .. L, NEW i \in Nat, NEW c \in 2 .. n, c > i, Apart(h, key, n, i),
           key[h.p[c]] < key[e], NEW v, Sinking(h, v, key, n, i, c, e)
    PROVE  key[h.p[c]] <= key[v.p[c]]
<1>0. \A m \in 1 .. n : key[h.p[m]] \in Int
  BY DEF Heaps
<1>1. CASE v.p[c] = e
  BY <1>0, <1>1
<1>2. CASE 2 * c <= n /\ v.p[c] = h.p[LesserChild(h, key, n, c)]
  <2> DEFINE d == LesserChild(h, key, n, c)
  <2>1. d \in 2 .. n /\ d > c /\ d \div 2 = c
    BY <1>2, LesserChildLeast
  <2> HIDE DEF d
  <2>2. d # i /\ d \div 2 # i
    BY <2>1
  <2>3. key[h.p[d \div 2]] <= key[h.p[d]]
    BY <2>1, <2>2 DEF Apart
  <2>4. v.p[c] = h.p[d]
    BY <1>2 DEF d
  <2> QED BY <2>1, <2>3, <2>4
<1> QED
  BY <1>1, <1>2 DEF Sinking

LEMMA SinkingNext ==
    ASSUME NEW E, NEW key \in [E -> Int], NEW L \in Nat, NEW h \in Heaps(E, L), NEW e \in E,
           NEW n \in 0 .. L, NEW i \in Nat, NEW j \in 1 .. n, j > i, Apart(h, key, n, i),
           2 * j <= n, NEW c, c = LesserChild(h, key, n, j), key[e] > key[h.p[c]],
           NEW v \in Heaps(E, L), Sinking(h, v, key, n, i, c, e)
    PROVE  Sinking(h, Place(v, j, h.p[c]), key, n, i, j, e)
<1> DEFINE y == h.p[c]
           u == Place(v, j, y)
<1>0. /\ \A m \in 1 .. n : /\ m \in 1 .. L /\ h.p[m] \in E /\ key[h.p[m]] \in Int
                           /\ v.p[m] \in E /\ key[v.p[m]] \in Int
      /\ key[e] \in Int
  BY ONLY L \in Nat, n \in 0 .. L, key \in [E -> Int], h \in Heaps(E, L), v \in Heaps(E, L),
          e \in E DEF Heaps
<1>1. c \in 2 .. n /\ c \in 1 .. n /\ c > j /\ c > i /\ c \div 2 = j
  BY LesserChildLeast
<1>2. y \in E /\ j \in 1 .. L
  BY <1>0, <1>1
<1>3. \A m \in 1 .. L : u.p[m] = IF m = j THEN y ELSE v.p[m]
  BY ONLY L \in Nat, v \in Heaps(E, L), <1>2, PlaceIs
<1>4. key[y] <= key[v.p[c]]
  <2>1. key[h.p[c]] < key[e]
    BY <1>0, <1>1
  <2> QED BY <1>1, <2>1, SunkChild
<1>5. \A m \in 1 .. n : m # c => key[h.p[m]] <= key[v.p[m]]
  BY DEF Sinking
<1>6. \A m \in 2 .. n : m # i /\ m \div 2 # i /\ m # c => key[v.p[m \div 2]] <= key[v.p[m]]
  BY DEF Sinking
<1>7. \A m \in 2 .. n : m \div 2 = j => key[y] <= key[h.p[m]]
  BY LesserChildLeast
<1>8. u.p[j] = y
  BY <1>2, <1>3
<1>9. \A m \in 1 .. n : m # j => key[h.p[m]] <= key[u.p[m]]
  <2> SUFFICES ASSUME NEW m \in 1 .. n, m # j PROVE key[h.p[m]] <= key[u.p[m]]
    OBVIOUS
  <2>1. u.p[m] = v.p[m]
    BY <1>0, <1>3
  <2> HIDE DEF u
  <2> QED BY <1>4, <1>5, <2>1
<1>10. ASSUME NEW m \in 2 .. n, m # i, m \div 2 # i, m # j
      PROVE  key[u.p[m \div 2]] <= key[u.p[m]]
  <2>1. m \in 1 .. n /\ m \div 2 \in 1 .. n /\ m \div 2 < m
    BY HalfIs
  <2>2. u.p[m] = v.p[m]
    BY <1>0, <1>3, <1>10, <2>1
  <2>3. CASE m \div 2 = j
    <3>1. u.p[m \div 2] = y
      BY <1>8, <2>3
    <3>2. key[y] <= key[v.p[m]]
      <4>1. CASE m = c
        BY <1>4, <4>1
      <4>2. CASE m # c
        <5>1. key[y] <= key[h.p[m]] /\ key[h.p[m]] <= key[v.p[m]]
          BY <1>5, <1>7, <2>1, <2>3, <4>2
        <5>2. key[y] \in Int /\ key[h.p[m]] \in Int /\ key[v.p[m]] \in Int
          BY <1>0, <1>2, <2>1
        <5> HIDE DEF y
        <5> QED BY <5>1, <5>2
      <4> QED BY <4>1, <4>2
    <3> HIDE DEF u, y
    <3> QED BY <2>2, <3>1, <3>2
  <2>4. CASE m \div 2 # j
    <3>1. u.p[m \div 2] = v.p[m \div 2]
      BY <1>0, <1>3, <2>1, <2>4
    <3>2. m # c
      BY <1>1, <2>4
    <3> HIDE DEF u
    <3> QED BY <1>6, <1>10, <2>2, <3>1, <3>2
  <2> QED  BY <2>3, <2>4
<1>11. 2 * j <= n /\ u.p[j] = h.p[LesserChild(h, key, n, j)]
  BY <1>8
<1> HIDE DEF u
<1>12. Sinking(h, u, key, n, i, j, e)
  BY <1>9, <1>10, <1>11 DEF Sinking
<1> QED
  BY <1>12 DEF u

LEMMA SinkingAll ==
    ASSUME NEW E, NEW key \in [E -> Int], NEW L \in Nat, NEW h \in Heaps(E, L), NEW e \in E,
           NEW n \in 0 .. L, NEW i \in 1 .. n, Know(h, But(n, i)), Absent(h, But(n, i), e),
           Apart(h, key, n, i),
           NEW f, Shifts(f, h, 1 .. n + 1, DownMoves(h, key, n, e), Children(h, key, n), e)
    PROVE  \A j \in i + 1 .. n :
              /\ f[j] \in Heaps(E, L)
              /\ \A m \in 1 .. L : m < j \/ m > n => f[j].p[m] = h.p[m]
              /\ Shifted(E, h, f[j], But(n, i), j, e)
              /\ Sinking(h, f[j], key, n, i, j, e)
<1> DEFINE D == i + 1 .. n
           M == DownMoves(h, key, n, e) \cap D
           rank == [j \in D |-> n - j]
           next == Children(h, key, n)
<1>1. D \subseteq But(n, i) /\ But(n, i) \subseteq 1 .. L /\ D \subseteq 1 .. n + 1
  BY DEF But
<1>2. \A j \in M : /\ j \in D /\ 2 * j <= n /\ next[j] = LesserChild(h, key, n, j)
                   /\ key[e] > key[h.p[next[j]]]
  BY <1>1 DEF DownMoves, Children
<1>3. Descends(D, M, next, rank)
  <2>1. ASSUME NEW j \in M PROVE next[j] \in D /\ next[j] > j
    <3>1. j \in 1 .. n /\ 2 * j <= n
      BY <1>2
    <3>2. LesserChild(h, key, n, j) \in 2 .. n /\ LesserChild(h, key, n, j) > j
      BY <3>1, LesserChildLeast
    <3> QED BY <1>2, <3>1, <3>2
  <2>2. \A j \in M : rank[next[j]] < rank[j]
    BY <2>1
  <2> QED BY <2>1, <2>2 DEF Descends
<1>4. ShiftsIn(f, h, D, M, next, e)
  BY <1>1 DEF Shifts, ShiftsIn
<1>5. \A j \in D :
          /\ f[j] \in Heaps(E, L)
          /\ \A m \in 1 .. L : m \notin D \/ rank[m] > rank[j] => f[j].p[m] = h.p[m]
          /\ Shifted(E, h, f[j], But(n, i), j, e)
  <2> HIDE DEF D, M, rank, next
  <2> QED BY <1>1, <1>3, <1>4, ShiftedAll
<1>6. \A j \in D : \A m \in 1 .. L : m < j \/ m > n => f[j].p[m] = h.p[m]
  <2> SUFFICES ASSUME NEW j \in D, NEW m \in 1 .. L, m < j \/ m > n
               PROVE m \notin D \/ rank[m] > rank[j]
    BY <1>5
  <2> QED OBVIOUS
<1> DEFINE Good == {j \in D : Sinking(h, f[j], key, n, i, j, e)}
<1>7. ASSUME NEW j \in D, \A k \in D : rank[k] < rank[j] => k \in Good
      PROVE  j \in Good
  <2>0. j \in 1 .. n /\ j > i /\ i \in Nat
    OBVIOUS
  <2> DEFINE c == LesserChild(h, key, n, j)
  <2>1. CASE j \notin M
    <3>1. f[j] = Place(h, j, e)
      BY <1>4, <2>1 DEF ShiftsIn
    <3>2. 2 * j <= n => key[e] <= key[h.p[c]]
      <4>1. 2 * j <= n => ~(key[e] > key[h.p[c]])
        BY <2>1 DEF DownMoves
      <4>2. 2 * j <= n => key[h.p[c]] \in Int /\ key[e] \in Int
        <5> SUFFICES ASSUME 2 * j <= n PROVE key[h.p[c]] \in Int
          OBVIOUS
        <5>0. c \in 2 .. n
          <6> HIDE DEF D, M, rank, next, Good
          <6> QED BY <2>0, LesserChildLeast
        <5> HIDE DEF c
        <5>1. c \in 1 .. L
          BY <5>0
        <5>2. h.p[c] \in E
          BY ONLY <5>1, h \in Heaps(E, L) DEF Heaps
        <5> QED BY <5>2
      <4> QED BY <4>1, <4>2
    <3> QED BY <2>0, <3>1, <3>2, SinkingFirst
  <2>2. CASE j \in M
    <3> DEFINE v == f[c]
    <3>1. 2 * j <= n /\ next[j] = c /\ key[e] > key[h.p[c]]
      BY <1>2, <2>2
    <3>2. c \in D /\ c > j
      BY <2>0, <3>1, LesserChildLeast
    <3>3. f[j] = Place(v, j, h.p[c])
      BY <1>4, <2>2, <3>1 DEF ShiftsIn
    <3>4. rank[c] < rank[j]
      <4> HIDE DEF c
      <4> QED BY <3>2
    <3>5. v \in Heaps(E, L) /\ Sinking(h, v, key, n, i, c, e)
      <4> HIDE DEF c, D, rank
      <4> QED BY <1>5, <1>7, <3>2, <3>4
    <3>6. c = LesserChild(h, key, n, j)
      OBVIOUS
    <3>7. Sinking(h, Place(v, j, h.p[c]), key, n, i, j, e)
      <4> HIDE DEF v, c
      <4> QED BY <2>0, <3>1, <3>5, <3>6, SinkingNext
    <3> QED BY <3>3, <3>7
  <2> QED BY <2>1, <2>2
<1>8. D \subseteq Good
  <2>1. rank \in [D -> Nat]
    OBVIOUS
  <2> HIDE DEF Good, D, rank
  <2> QED BY <1>7, <2>1, RankInduction
<1> QED
  BY <1>5, <1>6, <1>8

LEMMA DownFills ==
    ASSUME NEW E, NEW key \in [E -> Int], NEW L \in Nat, NEW h \in Heaps(E, L), NEW e \in E,
           NEW n \in 0 .. L, NEW i \in 1 .. n, Know(h, But(n, i)), Absent(h, But(n, i), e),
           Apart(h, key, n, i), Bypass(h, key, n, i), 2 * i <= n,
           NEW c, c = LesserChild(h, key, n, i), key[e] > key[h.p[c]],
           NEW v \in Heaps(E, L), \A m \in 1 .. L : m < c \/ m > n => v.p[m] = h.p[m],
           Shifted(E, h, v, But(n, i), c, e), Sinking(h, v, key, n, i, c, e)
    PROVE  Filled(E, L, h, Place(v, i, h.p[c]), key, n, i, e)
<1> DEFINE y == h.p[c]
           u == Place(v, i, y)
<1>0. c \in But(n, i) /\ c \in 2 .. n /\ c \in 1 .. L /\ i \in 1 .. L /\ c > i /\ c \div 2 = i
  BY LesserChildLeast DEF But
<1>1. Settled(E, h, u, n, But(n, i), e)
  BY <1>0, SettledNext
<1>2. y \in E /\ key[y] \in Int /\ key[e] \in Int
  BY <1>0 DEF Heaps
<1>3. u \in Heaps(E, L) /\ \A m \in 1 .. L : u.p[m] = IF m = i THEN y ELSE v.p[m]
  <2>1. u = Place(v, i, y)
    OBVIOUS
  <2> HIDE DEF y, u
  <2> QED BY ONLY L \in Nat, v \in Heaps(E, L), <1>0, <1>2, <2>1, PlacedIs
<1>4. key[y] <= key[v.p[c]]
  <2>1. key[h.p[c]] < key[e] /\ i \in Nat
    BY <1>2
  <2> QED BY <1>0, <2>1, SunkChild
<1>5. \A m \in 2 .. n : m # i /\ m \div 2 # i /\ m # c => key[v.p[m \div 2]] <= key[v.p[m]]
  BY DEF Sinking
<1>6. \A m \in 1 .. n : m # c => key[h.p[m]] <= key[v.p[m]]
  BY DEF Sinking
<1>7. \A m \in 2 .. n : m \div 2 = i => key[y] <= key[h.p[m]]
  BY LesserChildLeast
<1>8. i > 1 => key[h.p[i \div 2]] <= key[y]
  BY <1>0 DEF Bypass
<1> HIDE DEF u, y
<1>9. \A m \in 1 .. L : m > n => u.p[m] = h.p[m]
  BY <1>0, <1>3
<1>10. ASSUME NEW m \in 2 .. n PROVE key[u.p[m \div 2]] <= key[u.p[m]]
  <2>1. m \in 1 .. L /\ m \in 1 .. n /\ m \div 2 \in 1 .. L /\ m \div 2 < m
    BY HalfIs
  <2>2. CASE m = i
    <3>1. u.p[m] = y
      BY <1>3, <2>1, <2>2
    <3>2. u.p[m \div 2] = h.p[i \div 2]
      BY <1>0, <1>3, <2>1, <2>2
    <3> QED BY <1>8, <2>2, <3>1, <3>2
  <2>3. CASE m \div 2 = i
    <3>1. u.p[m] = v.p[m] /\ u.p[m \div 2] = y
      BY <1>3, <2>1, <2>3
    <3>2. key[y] <= key[v.p[m]]
      <4>1. CASE m = c
        BY <1>4, <4>1
      <4>2. CASE m # c
        <5>1. key[y] <= key[h.p[m]] /\ key[h.p[m]] <= key[v.p[m]]
          BY <1>6, <1>7, <2>1, <2>3, <4>2
        <5>2. key[h.p[m]] \in Int /\ key[v.p[m]] \in Int
          BY <2>1 DEF Heaps
        <5> QED BY <1>2, <5>1, <5>2
      <4> QED BY <4>1, <4>2
    <3> QED BY <3>1, <3>2
  <2>4. CASE m # i /\ m \div 2 # i
    <3>1. u.p[m] = v.p[m] /\ u.p[m \div 2] = v.p[m \div 2]
      BY <1>3, <2>1, <2>4
    <3>2. m # c
      BY <1>0, <2>4
    <3> QED BY <1>5, <2>4, <3>1, <3>2
  <2> QED BY <2>2, <2>3, <2>4
<1>11. Filled(E, L, h, u, key, n, i, e)
  BY <1>1, <1>3, <1>9, <1>10 DEF Filled, Ordered
<1> QED
  BY <1>11 DEF u, y

LEMMA ShiftDownFills ==
    ASSUME NEW E, NEW key \in [E -> Int], NEW L \in Nat, NEW h \in Heaps(E, L), NEW e \in E,
           NEW n \in 0 .. L, NEW i \in 1 .. n, Know(h, But(n, i)), Absent(h, But(n, i), e),
           Apart(h, key, n, i), Bypass(h, key, n, i),
           i = 1 \/ key[h.p[i \div 2]] <= key[e]
    PROVE  Filled(E, L, h, ShiftDown(h, key, n, i, e), key, n, i, e)
<1> DEFINE c == LesserChild(h, key, n, i)
<1>0. n \in Nat /\ i \in 1 .. n + 1
  OBVIOUS
<1>1. PICK f : /\ Shifts(f, h, 1 .. n + 1, DownMoves(h, key, n, e), Children(h, key, n), e)
               /\ ShiftDown(h, key, n, i, e) = f[i]
  BY <1>0, ShiftDownIs
<1>2. CASE 2 * i <= n /\ key[e] > key[h.p[c]]
  <2>1. i \in DownMoves(h, key, n, e) /\ Children(h, key, n)[i] = c
    BY <1>0, <1>2 DEF DownMoves, Children
  <2>2. f[i] = Place(f[c], i, h.p[c])
    BY <1>0, <1>1, <2>1 DEF Shifts
  <2>3. c \in i + 1 .. n
    BY <1>2, LesserChildLeast
  <2>4. c = LesserChild(h, key, n, i)
    OBVIOUS
  <2> HIDE DEF c
  <2>5. /\ f[c] \in Heaps(E, L)
        /\ \A m \in 1 .. L : m < c \/ m > n => f[c].p[m] = h.p[m]
        /\ Shifted(E, h, f[c], But(n, i), c, e)
        /\ Sinking(h, f[c], key, n, i, c, e)
    BY <1>1, <2>3, SinkingAll
  <2>6. Filled(E, L, h, Place(f[c], i, h.p[c]), key, n, i, e)
    BY <1>2, <2>4, <2>5, DownFills
  <2> QED BY <1>1, <2>2, <2>6
<1>3. CASE ~(2 * i <= n /\ key[e] > key[h.p[c]])
  <2>1. i \notin DownMoves(h, key, n, e)
    BY <1>3 DEF DownMoves
  <2>2. f[i] = Place(h, i, e)
    BY <1>0, <1>1, <2>1 DEF Shifts
  <2>3. NotAbove(h, key, n, i, e)
    <3> SUFFICES ASSUME NEW m \in 2 .. n, m \div 2 = i PROVE key[e] <= key[h.p[m]]
      BY DEF NotAbove
    <3>1. 2 * i <= n /\ key[h.p[c]] <= key[h.p[m]] /\ c \in 1 .. L /\ m \in 1 .. L
      BY LesserChildLeast
    <3> HIDE DEF c
    <3>2. key[h.p[c]] \in Int /\ key[h.p[m]] \in Int /\ key[e] \in Int
      BY <3>1 DEF Heaps
    <3> QED BY <1>3, <3>1, <3>2
  <2> QED BY <1>1, <2>2, <2>3, FirstFills
<1> QED
  BY <1>2, <1>3

LEMMA SettleFills ==
    ASSUME NEW E, NEW key \in [E -> Int], NEW L \in Nat, NEW h \in Heaps(E, L), NEW e \in E,
           NEW n \in 0 .. L, NEW i \in 1 .. n, Know(h, But(n, i)), Absent(h, But(n, i), e),
           Apart(h, key, n, i), Bypass(h, key, n, i)
    PROVE  Filled(E, L, h, Settle(h, key, n, i, e), key, n, i, e)
<1>1. CASE i > 1 /\ key[h.p[i \div 2]] > key[e]
  <2>1. i \in 2 .. n
    BY <1>1
  <2>2. Settle(h, key, n, i, e) = ShiftUpUnconditional(h, key, i, e)
    BY <1>1 DEF Settle
  <2> QED BY <1>1, <2>1, <2>2, ShiftUpUnconditionalFills
<1>2. CASE ~(i > 1 /\ key[h.p[i \div 2]] > key[e])
  <2>1. i = 1 \/ key[h.p[i \div 2]] <= key[e]
    <3>1. i > 1 => i \div 2 \in 1 .. L
      BY HalfIs
    <3>2. i > 1 => key[h.p[i \div 2]] \in Int /\ key[e] \in Int
      BY <3>1 DEF Heaps
    <3> QED BY <1>2, <3>2
  <2>2. Settle(h, key, n, i, e) = ShiftDown(h, key, n, i, e)
    BY <1>2 DEF Settle
  <2> QED BY <2>1, <2>2, ShiftDownFills
<1> QED
  BY <1>1, <1>2

----------------------------------------------------------------------------
(***************************************************************************)
(* The operations.  IsHeap is what every one of them relies on and leaves  *)
(* behind; an element is in the heap when its position is not 0.           *)
(***************************************************************************)
IsHeap(h, key, E) ==
    /\ h \in [p : Seq(E), idx : [E -> Nat]]
    /\ Know(h, DOMAIN h.p)
    /\ Positioned(h)
    /\ HeapOrdered(h, key)

LEMMA HeapIs ==
    ASSUME NEW E, NEW key, NEW h, IsHeap(h, key, E)
    PROVE  /\ Len(h.p) \in Nat /\ DOMAIN h.p = 1 .. Len(h.p) /\ DOMAIN h.idx = E
           /\ h \in Heaps(E, Len(h.p))
           /\ Know(h, 1 .. Len(h.p)) /\ Ordered(h, key, Len(h.p))
           /\ \A x \in E : h.idx[x] # 0 => h.idx[x] \in 1 .. Len(h.p) /\ h.p[h.idx[x]] = x
           /\ \A m \in 1 .. Len(h.p) : h.p[m] \in E /\ h.idx[h.p[m]] = m
<1>1. h.p \in Seq(E) /\ h.idx \in [E -> Nat] /\ h = [p |-> h.p, idx |-> h.idx]
  BY DEF IsHeap
<1>2. Len(h.p) \in Nat /\ DOMAIN h.p = 1 .. Len(h.p) /\ h.p \in [1 .. Len(h.p) -> E]
  BY <1>1, LenProperties
<1>3. h \in Heaps(E, Len(h.p))
  <2>1. [p |-> h.p, idx |-> h.idx] \in Heaps(E, Len(h.p))
    BY <1>1, <1>2 DEF Heaps
  <2> QED BY <1>1, <2>1, Zenon
<1>4. Know(h, 1 .. Len(h.p)) /\ Ordered(h, key, Len(h.p))
  BY <1>2 DEF IsHeap, Ordered, HeapOrdered
<1>5. \A x \in E : h.idx[x] # 0 => h.idx[x] \in 1 .. Len(h.p) /\ h.p[h.idx[x]] = x
  BY <1>1, <1>2 DEF IsHeap, Positioned
<1> QED
  BY <1>1, <1>2, <1>3, <1>4, <1>5 DEF Know

\* The other way round, for arrays that are functions of 1 .. L.
LEMMA HeapFrom ==
    ASSUME NEW E, NEW key, NEW L \in Nat, NEW h \in Heaps(E, L),
           Know(h, 1 .. L), Ordered(h, key, L),
           \A x \in E : h.idx[x] # 0 => In(h, 1 .. L, x)
    PROVE  IsHeap(h, key, E) /\ Len(h.p) = L
<1>1. h.p \in [1 .. L -> E] /\ h.idx \in [E -> Nat] /\ h = [p |-> h.p, idx |-> h.idx]
  BY DEF Heaps
<1>2. h.p \in Seq(E) /\ DOMAIN h.p = 1 .. L
  BY <1>1, IsASeq
<1>3. Len(h.p) = L
  BY <1>2, LenProperties
<1>4. h \in [p : Seq(E), idx : [E -> Nat]]
  <2>1. [p |-> h.p, idx |-> h.idx] \in [p : Seq(E), idx : [E -> Nat]]
    BY <1>1, <1>2
  <2> QED BY <1>1, <2>1, Zenon
<1>5. Positioned(h)
  <2> SUFFICES ASSUME NEW x \in E
               PROVE  IF h.idx[x] = 0 THEN \A i \in 1 .. L : h.p[i] # x
                                      ELSE h.idx[x] \in 1 .. L /\ h.p[h.idx[x]] = x
    BY <1>1, <1>2 DEF Positioned
  <2> QED BY DEF Know, In
<1> QED
  BY <1>2, <1>3, <1>4, <1>5 DEF IsHeap, HeapOrdered, Ordered

LEMMA EmptyIsHeap ==
    ASSUME NEW E, NEW key
    PROVE  IsHeap(EmptyHeap(E), key, E) /\ EmptyHeap(E).p = <<>>
<1>1. EmptyHeap(E).p = <<>> /\ EmptyHeap(E).idx = [x \in E |-> 0]
  BY DEF EmptyHeap
<1>2. <<>> \in Seq(E) /\ Len(<<>>) = 0 /\ DOMAIN <<>> = {}
  BY EmptySeq
<1>3. EmptyHeap(E) \in [p : Seq(E), idx : [E -> Nat]]
  BY <1>2 DEF EmptyHeap
<1>4. Know(EmptyHeap(E), DOMAIN EmptyHeap(E).p) /\ Positioned(EmptyHeap(E))
  BY <1>1, <1>2 DEF Know, Positioned
<1>5. HeapOrdered(EmptyHeap(E), key)
  BY <1>1, <1>2 DEF HeapOrdered
<1> QED
  BY <1>1, <1>3, <1>4, <1>5 DEF IsHeap

\* Who is in the heap, and how many they are.
LEMMA MembersAre ==
    ASSUME NEW E, NEW key, NEW h, IsHeap(h, key, E)
    PROVE  /\ Members(h) = {x \in E : h.idx[x] # 0}
           /\ IsFiniteSet(Members(h)) /\ Cardinality(Members(h)) = Len(h.p)
<1> DEFINE L == Len(h.p)
<1>0. /\ L \in Nat /\ DOMAIN h.p = 1 .. L
      /\ \A x \in E : h.idx[x] # 0 => h.idx[x] \in 1 .. L /\ h.p[h.idx[x]] = x
      /\ \A m \in 1 .. L : h.p[m] \in E /\ h.idx[h.p[m]] = m
  BY HeapIs
<1>1. Members(h) = {x \in E : h.idx[x] # 0}
  <2> HIDE DEF L
  <2>1. ASSUME NEW x \in Members(h) PROVE x \in E /\ h.idx[x] # 0
    BY <1>0, <2>1 DEF Members
  <2>2. ASSUME NEW x \in E, h.idx[x] # 0 PROVE x \in Members(h)
    BY <1>0, <2>2 DEF Members
  <2> QED BY <2>1, <2>2
<1>2. h.p \in Bijection(1 .. L, Members(h))
  <2>1. h.p \in [1 .. L -> Members(h)]
    <3>1. h.p \in Seq(E)
      BY DEF IsHeap
    <3>2. h.p \in [1 .. L -> E]
      BY <3>1, LenProperties
    <3> QED BY <3>2 DEF Members
  <2>2. \A i, j \in 1 .. L : h.p[i] = h.p[j] => i = j
    BY <1>0
  <2>3. \A x \in Members(h) : \E i \in 1 .. L : h.p[i] = x
    BY <1>0 DEF Members
  <2> HIDE DEF L
  <2> QED BY <2>1, <2>2, <2>3, Fun_IsBij
<1>3. IsFiniteSet(1 .. L) /\ Cardinality(1 .. L) = L
  BY <1>0, FS_Interval
<1> HIDE DEF L
<1>4. IsFiniteSet(Members(h)) /\ Cardinality(Members(h)) = Cardinality(1 .. L)
  <2>1. ExistsBijection(1 .. L, Members(h))
    BY <1>2 DEF ExistsBijection
  <2> QED BY <1>3, <2>1, FS_Bijection
<1> QED
  BY <1>1, <1>3, <1>4 DEF L

\* The keys of the elements that are not in the heap do not matter.
LEMMA OtherKeys ==
    ASSUME NEW E, NEW key, NEW keys, NEW h, IsHeap(h, key, E),
           \A x \in E : h.idx[x] # 0 => keys[x] = key[x]
    PROVE  IsHeap(h, keys, E)
<1> DEFINE L == Len(h.p)
<1>1. /\ L \in Nat /\ Ordered(h, key, L)
      /\ \A m \in 1 .. L : h.p[m] \in E /\ h.idx[h.p[m]] = m
  BY HeapIs
<1>2. \A m \in 1 .. L : keys[h.p[m]] = key[h.p[m]]
  BY <1>1
<1>3. HeapOrdered(h, keys)
  <2> SUFFICES ASSUME NEW m \in 2 .. L PROVE keys[h.p[m \div 2]] <= keys[h.p[m]]
    BY DEF HeapOrdered
  <2>1. m \in 1 .. L /\ m \div 2 \in 1 .. L
    BY <1>1, HalfIs
  <2> HIDE DEF L
  <2> QED BY <1>1, <1>2, <2>1 DEF Ordered
<1> QED
  BY <1>3 DEF IsHeap

\* The top is a least element, by induction from parent to child.
LEMMA TopIsLeast ==
    ASSUME NEW E, NEW key \in [E -> Int], NEW h, IsHeap(h, key, E)
    PROVE  \A m \in 1 .. Len(h.p) : key[HeapTop(h)] <= key[h.p[m]]
<1> DEFINE L == Len(h.p)
           D == 1 .. L
           rank == [m \in D |-> m]
           Good == {m \in D : key[h.p[1]] <= key[h.p[m]]}
<1>1. /\ L \in Nat /\ Ordered(h, key, L)
      /\ \A m \in D : h.p[m] \in E
  BY HeapIs
<1>2. ASSUME NEW m \in D, \A k \in D : rank[k] < rank[m] => k \in Good
      PROVE  m \in Good
  <2>1. CASE m = 1
    BY <1>1, <2>1
  <2>2. CASE m # 1
    <3> DEFINE k == m \div 2
    <3>1. k \in D /\ k < m /\ m \in 2 .. L
      BY <1>1, <2>2, HalfIs
    <3>2. key[h.p[k]] <= key[h.p[m]]
      BY <1>1, <3>1 DEF Ordered
    <3>3. key[h.p[1]] <= key[h.p[k]]
      BY <1>2, <3>1
    <3>4. key[h.p[1]] \in Int /\ key[h.p[k]] \in Int /\ key[h.p[m]] \in Int
      BY <1>1, <3>1
    <3> HIDE DEF k
    <3> QED BY <3>2, <3>3, <3>4
  <2> QED BY <2>1, <2>2
<1>3. D \subseteq Good
  <2>1. rank \in [D -> Nat]
    BY <1>1
  <2> HIDE DEF D, rank, Good
  <2> QED BY <1>2, <2>1, RankInduction
<1> QED
  BY <1>3 DEF HeapTop

\* In a whole heap every element but the one at i is apart from the hole there.
LEMMA HoleIn ==
    ASSUME NEW E, NEW key \in [E -> Int], NEW h, IsHeap(h, key, E),
           NEW n \in 0 .. Len(h.p), NEW i \in 1 .. n
    PROVE  Know(h, But(n, i)) /\ Apart(h, key, n, i) /\ Bypass(h, key, n, i)
<1> DEFINE L == Len(h.p)
<1>1. /\ L \in Nat /\ Ordered(h, key, L)
      /\ \A m \in 1 .. L : h.p[m] \in E /\ h.idx[h.p[m]] = m
  BY HeapIs
<1>2. Know(h, But(n, i))
  BY <1>1 DEF Know, But
<1>3. Apart(h, key, n, i)
  <2>1. \A m \in 2 .. n : m \in 2 .. L
    BY <1>1
  <2> HIDE DEF L
  <2> QED BY <1>1, <2>1 DEF Apart, Ordered
<1>4. ASSUME NEW m \in 2 .. n, m \div 2 = i, i > 1 PROVE key[h.p[i \div 2]] <= key[h.p[m]]
  <2>1. i \in 2 .. L /\ i \in 1 .. L /\ m \in 2 .. L /\ m \in 1 .. L /\ i \div 2 \in 1 .. L
    BY <1>1, <1>4, HalfIs
  <2>2. key[h.p[i \div 2]] <= key[h.p[i]]
    BY <1>1, <2>1 DEF Ordered
  <2>3. key[h.p[i]] <= key[h.p[m]]
    BY <1>1, <1>4, <2>1 DEF Ordered
  <2>4. key[h.p[i \div 2]] \in Int /\ key[h.p[i]] \in Int /\ key[h.p[m]] \in Int
    BY <1>1, <2>1
  <2> QED BY <2>2, <2>3, <2>4
<1> QED
  BY <1>2, <1>3, <1>4 DEF Bypass

LEMMA ExtendIs ==
    ASSUME NEW P, NEW I, NEW h \in [p : P, idx : I], NEW e
    PROVE  Extend(h, e) = [p |-> Append(h.p, e), idx |-> h.idx]
BY DEF Extend

LEMMA ShrinkIs ==
    ASSUME NEW P, NEW I, NEW h \in [p : P, idx : I]
    PROVE  Shrink(h) = [p |-> SubSeq(h.p, 1, Len(h.p) - 1), idx |-> h.idx]
BY DEF Shrink

LEMMA ForgetIs ==
    ASSUME NEW P, NEW E, NEW h \in [p : P, idx : [E -> Nat]], NEW e
    PROVE  Forget(h, e) = [p |-> h.p, idx |-> [h.idx EXCEPT ![e] = 0]]
BY DEF Forget

LEMMA PushKeeps ==
    ASSUME NEW E, NEW key \in [E -> Int], NEW h, IsHeap(h, key, E), NEW e \in E, h.idx[e] = 0
    PROVE  LET u == Push(h, key, e)
           IN  /\ IsHeap(u, key, E)
               /\ Len(u.p) = Len(h.p) + 1
               /\ \A x \in E : u.idx[x] # 0 <=> x = e \/ h.idx[x] # 0
<1> DEFINE n == Len(h.p) + 1
           g == Extend(h, e)
           u == ShiftUp(g, key, n, e)
<1>0. /\ Len(h.p) \in Nat /\ Ordered(h, key, Len(h.p)) /\ h \in Heaps(E, Len(h.p))
      /\ \A x \in E : h.idx[x] # 0 => h.idx[x] \in 1 .. Len(h.p) /\ h.p[h.idx[x]] = x
      /\ \A m \in 1 .. Len(h.p) : h.p[m] \in E /\ h.idx[h.p[m]] = m
  BY HeapIs
<1>1. n \in Nat /\ n \in 0 .. n /\ n \in 1 .. n
  BY <1>0
<1>2. h.p \in Seq(E) /\ h.idx \in [E -> Nat] /\ h = [p |-> h.p, idx |-> h.idx]
  BY DEF IsHeap
<1>3. g.p = Append(h.p, e) /\ g.idx = h.idx /\ g = [p |-> Append(h.p, e), idx |-> h.idx]
  <2>1. g = [p |-> Append(h.p, e), idx |-> h.idx]
    <3>1. h \in [p : Seq(E), idx : [E -> Nat]]
      BY DEF IsHeap
    <3> QED BY ONLY <3>1, ExtendIs
  <2> HIDE DEF g
  <2> QED BY <2>1
<1>4. /\ Append(h.p, e) \in Seq(E) /\ Len(Append(h.p, e)) = n /\ Append(h.p, e)[n] = e
      /\ \A m \in 1 .. Len(h.p) : Append(h.p, e)[m] = h.p[m]
  BY <1>2, AppendProperties
<1>5. Append(h.p, e) \in [1 .. n -> E]
  BY <1>4, LenProperties
<1>6. g \in Heaps(E, n)
  <2>1. [p |-> Append(h.p, e), idx |-> h.idx] \in Heaps(E, n)
    BY <1>2, <1>5 DEF Heaps
  <2> QED BY <1>3, <2>1, Zenon
<1>7. \A m \in But(n, n) : m \in 1 .. Len(h.p) /\ g.p[m] = h.p[m] /\ g.p[m] # e
  <2> SUFFICES ASSUME NEW m \in But(n, n)
               PROVE  m \in 1 .. Len(h.p) /\ g.p[m] = h.p[m] /\ g.p[m] # e
    OBVIOUS
  <2>1. m \in 1 .. Len(h.p)
    BY <1>0 DEF But
  <2>2. g.p[m] = h.p[m]
    BY <1>3, <1>4, <2>1
  <2>3. h.idx[h.p[m]] # h.idx[e]
    BY <1>0, <2>1
  <2> QED BY <2>1, <2>2, <2>3
<1>8. Push(h, key, e) = u
  BY DEF Push
<1>9. \A m \in 1 .. Len(h.p) : g.p[m] = h.p[m] /\ m \in But(n, n)
  BY <1>0, <1>3, <1>4 DEF But
<1> HIDE DEF g, u
<1>10. Know(g, But(n, n)) /\ Absent(g, But(n, n), e)
  BY <1>0, <1>3, <1>7 DEF Know, Absent
<1>11. Apart(g, key, n, n)
  <2> SUFFICES ASSUME NEW m \in 2 .. n, m # n PROVE key[g.p[m \div 2]] <= key[g.p[m]]
    BY DEF Apart
  <2>0. m \in 2 .. Len(h.p)
    BY <1>0
  <2>1. m \in 2 .. Len(h.p) /\ m \in 1 .. Len(h.p) /\ m \div 2 \in 1 .. Len(h.p)
    <3> HIDE DEF n
    <3> QED BY <1>0, <2>0, HalfIs
  <2>2. g.p[m] = h.p[m] /\ g.p[m \div 2] = h.p[m \div 2]
    BY <1>9, <2>1
  <2> QED BY <1>0, <2>1, <2>2 DEF Ordered
<1>12. Bypass(g, key, n, n) /\ NotAbove(g, key, n, n, e)
  <2>1. \A m \in 2 .. n : m \div 2 # n
    BY <1>1, HalfIs
  <2> QED BY <2>1 DEF Bypass, NotAbove
<1>13. Filled(E, n, g, u, key, n, n, e)
  <2> HIDE DEF n
  <2> QED BY <1>1, <1>6, <1>10, <1>11, <1>12, ShiftUpFills DEF u
<1>14. u \in Heaps(E, n) /\ Know(u, 1 .. n) /\ Ordered(u, key, n)
  BY <1>13 DEF Filled, Settled
<1>15. \A x \in E : In(g, But(n, n), x) <=> h.idx[x] # 0
  <2> SUFFICES ASSUME NEW x \in E PROVE In(g, But(n, n), x) <=> h.idx[x] # 0
    OBVIOUS
  <2>1. h.idx[x] # 0 => h.idx[x] \in But(n, n) /\ g.p[h.idx[x]] = x
    BY <1>0, <1>9
  <2>2. h.idx[x] \in But(n, n) => h.idx[x] # 0
    BY DEF But
  <2> QED BY <1>3, <2>1, <2>2 DEF In
<1>16. ASSUME NEW x \in E
       PROVE  /\ u.idx[x] # 0 <=> x = e \/ h.idx[x] # 0
              /\ u.idx[x] # 0 => In(u, 1 .. n, x)
  <2>1. In(u, 1 .. n, x) <=> x = e \/ h.idx[x] # 0
    BY <1>13, <1>15 DEF Filled, Settled
  <2>2. h.idx[x] = 0 /\ x # e => u.idx[x] = 0
    BY <1>3, <1>13, <1>15 DEF Filled, Settled
  <2>3. In(u, 1 .. n, x) => u.idx[x] # 0
    BY DEF In
  <2> QED BY <2>1, <2>2, <2>3
<1>17. IsHeap(u, key, E) /\ Len(u.p) = n
  <2> HIDE DEF n
  <2> QED BY <1>1, <1>14, <1>16, HeapFrom
<1> QED
  BY <1>8, <1>16, <1>17

LEMMA AdjustKeeps ==
    ASSUME NEW E, NEW key \in [E -> Int], NEW h, IsHeap(h, key, E), NEW e \in E, h.idx[e] # 0,
           NEW keys \in [E -> Int], \A x \in E : x # e => keys[x] = key[x]
    PROVE  LET u == Adjust(h, keys, e)
           IN  /\ IsHeap(u, keys, E)
               /\ Len(u.p) = Len(h.p)
               /\ \A x \in E : u.idx[x] # 0 <=> h.idx[x] # 0
<1> DEFINE n == Len(h.p)
           i == h.idx[e]
           u == Settle(h, keys, n, i, e)
<1>0. /\ n \in Nat /\ Ordered(h, key, n) /\ h \in Heaps(E, n)
      /\ \A x \in E : h.idx[x] # 0 => h.idx[x] \in 1 .. n /\ h.p[h.idx[x]] = x
      /\ \A m \in 1 .. n : h.p[m] \in E /\ h.idx[h.p[m]] = m
  BY HeapIs
<1>1. n \in 0 .. n /\ n \in 0 .. Len(h.p) /\ i \in 1 .. n /\ h.p[i] = e
  BY <1>0
<1>2. Know(h, But(n, i)) /\ Apart(h, key, n, i) /\ Bypass(h, key, n, i)
  <2> HIDE DEF n, i
  <2> QED BY <1>1, HoleIn
<1>3. \A m \in 1 .. n : m # i => h.p[m] # e /\ keys[h.p[m]] = key[h.p[m]]
  BY <1>0
<1>4. Adjust(h, keys, e) = u
  BY DEF Adjust
<1>5. \A x \in E : In(h, But(n, i), x) <=> h.idx[x] # 0 /\ x # e
  <2> SUFFICES ASSUME NEW x \in E PROVE In(h, But(n, i), x) <=> h.idx[x] # 0 /\ x # e
    OBVIOUS
  <2>1. ASSUME In(h, But(n, i), x) PROVE h.idx[x] # 0 /\ x # e
    BY <2>1 DEF In, But
  <2>2. ASSUME h.idx[x] # 0, x # e PROVE In(h, But(n, i), x)
    <3>1. h.idx[x] \in 1 .. n /\ h.p[h.idx[x]] = x
      BY <1>0, <2>2
    <3>2. h.idx[x] # i
      BY <1>1, <2>2, <3>1
    <3> QED BY <3>1, <3>2 DEF In, But
  <2> QED BY <2>1, <2>2
<1> HIDE DEF n, i, u
<1>6. Absent(h, But(n, i), e)
  BY <1>3 DEF Absent, But
<1>7. Apart(h, keys, n, i)
  <2> SUFFICES ASSUME NEW m \in 2 .. n, m # i, m \div 2 # i
               PROVE  keys[h.p[m \div 2]] <= keys[h.p[m]]
    BY DEF Apart
  <2>1. m \in 1 .. n /\ m \div 2 \in 1 .. n
    BY <1>0, HalfIs
  <2> QED BY <1>2, <1>3, <2>1 DEF Apart
<1>8. Bypass(h, keys, n, i)
  <2> SUFFICES ASSUME NEW m \in 2 .. n, m \div 2 = i, i > 1
               PROVE  keys[h.p[i \div 2]] <= keys[h.p[m]]
    BY DEF Bypass
  <2>1. m \in 1 .. n /\ i \div 2 \in 1 .. n /\ m # i /\ i \div 2 # i
    BY <1>0, <1>1, HalfIs
  <2> QED BY <1>2, <1>3, <2>1 DEF Bypass
<1>9. Filled(E, n, h, u, keys, n, i, e)
  BY <1>0, <1>1, <1>2, <1>6, <1>7, <1>8, SettleFills DEF u
<1>10. u \in Heaps(E, n) /\ Know(u, 1 .. n) /\ Ordered(u, keys, n)
  BY <1>9 DEF Filled, Settled
<1>11. ASSUME NEW x \in E
       PROVE  /\ u.idx[x] # 0 <=> h.idx[x] # 0
              /\ u.idx[x] # 0 => In(u, 1 .. n, x)
  <2>1. In(u, 1 .. n, x) <=> x = e \/ h.idx[x] # 0
    BY <1>5, <1>9 DEF Filled, Settled
  <2>2. h.idx[x] = 0 /\ x # e => u.idx[x] = 0
    BY <1>5, <1>9 DEF Filled, Settled
  <2>3. In(u, 1 .. n, x) => u.idx[x] # 0
    BY DEF In
  <2> QED BY <2>1, <2>2, <2>3
<1>12. IsHeap(u, keys, E) /\ Len(u.p) = n
  <2>1. \A x \in E : u.idx[x] # 0 => In(u, 1 .. n, x)
    BY <1>11
  <2> HIDE DEF u, n
  <2> QED BY ONLY <1>0, <1>10, <2>1, HeapFrom
<1> QED
  BY <1>4, <1>11, <1>12 DEF n

\* Without a child, the hole does not move down.
LEMMA ShiftDownStays ==
    ASSUME NEW h, NEW key, NEW e, NEW n \in Nat, NEW i \in 1 .. n + 1, ~(2 * i <= n)
    PROVE  ShiftDown(h, key, n, i, e) = Place(h, i, e)
<1>1. PICK f : /\ Shifts(f, h, 1 .. n + 1, DownMoves(h, key, n, e), Children(h, key, n), e)
               /\ ShiftDown(h, key, n, i, e) = f[i]
  BY ShiftDownIs
<1>2. i \notin DownMoves(h, key, n, e)
  BY DEF DownMoves
<1> QED
  BY <1>1, <1>2 DEF Shifts

\* All but the last place of u is a heap of the elements in Rest.
AllButLast(E, L, u, key, x, Rest) ==
    /\ u \in Heaps(E, L) /\ Know(u, 1 .. L - 1) /\ Ordered(u, key, L - 1)
    /\ \A y \in E : In(u, 1 .. L - 1, y) <=> y \in Rest
    /\ \A y \in E : y \notin Rest /\ y # x => u.idx[y] = 0

\* r is a heap of the n elements in Rest.
HeapOf(r, key, E, n, Rest) ==
    /\ IsHeap(r, key, E)
    /\ Len(r.p) = n
    /\ \A y \in E : r.idx[y] # 0 <=> y \in Rest

\* The last place goes, and x is forgotten.
LEMMA RemovedFrom ==
    ASSUME NEW E, NEW key, NEW L \in Nat \ {0}, NEW u, NEW x \in E, NEW Rest,
           x \notin Rest, AllButLast(E, L, u, key, x, Rest)
    PROVE  HeapOf(Forget(Shrink(u), x), key, E, L - 1, Rest)
<1> DEFINE n == L - 1
           s == Shrink(u)
           r == Forget(s, x)
<1>0. /\ u \in Heaps(E, L) /\ Know(u, 1 .. n) /\ Ordered(u, key, n)
      /\ \A y \in E : In(u, 1 .. n, y) <=> y \in Rest
      /\ \A y \in E : y \notin Rest /\ y # x => u.idx[y] = 0
  BY DEF AllButLast
<1>1. u.p \in [1 .. L -> E] /\ u.idx \in [E -> Nat]
  BY <1>0 DEF Heaps
<1>2. u.p \in Seq(E) /\ Len(u.p) = L
  <2>1. u.p \in Seq(E)
    BY <1>1, IsASeq
  <2> QED BY <1>1, <2>1, LenProperties
<1>3. SubSeq(u.p, 1, n) \in [1 .. n -> E] /\ \A m \in 1 .. n : SubSeq(u.p, 1, n)[m] = u.p[m]
  <2>1. n \in Nat /\ 1 \in 1 .. Len(u.p) + 1 /\ n \in 0 .. Len(u.p)
    BY <1>2
  <2>2. /\ SubSeq(u.p, 1, n) \in Seq(E)
        /\ Len(SubSeq(u.p, 1, n)) = IF 1 <= n THEN n - 1 + 1 ELSE 0
        /\ \A m \in 1 .. n - 1 + 1 : SubSeq(u.p, 1, n)[m] = u.p[1 + m - 1]
    BY ONLY <1>2, <2>1, SubSeqProperties
  <2> HIDE DEF n
  <2>3. Len(SubSeq(u.p, 1, n)) = n
    BY <2>1, <2>2
  <2>4. SubSeq(u.p, 1, n) \in [1 .. n -> E]
    BY <2>2, <2>3, LenProperties
  <2> QED BY <2>1, <2>2, <2>4
<1>4. s = [p |-> SubSeq(u.p, 1, n), idx |-> u.idx]
  <2>1. s = [p |-> SubSeq(u.p, 1, Len(u.p) - 1), idx |-> u.idx]
    BY <1>0, ShrinkIs DEF Heaps
  <2> QED BY <1>2, <2>1
<1>5. n \in Nat
  OBVIOUS
<1> HIDE DEF n
<1>6. s \in Heaps(E, n)
  BY <1>1, <1>3, <1>4 DEF Heaps
<1>7. r = [p |-> s.p, idx |-> [s.idx EXCEPT ![x] = 0]]
  <2> HIDE DEF s
  <2> QED BY <1>6, ForgetIs DEF Heaps
<1>8. /\ \A m \in 1 .. n : r.p[m] = u.p[m]
      /\ \A y \in E : r.idx[y] = IF y = x THEN 0 ELSE u.idx[y]
  <2> HIDE DEF s
  <2>1. s.p = SubSeq(u.p, 1, n) /\ s.idx = u.idx
    BY <1>4
  <2> HIDE DEF r
  <2>2. r.p = s.p /\ r.idx = [s.idx EXCEPT ![x] = 0]
    BY <1>7
  <2>3. \A m \in 1 .. n : r.p[m] = u.p[m]
    BY ONLY <1>3, <2>1, <2>2
  <2>4. \A y \in E : r.idx[y] = IF y = x THEN 0 ELSE u.idx[y]
    BY ONLY <1>1, <2>1, <2>2
  <2> QED BY <2>3, <2>4
<1>9. r \in Heaps(E, n)
  <2>1. s.p \in [1 .. n -> E] /\ s.idx \in [E -> Nat]
    BY <1>6 DEF Heaps
  <2> HIDE DEF r, s
  <2> QED BY <1>7, <2>1 DEF Heaps
<1>10. /\ \A m \in 1 .. n : u.p[m] \in E /\ u.idx[u.p[m]] = m /\ m \in 1 .. L
       /\ Ordered(u, key, n)
       /\ \A y \in E : In(u, 1 .. n, y) <=> y \in Rest
  <2>1. \A m \in 1 .. n : m \in 1 .. L
    BY DEF n
  <2> QED BY <1>0, <1>1, <2>1 DEF Know
<1> HIDE DEF r
<1>11. \A m \in 1 .. n : u.p[m] \in Rest
  BY <1>10 DEF In
<1>12. Know(r, 1 .. n)
  BY <1>8, <1>10, <1>11 DEF Know
<1>13. Ordered(r, key, n)
  <2> SUFFICES ASSUME NEW m \in 2 .. n PROVE key[r.p[m \div 2]] <= key[r.p[m]]
    BY DEF Ordered
  <2>1. m \in 1 .. n /\ m \div 2 \in 1 .. n
    BY <1>5, HalfIs
  <2> QED BY <1>8, <1>10, <2>1 DEF Ordered
<1>14. ASSUME NEW y \in E
       PROVE  /\ r.idx[y] # 0 <=> y \in Rest
              /\ r.idx[y] # 0 => In(r, 1 .. n, y)
  <2>1. CASE y \in Rest
    <3>1. r.idx[y] = u.idx[y] /\ u.idx[y] \in 1 .. n /\ u.p[u.idx[y]] = y
      BY <1>8, <1>10, <2>1 DEF In
    <3>2. In(r, 1 .. n, y)
      BY <1>8, <3>1 DEF In
    <3>3. r.idx[y] # 0
      BY <3>1
    <3> QED BY <2>1, <3>2, <3>3
  <2>2. CASE y \notin Rest
    <3>1. r.idx[y] = 0
      BY <1>0, <1>8, <2>2
    <3> QED BY <2>2, <3>1
  <2> QED BY <2>1, <2>2
<1>15. IsHeap(r, key, E) /\ Len(r.p) = n
  BY <1>5, <1>9, <1>12, <1>13, <1>14, HeapFrom
<1> QED
  BY <1>14, <1>15 DEF n, r, HeapOf

LEMMA EraseKeeps ==
    ASSUME NEW E, NEW key \in [E -> Int], NEW h, IsHeap(h, key, E), NEW x \in E, h.idx[x] # 0
    PROVE  LET r == Erase(h, key, x)
           IN  /\ IsHeap(r, key, E)
               /\ Len(r.p) = Len(h.p) - 1
               /\ \A y \in E : r.idx[y] # 0 <=> y # x /\ h.idx[y] # 0
<1> DEFINE L == Len(h.p)
           n == L - 1
           i == h.idx[x]
           e == h.p[L]
           u == Settle(h, key, n, i, e)
           Rest == {y \in E : y # x /\ h.idx[y] # 0}
<1>0. /\ L \in Nat /\ Ordered(h, key, L) /\ h \in Heaps(E, L)
      /\ \A y \in E : h.idx[y] # 0 => h.idx[y] \in 1 .. L /\ h.p[h.idx[y]] = y
      /\ \A m \in 1 .. L : h.p[m] \in E /\ h.idx[h.p[m]] = m
  BY HeapIs
<1>1. /\ L \in Nat \ {0} /\ n \in Nat /\ n \in 0 .. L /\ n = L - 1
      /\ i \in 1 .. L /\ h.p[i] = x /\ L \in 1 .. L /\ e \in E /\ h.idx[e] = L
      /\ \A m \in 1 .. n : m \in 1 .. L
  BY <1>0
<1>2. Erase(h, key, x) = Forget(Shrink(u), x)
  BY DEF Erase
<1>3. /\ u \in Heaps(E, L) /\ Know(u, 1 .. n) /\ Ordered(u, key, n)
      /\ \A y \in E : In(u, 1 .. n, y) <=> y \in Rest
      /\ \A y \in E : y \notin Rest /\ y # x => u.idx[y] = 0
  <2>1. CASE i # L
    <3>1. i \in 1 .. n /\ e # x
      BY <1>0, <1>1, <2>1
    <3>2. Know(h, But(n, i)) /\ Apart(h, key, n, i) /\ Bypass(h, key, n, i)
      <4> HIDE DEF n, i
      <4> QED BY <1>1, <3>1, HoleIn
    <3>3. Absent(h, But(n, i), e)
      BY <1>0, <1>1 DEF Absent, But
    <3>4. \A y \in E : In(h, But(n, i), y) <=> h.idx[y] # 0 /\ y # x /\ y # e
      <4> SUFFICES ASSUME NEW y \in E
                   PROVE  In(h, But(n, i), y) <=> h.idx[y] # 0 /\ y # x /\ y # e
        OBVIOUS
      <4>1. ASSUME In(h, But(n, i), y) PROVE h.idx[y] # 0 /\ y # x /\ y # e
        BY <1>1, <4>1 DEF In, But
      <4>2. ASSUME h.idx[y] # 0, y # x, y # e PROVE In(h, But(n, i), y)
        <5>1. h.idx[y] \in 1 .. L /\ h.p[h.idx[y]] = y
          BY <1>0, <4>2
        <5>2. h.idx[y] # i /\ h.idx[y] # L
          BY <1>1, <4>2, <5>1
        <5>3. h.idx[y] \in 1 .. n
          BY <1>1, <5>1, <5>2
        <5> QED BY <5>1, <5>2, <5>3 DEF In, But
      <4> QED BY <4>1, <4>2
    <3>5. \A y \in E : y \in Rest <=> y = e \/ In(h, But(n, i), y)
      BY <1>1, <3>1, <3>4
    <3>6. \A y \in E : y \notin Rest /\ y # x => h.idx[y] = 0
      OBVIOUS
    <3> HIDE DEF L, n, i, e, u, Rest
    <3>7. Filled(E, L, h, u, key, n, i, e)
      BY <1>0, <1>1, <3>1, <3>2, <3>3, SettleFills DEF u
    <3> QED BY <3>5, <3>6, <3>7 DEF Filled, Settled
  <2>2. CASE i = L
    <3>1. e = x
      BY <1>1, <2>2
    <3>2. ~(i > 1 /\ key[h.p[i \div 2]] > key[e])
      <4> SUFFICES ASSUME i > 1 PROVE ~(key[h.p[i \div 2]] > key[e])
        OBVIOUS
      <4>1. i \in 2 .. L /\ i \div 2 \in 1 .. L
        BY <1>1, HalfIs
      <4>2. key[h.p[i \div 2]] <= key[h.p[i]]
        BY <1>0, <4>1 DEF Ordered
      <4>3. key[h.p[i \div 2]] \in Int /\ key[e] \in Int /\ h.p[i] = e
        BY <1>0, <1>1, <2>2, <4>1
      <4> HIDE DEF i, e
      <4> QED BY <4>2, <4>3
    <3>3. u = ShiftDown(h, key, n, i, e)
      BY <3>2 DEF Settle
    <3>4. i \in 1 .. n + 1 /\ ~(2 * i <= n) /\ n \in Nat
      BY <1>1, <2>2
    <3>5. u = Place(h, i, e)
      <4> HIDE DEF i, e, n, u
      <4> QED BY <3>3, <3>4, ShiftDownStays
    <3>6. i \in 1 .. L /\ e \in E /\ L \in Nat
      BY <1>1
    <3>7. /\ u \in Heaps(E, L)
          /\ \A m \in 1 .. L : u.p[m] = IF m = i THEN e ELSE h.p[m]
          /\ \A y \in E : u.idx[y] = IF y = e THEN i ELSE h.idx[y]
      <4> HIDE DEF i, e, u, L
      <4> QED BY <1>0, <3>5, <3>6, PlaceIs
    <3>8. (\A m \in 1 .. L : u.p[m] = h.p[m]) /\ \A y \in E : u.idx[y] = h.idx[y]
      BY <1>1, <2>2, <3>1, <3>7
    <3> HIDE DEF u
    <3>9. Know(u, 1 .. n)
      BY <1>0, <1>1, <3>8 DEF Know
    <3>10. Ordered(u, key, n)
      <4> SUFFICES ASSUME NEW m \in 2 .. n PROVE key[u.p[m \div 2]] <= key[u.p[m]]
        BY DEF Ordered
      <4>1. m \in 2 .. L /\ m \in 1 .. L /\ m \div 2 \in 1 .. L
        BY <1>1, HalfIs
      <4> QED BY <1>0, <3>8, <4>1 DEF Ordered
    <3>11. ASSUME NEW y \in E PROVE In(u, 1 .. n, y) <=> y \in Rest
      <4>1. ASSUME In(u, 1 .. n, y) PROVE y \in Rest
        BY <1>1, <2>2, <3>8, <4>1 DEF In
      <4>2. ASSUME y \in Rest PROVE In(u, 1 .. n, y)
        <5>1. h.idx[y] \in 1 .. L /\ h.p[h.idx[y]] = y /\ y # x
          BY <1>0, <4>2
        <5>2. h.idx[y] # L
          BY <1>1, <2>2, <5>1
        <5>3. h.idx[y] \in 1 .. n
          BY <1>1, <5>1, <5>2
        <5> QED BY <3>8, <5>1, <5>3 DEF In
      <4> QED BY <4>1, <4>2
    <3>12. \A y \in E : y \notin Rest /\ y # x => u.idx[y] = 0
      BY <3>8
    <3> QED BY <3>7, <3>9, <3>10, <3>11, <3>12
  <2> QED BY <2>1, <2>2
<1>4. x \notin Rest
  OBVIOUS
<1>5. HeapOf(Forget(Shrink(u), x), key, E, L - 1, Rest)
  <2>1. AllButLast(E, L, u, key, x, Rest)
    BY <1>3 DEF AllButLast
  <2>2. L \in Nat \ {0}
    BY <1>1
  <2> HIDE DEF u, L, i, e, n, Rest
  <2> QED BY <1>4, <2>1, <2>2, RemovedFrom
<1> QED
  BY <1>2, <1>5 DEF HeapOf

\* Popping is erasing the top.
LEMMA PopIs ==
    ASSUME NEW E, NEW key \in [E -> Int], NEW h, IsHeap(h, key, E), ~IsEmpty(h)
    PROVE  /\ HeapTop(h) \in E /\ h.idx[HeapTop(h)] # 0
           /\ Pop(h, key) = Erase(h, key, HeapTop(h))
<1> DEFINE L == Len(h.p)
<1>1. /\ L \in Nat /\ \A m \in 1 .. L : h.p[m] \in E /\ h.idx[h.p[m]] = m
  BY HeapIs
<1>2. L # 0
  <2>1. h.p \in Seq(E) /\ h.p # <<>>
    BY DEF IsHeap, IsEmpty
  <2> QED BY <2>1, EmptySeq
<1>3. h.p[1] \in E /\ h.idx[h.p[1]] = 1
  BY <1>1, <1>2
<1>4. Settle(h, key, L - 1, 1, h.p[L]) = ShiftDown(h, key, L - 1, 1, h.p[L])
  BY DEF Settle
<1> QED
  BY <1>3, <1>4 DEF HeapTop, Pop, Erase

----------------------------------------------------------------------------
(* The operations once more, with names for the keys and heaps before and  *)
(* after, as the steps of the modules that use a heap need them.           *)

LEMMA Pushed ==
    ASSUME NEW E, NEW key \in [E -> Int], NEW h, IsHeap(h, key, E), NEW e \in E, h.idx[e] = 0,
           NEW keys \in [E -> Int], \A x \in E : x # e => keys[x] = key[x],
           NEW u, u = Push(h, keys, e)
    PROVE  /\ IsHeap(u, keys, E)
           /\ Len(u.p) = Len(h.p) + 1
           /\ \A x \in E : u.idx[x] # 0 <=> x = e \/ h.idx[x] # 0
<1>1. IsHeap(h, keys, E)
  BY OtherKeys
<1> QED
  BY <1>1, PushKeeps

LEMMA Adjusted ==
    ASSUME NEW E, NEW key \in [E -> Int], NEW h, IsHeap(h, key, E), NEW e \in E, h.idx[e] # 0,
           NEW keys \in [E -> Int], \A x \in E : x # e => keys[x] = key[x],
           NEW u, u = Adjust(h, keys, e)
    PROVE  /\ IsHeap(u, keys, E)
           /\ Len(u.p) = Len(h.p)
           /\ \A x \in E : u.idx[x] # 0 <=> h.idx[x] # 0
BY AdjustKeeps

LEMMA Erased ==
    ASSUME NEW E, NEW key \in [E -> Int], NEW h, IsHeap(h, key, E), NEW e \in E,
           NEW u, u = Erase(h, key, e)
    PROVE  /\ IsHeap(u, key, E)
           /\ h.idx[e] # 0 => Len(u.p) = Len(h.p) - 1
           /\ \A x \in E : u.idx[x] # 0 <=> x # e /\ h.idx[x] # 0
<1>1. CASE h.idx[e] = 0
  BY <1>1 DEF Erase
<1>2. CASE h.idx[e] # 0
  BY <1>2, EraseKeeps
<1> QED
  BY <1>1, <1>2
=============================================================================
