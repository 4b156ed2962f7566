---------------------------- MODULE Files_proofs ----------------------------
(***************************************************************************)
(* Proofs about the library's files: what is mapped has been read, the     *)
(* directories up to the last slash are there, the output of a shell       *)
(* command is its own, and a downloaded file is the remote one.            *)
(***************************************************************************)
EXTENDS FileMap, MakeDirs, LibC, Download, SequenceTheorems, TLAPS

----------------------------------------------------------------------------
(* vpk_mmap.c                                                              *)

MapTypeInv ==
    /\ onDisk \in [version : Nat, bytes : Nat, size : Nat]
    /\ onDisk.bytes <= onDisk.size /\ onDisk.size < SIZE_T
    /\ loader \in [pc : {"none", "sized", "made"}, offset : Nat, size : Nat,
                   file_size : Nat, overtaken : BOOLEAN]
    /\ loader.size < SIZE_T
    /\ saving \in BOOLEAN
    /\ map \in [length : Nat, got : Nat, version : Nat]

\* What was measured is still so when it is read, if nobody writes meanwhile;
\* it is the size of the file if an int has room for it.
MeasuredInv == loader.pc = "sized" /\ ~loader.overtaken /\ onDisk.bytes < INT \div 2 =>
    loader.offset < loader.file_size /\ loader.file_size = onDisk.bytes

MapInv == MapTypeInv /\ MeasuredInv /\ MappedIsRead

LEMMA SmallMod ==
    ASSUME NEW x \in Nat, x < SIZE_T
    PROVE  x % SIZE_T = x
BY FileMapAssumption

\* ftell's result: a number that a size_t can hold, and the right one if an int
\* can hold it.
LEMMA Measured ==
    ASSUME NEW bytes \in Nat
    PROVE  /\ FileSize(bytes) \in Nat
           /\ bytes < INT \div 2 => FileSize(bytes) = bytes
<1>1. INT \in Nat /\ INT > 0 /\ SIZE_T \in Nat /\ SIZE_T > 0 /\ INT <= SIZE_T
  BY FileMapAssumption
<1> DEFINE r == bytes % INT
           int == IF r < INT \div 2 THEN r ELSE r - INT
<1>2. r \in Int
  BY <1>1
<1>3. int \in Int
  BY <1>1, <1>2
<1>4. FileSize(bytes) = int % SIZE_T
  BY DEF FileSize
<1>5. ASSUME bytes < INT \div 2 PROVE int = bytes /\ bytes < SIZE_T
  <2>1. bytes < INT
    BY <1>1, <1>5
  <2>2. r = bytes
    BY <1>1, <2>1
  <2> QED BY <1>1, <1>5, <2>1, <2>2
<1>6. int % SIZE_T \in Nat
  <2> HIDE DEF int
  <2> QED BY <1>1, <1>3
<1> HIDE DEF int
<1> QED BY <1>4, <1>5, <1>6, SmallMod

LEMMA MapReadsKeeps ==
    ASSUME MapInv, MapReads
    PROVE  MapInv'
<1> USE DEF MapInv, MapReads
<1> DEFINE rest == onDisk.bytes - loader.offset
<1>1. /\ loader.pc = "sized" /\ loader' = [loader EXCEPT !.pc = "made"]
      /\ map' = [length |-> Length, version |-> onDisk.version,
                 got |-> IF rest < 0 THEN 0 ELSE IF Length < rest THEN Length ELSE rest]
      /\ UNCHANGED <<onDisk, saving>>
  OBVIOUS
<1>2. Length \in {loader.size, loader.file_size}
  BY DEF Length, MapLength
<1>3. /\ loader.size \in Nat /\ loader.size < SIZE_T /\ loader.file_size \in Nat
      /\ loader.offset \in Nat /\ onDisk.bytes \in Nat /\ onDisk.bytes < SIZE_T
      /\ rest \in Int /\ onDisk.version \in Nat /\ SIZE_T \in Nat
  BY FileMapAssumption DEF MapTypeInv
<1>4. ASSUME loader.file_size = onDisk.bytes,
             loader.offset = 0 \/ loader.offset + loader.size <= onDisk.bytes
      PROVE  Length = IF loader.size < onDisk.bytes THEN loader.size ELSE onDisk.bytes
  <2>1. (loader.offset + loader.size) % SIZE_T = loader.offset + loader.size
    BY <1>3, <1>4, SmallMod
  <2> QED
    BY <1>3, <1>4, <2>1 DEF Length, MapLength
<1>5. /\ loader'.pc = "made" /\ loader'.offset = loader.offset /\ loader'.size = loader.size
      /\ loader'.file_size = loader.file_size /\ loader'.overtaken = loader.overtaken
  BY <1>1 DEF MapTypeInv
<1>6. MapTypeInv'
  BY <1>1, <1>2, <1>3 DEF MapTypeInv
<1>7. MeasuredInv'
  BY <1>5 DEF MeasuredInv
<1>8. MappedIsRead'
  <2> SUFFICES ASSUME ~loader.overtaken, onDisk.bytes < INT \div 2,
                      loader.offset = 0 \/ loader.offset + loader.size <= onDisk.bytes
               PROVE  /\ map'.got = map'.length
                      /\ map'.length = IF loader.size < onDisk.bytes THEN loader.size
                                       ELSE onDisk.bytes
    BY <1>1, <1>5 DEF MappedIsRead, Settled
  <2>1. loader.offset < onDisk.bytes /\ loader.file_size = onDisk.bytes
    BY <1>1 DEF MeasuredInv
  <2>2. Length = IF loader.size < onDisk.bytes THEN loader.size ELSE onDisk.bytes
    BY <1>4, <2>1
  <2>3. rest >= Length /\ Length \in Nat
    BY <1>3, <2>1, <2>2
  <2> QED BY <1>1, <1>3, <2>2, <2>3
<1> QED
  BY <1>6, <1>7, <1>8

LEMMA MapNextInv == MapInv /\ [FileMapNext]_fileMapVars => MapInv'
<1> SUFFICES ASSUME MapInv, [FileMapNext]_fileMapVars PROVE MapInv'
  OBVIOUS
<1> USE FileMapAssumption DEF MapInv
<1>1. ASSUME NEW size \in FileSizes, SaveOpens(size) PROVE MapInv'
  <2>a. /\ onDisk' \in [version : Nat, bytes : Nat, size : Nat]
        /\ onDisk'.bytes <= onDisk'.size /\ onDisk'.size < SIZE_T
    <3>1. onDisk' = [version |-> onDisk.version + 1, bytes |-> 0, size |-> size]
      BY <1>1 DEF SaveOpens
    <3>2. onDisk.version + 1 \in Nat /\ size \in Nat /\ size < SIZE_T
      BY DEF MapTypeInv
    <3> QED
      BY <3>1, <3>2
  <2>b. loader' = [loader EXCEPT !.overtaken = TRUE]
    BY <1>1 DEF SaveOpens, Overtake
  <2>1. MapTypeInv'
    BY <1>1, <2>a, <2>b DEF SaveOpens, MapTypeInv
  <2>2. loader'.overtaken /\ loader'.pc = loader.pc /\ loader'.offset = loader.offset
        /\ loader'.file_size = loader.file_size
    BY <1>1 DEF SaveOpens, Overtake, MapTypeInv
  <2> QED
    BY <2>1, <2>2 DEF MeasuredInv, MappedIsRead, Settled
<1>2. CASE SaveWrites
  <2>1. PICK n \in onDisk.bytes + 1 .. onDisk.size : onDisk' = [onDisk EXCEPT !.bytes = n]
    BY <1>2 DEF SaveWrites
  <2>2. n \in Nat /\ n <= onDisk.size
    BY <2>1 DEF MapTypeInv
  <2>3. loader' = [loader EXCEPT !.overtaken = TRUE] /\ map' = map
    BY <1>2 DEF SaveWrites, Overtake
  <2>4. MapTypeInv'
    <3>1. onDisk' \in [version : Nat, bytes : Nat, size : Nat]
      BY <2>1, <2>2 DEF MapTypeInv
    <3>2. onDisk'.bytes <= onDisk'.size /\ onDisk'.size < SIZE_T
      BY <2>1, <2>2 DEF MapTypeInv
    <3> QED
      BY <1>2, <3>1, <3>2, <2>3 DEF MapTypeInv, SaveWrites
  <2>5. loader'.overtaken /\ loader'.pc = loader.pc /\ loader'.offset = loader.offset
        /\ loader'.file_size = loader.file_size
    BY <2>3 DEF MapTypeInv
  <2> QED
    BY <2>4, <2>5 DEF MeasuredInv, MappedIsRead, Settled
<1>3. CASE SaveReturns \/ SaveBreaks \/ MapFails
  BY <1>3 DEF SaveReturns, SaveBreaks, MapFails, MapTypeInv, MeasuredInv, MappedIsRead, Settled
<1>4. ASSUME NEW offset \in Offsets, NEW size \in FileSizes \cup {SIZE_T - 1},
             MapOpens(offset, size)
      PROVE  MapInv'
  <2>1. /\ onDisk.bytes \in Nat /\ FileSize(onDisk.bytes) \in Nat
        /\ onDisk.bytes < INT \div 2 => FileSize(onDisk.bytes) = onDisk.bytes
        /\ size \in Nat /\ size < SIZE_T /\ offset \in Nat
    BY Measured DEF MapTypeInv
  <2>2. /\ loader' = [pc |-> "sized", offset |-> offset, size |-> size,
                      file_size |-> FileSize(onDisk.bytes), overtaken |-> saving]
        /\ offset < FileSize(onDisk.bytes) /\ map' = NoMap /\ UNCHANGED <<onDisk, saving>>
    BY <1>4 DEF MapOpens
  <2>3. MapTypeInv'
    BY <2>1, <2>2 DEF NoMap, MapTypeInv
  <2>4. MeasuredInv' /\ MappedIsRead'
    BY <2>1, <2>2 DEF MeasuredInv, MappedIsRead, Settled
  <2> QED
    BY <2>3, <2>4
<1>5. CASE vpk_mmap_destroy
  BY <1>5 DEF vpk_mmap_destroy, NoMap, MapTypeInv, MeasuredInv, MappedIsRead, Settled
<1>6. CASE UNCHANGED fileMapVars
  BY <1>6 DEF fileMapVars, MapTypeInv, MeasuredInv, MappedIsRead, Settled
<1> QED
  BY <1>1, <1>2, <1>3, <1>4, <1>5, <1>6, MapReadsKeeps DEF FileMapNext, MapRefused

(***************************************************************************)
(* vpk_mmap_create, for any widths of int and size_t: if nobody writes the *)
(* file meanwhile, what is asked for and inside it has been read in full,  *)
(* and with offset 0 what there is; of a file that an int can measure.     *)
(***************************************************************************)
THEOREM MappedIsWhole == FileMapSpec => []MappedIsRead
<1>1. FileMapInit => MapInv
  <2> SUFFICES ASSUME FileMapInit PROVE MapInv
    OBVIOUS
  <2>1. loader.pc = "none" /\ 0 < SIZE_T
    BY FileMapAssumption DEF FileMapInit
  <2>2. onDisk = [version |-> 0, bytes |-> 0, size |-> 0]
    BY DEF FileMapInit, NoVersion
  <2>3. /\ loader \in [pc : {"none", "sized", "made"}, offset : Nat, size : Nat,
                       file_size : Nat, overtaken : BOOLEAN]
        /\ loader.size = 0 /\ saving \in BOOLEAN
    BY DEF FileMapInit
  <2>4. map \in [length : Nat, got : Nat, version : Nat]
    BY DEF FileMapInit, NoMap
  <2>5. MapTypeInv
    BY <2>1, <2>2, <2>3, <2>4 DEF MapTypeInv
  <2> QED
    BY <2>1, <2>5 DEF MapInv, MeasuredInv, MappedIsRead, Settled
<1>2. MapInv => MappedIsRead
  BY DEF MapInv
<1> QED
  BY <1>1, <1>2, MapNextInv, PTL DEF FileMapSpec

----------------------------------------------------------------------------
(* vpk_ifilesys.c                                                          *)

\* What a maker's call can be; while it is under way it is at a component.
DirCalls ==
    [pc : {"idle", "stat", "access", "isdir", "mkdir"}, path : Paths \cup {<<>>},
     i : Nat, last : Nat, ret : {0, -1}, slashed : BOOLEAN, meddled : SUBSET Paths]
InRange(call) ==
    /\ call.last > 0 => call.path \in Paths /\ call.last <= Len(call.path)
    /\ call.path # <<>> =>
          call.last = IF call.slashed THEN Len(call.path) ELSE Len(call.path) - 1
    /\ call.path = <<>> => ~call.slashed
    /\ call.pc # "idle" => call.i \in 1 .. call.last
    /\ call.pc = "stat" => call.i = Len(call.path)

DirsTypeInv ==
    /\ dirs \in SUBSET Paths /\ plain \in SUBSET Paths /\ dirs \cap plain = {}
    /\ maker \in [Makers -> DirCalls]
    /\ \A m \in Makers : InRange(maker[m])

\* The directories above what is there.
Closed(ps, ds) == \A p \in ps : \A k \in 1 .. Len(p) - 1 : SubSeq(p, 1, k) \in ds
TreeInv == Closed(dirs \cup plain, dirs)

\* What a call has found still holds of the directories ds and the files fs,
\* or somebody else has meddled with it.
Succeeded(call, ds) == \A k \in 1 .. call.last : UpTo(call, k) \in ds \cup call.meddled
HasFailed(call, ds, fs) == \E k \in 1 .. call.last :
    UpTo(call, k) \in fs \cup call.meddled \/ (k > 1 /\ UpTo(call, k - 1) \notin ds)
CallInv(call, ds, fs) ==
    LET here == UpTo(call, call.i)
    IN  /\ call.pc = "isdir" => here \in ds \cup fs \cup call.meddled
        /\ call.pc = "mkdir" => here \notin ds \cup fs \/ here \in call.meddled
        /\ call.pc = "idle" =>
            IF call.ret = 0 THEN Succeeded(call, ds) ELSE HasFailed(call, ds, fs)

DirsInv == DirsTypeInv /\ TreeInv /\ \A m \in Makers : CallInv(maker[m], dirs, plain)

LEMMA PathIs ==
    ASSUME NEW p \in Paths
    PROVE  /\ Len(p) \in Nat \ {0} /\ SubSeq(p, 1, Len(p)) = p
           /\ \A k \in 1 .. Len(p) : SubSeq(p, 1, k) \in Paths /\ Len(SubSeq(p, 1, k)) = k
           /\ \A k \in 1 .. Len(p) : \A j \in 1 .. k :
                SubSeq(SubSeq(p, 1, k), 1, j) = SubSeq(p, 1, j)
<1> DEFINE S == UNION {{q[k] : k \in DOMAIN q} : q \in Paths}
<1>1. p \in Seq(S) /\ Len(p) > 0 /\ \A k \in 1 .. Len(p) : SubSeq(p, 1, k) \in Paths
  BY MakeDirsAssumption
<1> HIDE DEF S
<1>2. Len(p) \in Nat \ {0} /\ SubSeq(p, 1, Len(p)) = p
  BY <1>1, SubSeqFull
<1>3. ASSUME NEW k \in 1 .. Len(p) PROVE Len(SubSeq(p, 1, k)) = k
  BY <1>1
<1>4. ASSUME NEW k \in 1 .. Len(p), NEW j \in 1 .. k
      PROVE  SubSeq(SubSeq(p, 1, k), 1, j) = SubSeq(p, 1, j)
  BY <1>1
<1> QED
  BY <1>1, <1>2, <1>3, <1>4

\* Where a parent is, all directories above are.
LEMMA ParentIs ==
    ASSUME NEW p \in Paths, DirsTypeInv, TreeInv, HasParent(p)
    PROVE  \A k \in 1 .. Len(p) - 1 : SubSeq(p, 1, k) \in dirs
<1> SUFFICES ASSUME NEW k \in 1 .. Len(p) - 1 PROVE SubSeq(p, 1, k) \in dirs
  OBVIOUS
<1> DEFINE q == SubSeq(p, 1, Len(p) - 1)
<1>1. Len(p) \in Nat /\ k \in Nat /\ Len(p) - 1 \in 1 .. Len(p) /\ k \in 1 .. Len(p) - 1
  BY PathIs
<1>2. q \in dirs /\ Len(q) = Len(p) - 1
  <2>1. q \in dirs
    BY <1>1 DEF HasParent
  <2> QED
    BY <1>1, <2>1, PathIs
<1>3. SubSeq(q, 1, k) = SubSeq(p, 1, k) /\ SubSeq(p, 1, k) \in Paths
  BY <1>1, PathIs
<1>4. k = Len(q) => SubSeq(q, 1, k) = q
  BY <1>1, <1>2, PathIs DEF DirsTypeInv
<1>5. k # Len(q) => SubSeq(q, 1, k) \in dirs
  <2> HIDE DEF q
  <2>1. \A j \in 1 .. Len(q) - 1 : SubSeq(q, 1, j) \in dirs
    BY <1>2 DEF TreeInv, Closed
  <2> QED
    BY <1>1, <1>2, <2>1
<1> QED
  BY <1>2, <1>3, <1>4, <1>5

\* With a component done, all that were to be made until then are there.
LEMMA DoneIs ==
    ASSUME NEW call \in DirCalls, InRange(call), call.pc # "idle",
           NEW ds, Closed(ds, ds), UpTo(call, call.i) \in ds
    PROVE  LET c == Done(call, call.i)
           IN  /\ c \in DirCalls /\ InRange(c) /\ c.pc \in {"idle", "access"}
               /\ c.pc = "idle" => c.ret = 0 /\ \A k \in 1 .. c.last : UpTo(c, k) \in ds
<1> DEFINE c == Done(call, call.i)
<1>1. call.i \in 1 .. call.last /\ call.path \in Paths /\ call.last \in 1 .. Len(call.path)
  BY PathIs DEF DirCalls, InRange
<1>2. CASE call.i < call.last
  <2>1. c = [call EXCEPT !.pc = "access", !.i = call.i + 1]
    BY <1>2 DEF Done
  <2>2. call.i + 1 \in Nat /\ call.i + 1 \in 1 .. call.last
    BY <1>1, <1>2
  <2>3. /\ c.pc = "access" /\ c.i = call.i + 1 /\ c.path = call.path /\ c.last = call.last
        /\ c.slashed = call.slashed /\ c \in DirCalls
    BY <2>1, <2>2 DEF DirCalls
  <2> HIDE DEF c
  <2>4. InRange(c)
    BY <1>1, <2>2, <2>3 DEF InRange
  <2>5. c.pc \in {"idle", "access"} /\ c.pc # "idle"
    BY <2>3
  <2> QED
    BY <2>3, <2>4, <2>5 DEF c
<1>3. CASE call.i = call.last
  <2>1. c = [call EXCEPT !.pc = "idle", !.ret = 0]
    BY <1>3, <1>1 DEF Done
  <2>2. c \in DirCalls /\ InRange(c) /\ c.pc = "idle" /\ c.ret = 0
        /\ c.path = call.path /\ c.last = call.last
    BY <1>1, <2>1 DEF DirCalls, InRange
  <2>3. ASSUME NEW k \in 1 .. c.last PROVE UpTo(c, k) \in ds
    <3> DEFINE q == SubSeq(call.path, 1, call.last)
    <3>1. q \in ds /\ q \in Paths /\ Len(q) = call.last /\ SubSeq(q, 1, k) = SubSeq(call.path, 1, k)
      BY <1>1, <1>3, <2>2, <2>3, PathIs DEF UpTo
    <3>2. k = Len(q) => SubSeq(q, 1, k) = q
      BY <3>1, PathIs
    <3> HIDE DEF q
    <3>3. k # Len(q) => SubSeq(q, 1, k) \in ds
      <4>1. \A j \in 1 .. Len(q) - 1 : SubSeq(q, 1, j) \in ds
        BY <3>1 DEF Closed
      <4> QED
        BY <1>1, <2>2, <2>3, <3>1, <4>1
    <3> QED
      BY <2>2, <3>1, <3>2, <3>3 DEF UpTo
  <2> QED
    BY <2>2, <2>3
<1> QED
  BY <1>1, <1>2, <1>3

Told(call, ps) == [call EXCEPT !.meddled = @ \cup ps]

\* A call is not misled by what others do, if it is told of it.
LEMMA WitnessIs ==
    ASSUME NEW call \in DirCalls, InRange(call), NEW ds, NEW fs, NEW es, NEW gs,
           CallInv(call, ds, fs), NEW ps \in SUBSET Paths,
           \A p \in Paths \ ps : (p \in es <=> p \in ds) /\ (p \in gs <=> p \in fs)
    PROVE  LET c == Told(call, ps)
           IN  c \in DirCalls /\ InRange(c) /\ CallInv(c, es, gs)
<1> DEFINE c == Told(call, ps)
<1>1. /\ c \in DirCalls
      /\ c.pc = call.pc /\ c.path = call.path /\ c.i = call.i /\ c.last = call.last
      /\ c.ret = call.ret /\ c.meddled = call.meddled \cup ps /\ c.slashed = call.slashed
  BY DEF DirCalls, Told
<1> HIDE DEF c
<1>2. InRange(c)
  BY <1>1 DEF InRange
<1>3. \A k : UpTo(c, k) = UpTo(call, k)
  BY <1>1 DEF UpTo
<1>4. \A k \in 1 .. call.last : UpTo(call, k) \in Paths
  BY PathIs DEF InRange, UpTo, DirCalls
<1>5. call.pc # "idle" => UpTo(call, call.i) \in Paths
  BY <1>4 DEF InRange
<1>6. call.pc = "idle" /\ call.ret = 0 => Succeeded(c, es)
  BY <1>1, <1>3, <1>4 DEF CallInv, Succeeded
<1>7. ASSUME call.pc = "idle", call.ret # 0 PROVE HasFailed(c, es, gs)
  <2>1. PICK k \in 1 .. call.last :
            UpTo(call, k) \in fs \cup call.meddled \/ (k > 1 /\ UpTo(call, k - 1) \notin ds)
    BY <1>7 DEF CallInv, HasFailed
  <2>2. k > 1 => k - 1 \in 1 .. call.last
    BY <2>1 DEF DirCalls
  <2>3. CASE UpTo(call, k) \in fs \cup call.meddled
    BY <1>1, <1>3, <1>4, <2>1, <2>3 DEF HasFailed
  <2>4. CASE k > 1 /\ UpTo(call, k - 1) \notin ds
    <3>1. UpTo(call, k - 1) \in ps \/ UpTo(call, k - 1) \notin es
      BY <1>4, <2>2, <2>4
    <3> QED
      BY <1>1, <1>3, <2>1, <2>2, <2>4, <3>1 DEF HasFailed
  <2> QED
    BY <2>1, <2>3, <2>4
<1>8. CallInv(c, es, gs)
  <2> DEFINE here == UpTo(call, call.i)
  <2>1. UpTo(c, c.i) = here
    BY <1>1, <1>3
  <2>2. call.pc = "isdir" => here \in Paths /\ here \in ds \cup fs \cup call.meddled
    BY <1>5 DEF CallInv
  <2>3. call.pc = "mkdir" => here \in Paths /\ (here \notin ds \cup fs \/ here \in call.meddled)
    BY <1>5 DEF CallInv
  <2> HIDE DEF here
  <2> QED
    BY <1>1, <1>6, <1>7, <2>1, <2>2, <2>3 DEF CallInv
<1> QED
  BY <1>1, <1>2, <1>8 DEF c

\* A step of one maker alone leaves what is there and the other calls.
LEMMA PutKeeps ==
    ASSUME DirsInv, NEW m \in Makers, NEW call \in DirCalls, InRange(call),
           CallInv(call, dirs, plain), Put(m, call), UNCHANGED <<dirs, plain>>
    PROVE  DirsInv'
<1>1. maker' \in [Makers -> DirCalls] /\ maker'[m] = call
      /\ \A n \in Makers \ {m} : maker'[n] = maker[n]
  BY DEF DirsInv, DirsTypeInv, Put
<1> QED
  BY <1>1 DEF DirsInv, DirsTypeInv, TreeInv

\* Nor does one that changes what is there, if the calls are told of it.
LEMMA MeddleKeeps ==
    ASSUME DirsInv, NEW ps \in SUBSET Paths, NEW ms \in SUBSET Makers,
           dirs' \in SUBSET Paths, plain' \in SUBSET Paths, dirs' \cap plain' = {},
           Closed(dirs' \cup plain', dirs'),
           \A p \in Paths \ ps : (p \in dirs' <=> p \in dirs) /\ (p \in plain' <=> p \in plain),
           maker' \in [Makers -> DirCalls],
           \A m \in ms : maker'[m] = Meddle(ms, ps)[m],
           \A m \in Makers \ ms : InRange(maker'[m]) /\ CallInv(maker'[m], dirs', plain')
    PROVE  DirsInv'
<1>1. ASSUME NEW m \in ms
      PROVE  InRange(maker'[m]) /\ CallInv(maker'[m], dirs', plain')
  <2>1. maker'[m] = Told(maker[m], ps)
    BY DEF Meddle, Told
  <2>2. maker[m] \in DirCalls /\ InRange(maker[m]) /\ CallInv(maker[m], dirs, plain)
    BY DEF DirsInv, DirsTypeInv
  <2> DEFINE c == Told(maker[m], ps)
  <2>3. c \in DirCalls /\ InRange(c) /\ CallInv(c, dirs', plain')
    BY <2>2, WitnessIs
  <2> QED
    BY <2>1, <2>3
<1> QED
  BY <1>1 DEF DirsInv, DirsTypeInv, TreeInv

----------------------------------------------------------------------------
(* The steps                                                               *)

LEMMA CallKeeps ==
    ASSUME DirsInv, NEW m \in Makers, NEW p \in Paths,
           vpk_mkdir(m, p) \/ \E b \in BOOLEAN : vpk_mkdir_mult(m, p, b)
    PROVE  DirsInv'
<1>1. Len(p) \in Nat \ {0}
  BY PathIs
<1>n. /\ NoDirs \in DirCalls /\ NoDirs.pc = "idle" /\ NoDirs.ret = 0
      /\ NoDirs.i = 1 /\ NoDirs.meddled = {}
      /\ p # <<>>
  BY <1>1 DEF NoDirs, DirCalls
<1>2. CASE vpk_mkdir(m, p)
  <2> DEFINE c == [NoDirs EXCEPT !.pc = "stat", !.path = p, !.i = Len(p),
                                 !.last = Len(p), !.slashed = TRUE]
  <2>1. /\ c \in DirCalls /\ c.pc = "stat" /\ c.path = p /\ c.i = Len(p)
        /\ c.last = Len(p) /\ c.slashed
    BY <1>1, <1>n DEF DirCalls
  <2> HIDE DEF c
  <2>2. InRange(c) /\ CallInv(c, dirs, plain)
    BY <1>1, <2>1 DEF InRange, CallInv
  <2> QED
    BY <1>2, <2>1, <2>2, PutKeeps DEF vpk_mkdir, c
<1>3. ASSUME NEW b \in BOOLEAN, vpk_mkdir_mult(m, p, b) PROVE DirsInv'
  <2> DEFINE last == IF b THEN Len(p) ELSE Len(p) - 1
             c == Done([NoDirs EXCEPT !.path = p, !.last = last, !.slashed = b], 0)
  <2>1. last \in Nat /\ last <= Len(p)
    BY <1>1
  <2> HIDE DEF last
  <2> DEFINE start == [NoDirs EXCEPT !.path = p, !.last = last, !.slashed = b]
  <2>2. /\ start \in DirCalls /\ start.path = p /\ start.last = last /\ start.slashed = b
        /\ start.meddled = {} /\ c = Done(start, 0)
    BY <1>n, <2>1 DEF DirCalls
  <2> HIDE DEF start, c
  <2>3. /\ c \in DirCalls /\ c.path = p /\ c.last = last /\ c.slashed = b
        /\ IF 0 < last THEN c.pc = "access" /\ c.i = 1 ELSE c.pc = "idle" /\ c.ret = 0
    <3>1. CASE 0 < last
      <4>1. c = [start EXCEPT !.pc = "access", !.i = 1]
        BY <2>2, <3>1 DEF Done
      <4>0. start \in DirCalls
        BY <2>2
      <4>2. c \in DirCalls
        BY <4>0, <4>1 DEF DirCalls
      <4>3. c.pc = "access" /\ c.i = 1 /\ c.path = start.path /\ c.last = start.last
        BY <4>0, <4>1 DEF DirCalls
      <4>4. c.slashed = start.slashed
        BY <4>0, <4>1 DEF DirCalls
      <4> QED
        BY <2>2, <3>1, <4>2, <4>3, <4>4
    <3>2. CASE ~(0 < last)
      <4>1. c = [start EXCEPT !.pc = "idle", !.ret = 0]
        BY <2>2, <3>2 DEF Done
      <4> QED
        BY <2>2, <3>2, <4>1 DEF DirCalls
    <3> QED
      BY <3>1, <3>2
  <2>4. InRange(c)
    BY <1>n, <2>1, <2>3 DEF InRange, last
  <2>5. CallInv(c, dirs, plain)
    BY <2>1, <2>3 DEF CallInv, Succeeded
  <2>6. Put(m, c) /\ UNCHANGED <<dirs, plain>>
    BY <1>3 DEF vpk_mkdir_mult, last, c
  <2> QED
    BY <2>3, <2>4, <2>5, <2>6, PutKeeps DEF c
<1> QED
  BY <1>2, <1>3

\* A call that is under way, and what it makes of its component.
LEMMA HereIs ==
    ASSUME DirsInv, NEW m \in Makers, maker[m].pc # "idle"
    PROVE  /\ maker[m] \in DirCalls /\ InRange(maker[m]) /\ CallInv(maker[m], dirs, plain)
           /\ maker[m].path \in Paths /\ maker[m].i \in 1 .. maker[m].last
           /\ maker[m].last \in 1 .. Len(maker[m].path)
           /\ UpTo(maker[m], maker[m].i) \in Paths
           /\ Closed(dirs, dirs)
<1>1. maker[m] \in DirCalls /\ InRange(maker[m]) /\ CallInv(maker[m], dirs, plain)
  BY DEF DirsInv, DirsTypeInv
<1>2. /\ maker[m].path \in Paths /\ maker[m].i \in 1 .. maker[m].last
      /\ maker[m].last \in 1 .. Len(maker[m].path)
  BY <1>1, PathIs DEF InRange, DirCalls
<1> QED
  BY <1>1, <1>2, PathIs DEF UpTo, DirsInv, TreeInv, Closed

LEMMA DoneKeeps ==
    ASSUME DirsInv, NEW m \in Makers, maker[m].pc # "idle",
           UpTo(maker[m], maker[m].i) \in dirs, Put(m, Done(maker[m], maker[m].i)),
           UNCHANGED <<dirs, plain>>
    PROVE  DirsInv'
<1> DEFINE c == Done(maker[m], maker[m].i)
<1>1. /\ c \in DirCalls /\ InRange(c) /\ c.pc \in {"idle", "access"}
      /\ c.pc = "idle" => c.ret = 0 /\ \A k \in 1 .. c.last : UpTo(c, k) \in dirs
  BY HereIs, DoneIs
<1> HIDE DEF c
<1>2. CallInv(c, dirs, plain)
  BY <1>1 DEF CallInv, Succeeded
<1> QED
  BY <1>1, <1>2, PutKeeps DEF c

\* What a failure has found at a component.
LEMMA FailedKeeps ==
    ASSUME DirsInv, NEW m \in Makers, maker[m].pc # "idle", Put(m, Failed(maker[m])),
           UNCHANGED <<dirs, plain>>,
           LET here == UpTo(maker[m], maker[m].i)
           IN  here \in plain \cup maker[m].meddled \/ ~HasParent(here)
    PROVE  DirsInv'
<1> DEFINE c == Failed(maker[m])
           k == maker[m].i
<1>1. /\ c \in DirCalls /\ c.pc = "idle" /\ c.ret = -1 /\ c.path = maker[m].path
      /\ c.last = maker[m].last /\ c.meddled = maker[m].meddled /\ c.slashed = maker[m].slashed
      /\ InRange(maker[m])
  BY HereIs DEF Failed, DirCalls
<1>2. k \in 1 .. c.last /\ c.path \in Paths /\ c.last \in 1 .. Len(c.path)
  BY <1>1, HereIs
<1>3. \A j : UpTo(c, j) = UpTo(maker[m], j)
  BY <1>1 DEF UpTo
<1>4. UpTo(c, k) \in plain \cup c.meddled \/ ~HasParent(UpTo(c, k))
  BY <1>1, <1>3
<1> HIDE DEF c, k
<1>5. Len(UpTo(c, k)) = k /\ (k > 1 => SubSeq(UpTo(c, k), 1, k - 1) = UpTo(c, k - 1))
  BY <1>2, PathIs DEF UpTo
<1>6. ~HasParent(UpTo(c, k)) => k > 1 /\ UpTo(c, k - 1) \notin dirs
  <2>1. k \in Int /\ k >= 1
    BY <1>2, PathIs
  <2> DEFINE q == UpTo(c, k)
  <2>2. ~HasParent(q) => Len(q) # 1 /\ SubSeq(q, 1, Len(q) - 1) \notin dirs
    BY DEF HasParent
  <2>3. Len(q) = k /\ (k > 1 => SubSeq(q, 1, k - 1) = UpTo(c, k - 1))
    BY <1>5
  <2> HIDE DEF q
  <2>4. ~HasParent(q) => k # 1 /\ SubSeq(q, 1, k - 1) \notin dirs
    BY <2>2, <2>3, Zenon
  <2>5. ~HasParent(q) => k > 1
    BY <2>1, <2>4
  <2>6. ~HasParent(q) => UpTo(c, k - 1) \notin dirs
    BY <2>3, <2>4, <2>5, Zenon
  <2> QED
    BY <2>5, <2>6 DEF q
<1>7. HasFailed(c, dirs, plain)
  BY <1>2, <1>6, <1>4 DEF HasFailed
<1>8. InRange(c) /\ CallInv(c, dirs, plain)
  BY <1>1, <1>2, <1>7 DEF InRange, CallInv
<1> QED
  BY <1>1, <1>8, PutKeeps DEF c

\* Looking at a component and going by what was found.
LEMMA LookKeeps ==
    ASSUME DirsInv, NEW m \in Makers, Stat(m) \/ Access(m) \/ IsDir(m)
    PROVE  DirsInv'
<1> DEFINE call == maker[m]
           here == UpTo(call, call.i)
<1>1. call.pc # "idle" /\ UNCHANGED <<dirs, plain>>
  BY DEF Stat, Access, IsDir
<1>2. /\ call \in DirCalls /\ InRange(call) /\ CallInv(call, dirs, plain)
      /\ call.i \in 1 .. call.last /\ call.last \in 1 .. Len(call.path) /\ call.path \in Paths
  BY <1>1, HereIs
<1>3. ASSUME NEW pc \in {"isdir", "mkdir"}, Put(m, [call EXCEPT !.pc = pc]),
             IF pc = "isdir" THEN here \in dirs \cup plain ELSE here \notin dirs \cup plain
      PROVE  DirsInv'
  <2> DEFINE c == [call EXCEPT !.pc = pc]
  <2>1. /\ c \in DirCalls /\ c.pc = pc /\ c.path = call.path /\ c.i = call.i
        /\ c.last = call.last /\ c.slashed = call.slashed
    BY <1>2 DEF DirCalls
  <2> HIDE DEF c
  <2>2. UpTo(c, c.i) = here /\ InRange(c)
    BY <1>2, <2>1 DEF UpTo, InRange
  <2>3. CallInv(c, dirs, plain)
    BY <1>3, <2>1, <2>2 DEF CallInv
  <2> QED
    BY <1>1, <1>3, <2>1, <2>2, <2>3, PutKeeps DEF c
<1>4. CASE Access(m)
  <2>1. Put(m, [call EXCEPT !.pc = IF here \in dirs \cup plain THEN "isdir" ELSE "mkdir"])
    BY <1>4 DEF Access, There
  <2>2. CASE here \in dirs \cup plain
    BY <1>3, <2>1, <2>2
  <2>3. CASE here \notin dirs \cup plain
    BY <1>3, <2>1, <2>3
  <2> QED
    BY <2>2, <2>3
<1>5. CASE IsDir(m)
  <2>1. call.pc = "isdir" /\ here \in dirs \cup plain \cup call.meddled
    BY <1>2, <1>5 DEF IsDir, CallInv
  <2>2. CASE here \in dirs
    BY <1>1, <1>5, <2>2, DoneKeeps DEF IsDir
  <2>3. CASE here \notin dirs
    BY <1>1, <1>5, <2>1, <2>3, FailedKeeps DEF IsDir
  <2> QED
    BY <2>2, <2>3
<1>6. CASE Stat(m)
  <2>1. call.pc = "stat" /\ here = call.path
    <3>1. call.pc = "stat" /\ call.i = Len(call.path)
      BY <1>2, <1>6 DEF Stat, InRange
    <3> QED
      BY <1>2, <3>1, PathIs DEF UpTo
  <2>2. CASE here \in dirs
    <3>1. here \notin plain
      BY <2>2 DEF DirsInv, DirsTypeInv
    <3>2. Put(m, Done(call, call.i))
      BY <1>6, <2>1, <2>2, <3>1 DEF Stat
    <3> QED
      BY <1>1, <2>2, <3>2, DoneKeeps
  <2>3. CASE here \in plain
    <3>1. here \notin dirs
      BY <2>3 DEF DirsInv, DirsTypeInv
    <3> QED
      BY <1>1, <1>6, <2>1, <2>3, <3>1, FailedKeeps DEF Stat
  <2>4. CASE here \notin dirs \cup plain
    <3>1. Put(m, [call EXCEPT !.pc = "mkdir"])
      BY <1>6, <2>1, <2>4 DEF Stat
    <3> QED
      BY <1>3, <2>4, <3>1
  <2> QED
    BY <2>2, <2>3, <2>4
<1> QED
  BY <1>4, <1>5, <1>6

LEMMA MkdirKeeps ==
    ASSUME DirsInv, NEW m \in Makers, Mkdir(m)
    PROVE  DirsInv'
<1> DEFINE call == maker[m]
           here == UpTo(call, call.i)
<1>1. call.pc = "mkdir" /\ UNCHANGED plain
  BY DEF Mkdir
<1>2. call \in DirCalls /\ InRange(call) /\ CallInv(call, dirs, plain) /\ here \in Paths
  BY <1>1, HereIs
<1>3. CASE ~There(here) /\ HasParent(here)
  <2>1. /\ dirs' = dirs \cup {here}
        /\ maker' = [Meddle(Makers \ {m}, {here}) EXCEPT ![m] = Done(@, @.i)]
    BY <1>3 DEF Mkdir
  <2>2. Meddle(Makers \ {m}, {here})[m] = call
    BY DEF Meddle
  <2>3. maker'[m] = Done(call, call.i)
        /\ \A n \in Makers \ {m} : maker'[n] = Meddle(Makers \ {m}, {here})[n]
    BY <2>1, <2>2 DEF Meddle
  <2>4. Closed(dirs', dirs') /\ Closed(dirs' \cup plain', dirs')
    <3>1. \A k \in 1 .. Len(here) - 1 : SubSeq(here, 1, k) \in dirs
      BY <1>2, <1>3, ParentIs DEF DirsInv
    <3> HIDE DEF here
    <3> QED
      BY <1>1, <2>1, <3>1 DEF DirsInv, TreeInv, Closed
  <2>5. here \in dirs'
    BY <2>1
  <2> DEFINE c == Done(call, call.i)
  <2>6. /\ c \in DirCalls /\ InRange(c) /\ c.pc \in {"idle", "access"}
        /\ c.pc = "idle" => c.ret = 0 /\ \A k \in 1 .. c.last : UpTo(c, k) \in dirs'
    BY <1>1, <1>2, <2>4, <2>5, DoneIs
  <2> HIDE DEF c
  <2>7. CallInv(c, dirs', plain')
    BY <2>6 DEF CallInv, Succeeded
  <2>8. maker'[m] = c
    BY <2>3 DEF c
  <2>9. \A n \in Makers \ {m} : maker'[n] \in DirCalls
    <3>1. ASSUME NEW n \in Makers \ {m} PROVE maker'[n] \in DirCalls
      <4>1. maker'[n] = Told(maker[n], {here})
        BY <2>3 DEF Meddle, Told
      <4>2. maker[n] \in DirCalls
        BY DEF DirsInv, DirsTypeInv
      <4> HIDE DEF here
      <4> QED
        BY <1>2, <4>1, <4>2 DEF Told, DirCalls
    <3> QED
      BY <3>1
  <2>10. maker' \in [Makers -> DirCalls]
    <3>1. DOMAIN maker' = Makers /\ maker' = [n \in Makers |-> maker'[n]]
      BY <2>1 DEF Meddle
    <3> QED
      BY <2>6, <2>8, <2>9, <3>1
  <2>11. /\ dirs' \in SUBSET Paths /\ plain' \in SUBSET Paths /\ dirs' \cap plain' = {}
         /\ \A p \in Paths \ {here} :
                (p \in dirs' <=> p \in dirs) /\ (p \in plain' <=> p \in plain)
    BY <1>1, <1>2, <1>3, <2>1 DEF DirsInv, DirsTypeInv, There
  <2>12. ASSUME NEW n \in Makers \ (Makers \ {m})
         PROVE  InRange(maker'[n]) /\ CallInv(maker'[n], dirs', plain')
    BY <2>6, <2>7, <2>8
  <2> HIDE DEF here
  <2> QED
    BY <1>2, <2>3, <2>4, <2>10, <2>11, <2>12, MeddleKeeps
<1>4. CASE ~(~There(here) /\ HasParent(here))
  <2>1. Put(m, Failed(call)) /\ UNCHANGED dirs
    BY <1>4 DEF Mkdir
  <2>2. here \notin dirs \cup plain \/ here \in call.meddled
    BY <1>1, <1>2 DEF CallInv
  <2>3. here \in plain \cup call.meddled \/ ~HasParent(here)
    BY <1>4, <2>2 DEF There
  <2> QED
    BY <1>1, <2>1, <2>3, FailedKeeps
<1> QED
  BY <1>3, <1>4

\* Files that come, go and move, and directories that go.
LEMMA OthersKeep ==
    ASSUME DirsInv, NEW p \in Paths, NEW q \in Paths,
           vpk_create_file(p) \/ vpk_remove(p) \/ vpk_rename(p, q)
    PROVE  DirsInv'
<1> USE DEF DirsInv, DirsTypeInv, TreeInv
<1>1. ASSUME NEW ps \in SUBSET Paths, maker' = Meddle(Makers, ps),
             dirs' \in SUBSET Paths, plain' \in SUBSET Paths, dirs' \cap plain' = {},
             Closed(dirs' \cup plain', dirs'),
             \A r \in Paths \ ps : (r \in dirs' <=> r \in dirs) /\ (r \in plain' <=> r \in plain)
      PROVE  DirsInv'
  <2>1. \A m \in Makers : maker'[m] = Meddle(Makers, ps)[m]
    BY <1>1
  <2>2. ASSUME NEW m \in Makers PROVE maker'[m] \in DirCalls
    <3>1. maker'[m] = Told(maker[m], ps) /\ maker[m] \in DirCalls
      BY <1>1 DEF Meddle, Told
    <3> QED
      BY <3>1 DEF Told, DirCalls
  <2>3. maker' \in [Makers -> DirCalls]
    <3>1. DOMAIN maker' = Makers /\ maker' = [m \in Makers |-> maker'[m]]
      BY <1>1 DEF Meddle
    <3> QED
      BY <2>2, <3>1
  <2> QED
    BY <1>1, <2>1, <2>3, MeddleKeeps
<1>2. CASE vpk_create_file(p)
  <2>1. \A k \in 1 .. Len(p) - 1 : SubSeq(p, 1, k) \in dirs
    BY <1>2, ParentIs DEF vpk_create_file
  <2>2. Closed(dirs' \cup plain', dirs')
    BY <1>2, <2>1 DEF vpk_create_file, Closed
  <2>3. /\ {p} \in SUBSET Paths /\ maker' = Meddle(Makers, {p})
        /\ dirs' \in SUBSET Paths /\ plain' \in SUBSET Paths /\ dirs' \cap plain' = {}
    BY <1>2 DEF vpk_create_file, There
  <2>4. \A r \in Paths \ {p} : (r \in dirs' <=> r \in dirs) /\ (r \in plain' <=> r \in plain)
    BY <1>2 DEF vpk_create_file, There
  <2> QED
    BY <1>1, <2>2, <2>3, <2>4
<1>3. CASE vpk_rename(p, q)
  <2>1. \A k \in 1 .. Len(q) - 1 : SubSeq(q, 1, k) \in dirs
    BY <1>3, ParentIs DEF vpk_rename
  <2>2. Closed(dirs' \cup plain', dirs')
    BY <1>3, <2>1 DEF vpk_rename, Closed
  <2> QED
    BY <1>1, <1>3, <2>2 DEF vpk_rename
<1>4. CASE vpk_remove(p)
  <2>1. ASSUME NEW r \in dirs \cup plain, NEW k \in 1 .. Len(r) - 1 PROVE SubSeq(r, 1, k) # p
    <3> SUFFICES ASSUME SubSeq(r, 1, k) = p PROVE FALSE
      OBVIOUS
    <3> DEFINE c == SubSeq(r, 1, k + 1)
    <3>1. k + 1 \in 1 .. Len(r) /\ k \in 1 .. k + 1 /\ k \in 1 .. Len(r)
      BY PathIs
    <3>2. Len(p) = k /\ Len(c) = k + 1 /\ SubSeq(c, 1, k) = p
      BY <3>1, PathIs
    <3>3. k + 1 = Len(r) => c = r
      BY PathIs
    <3>4. k + 1 # Len(r) => c \in dirs
      BY <3>1 DEF Closed
    <3> QED
      BY <1>4, <3>2, <3>3, <3>4 DEF vpk_remove
  <2>2. Closed(dirs' \cup plain', dirs')
    BY <1>4, <2>1 DEF vpk_remove, Closed
  <2>3. /\ {p} \in SUBSET Paths /\ maker' = Meddle(Makers, {p})
        /\ dirs' \in SUBSET Paths /\ plain' \in SUBSET Paths /\ dirs' \cap plain' = {}
    BY <1>4 DEF vpk_remove
  <2>4. \A r \in Paths \ {p} : (r \in dirs' <=> r \in dirs) /\ (r \in plain' <=> r \in plain)
    BY <1>4 DEF vpk_remove
  <2> QED
    BY <1>1, <2>2, <2>3, <2>4
<1> QED
  BY <1>2, <1>3, <1>4

LEMMA DirsNextInv == DirsInv /\ [MakeDirsNext]_makeDirsVars => DirsInv'
<1> SUFFICES ASSUME DirsInv, [MakeDirsNext]_makeDirsVars PROVE DirsInv'
  OBVIOUS
<1>1. CASE UNCHANGED makeDirsVars
  BY <1>1 DEF makeDirsVars, DirsInv, DirsTypeInv, TreeInv
<1> QED
  BY <1>1, CallKeeps, LookKeeps, MkdirKeeps, OthersKeep DEF MakeDirsNext

\* The failure that the invariant speaks of is that of the property.
LEMMA FailureIs ==
    ASSUME DirsInv, NEW m \in Makers, HasFailed(maker[m], dirs, plain)
    PROVE  InTheWay(maker[m])
<1> DEFINE call == maker[m]
<1>1. PICK k \in 1 .. call.last :
          UpTo(call, k) \in plain \cup call.meddled \/ (k > 1 /\ UpTo(call, k - 1) \notin dirs)
  BY DEF HasFailed
<1>2. call.path \in Paths /\ k \in 1 .. Len(call.path) /\ k \in Nat
  BY PathIs DEF DirsInv, DirsTypeInv, InRange, DirCalls
<1>3. Len(UpTo(call, k)) = k /\ (k > 1 => SubSeq(UpTo(call, k), 1, k - 1) = UpTo(call, k - 1))
  BY <1>2, PathIs DEF UpTo
<1>4. k > 1 /\ UpTo(call, k - 1) \notin dirs => ~HasParent(UpTo(call, k))
  <2> DEFINE q == UpTo(call, k)
  <2>1. Len(q) = k /\ (k > 1 => SubSeq(q, 1, k - 1) = UpTo(call, k - 1))
    BY <1>3
  <2>2. k > 1 => Len(q) # 1
    BY <1>2, <2>1
  <2>3. HasParent(q) => Len(q) = 1 \/ SubSeq(q, 1, Len(q) - 1) \in dirs
    BY DEF HasParent
  <2> HIDE DEF q
  <2>4. k > 1 /\ UpTo(call, k - 1) \notin dirs => ~HasParent(q)
    BY <2>1, <2>2, <2>3, Zenon
  <2> QED
    BY <2>4 DEF q
<1> QED
  BY <1>1, <1>4 DEF InTheWay

(***************************************************************************)
(* vpk_mkdir and vpk_mkdir_mult, for any paths and any number of makers    *)
(* that make, remove and rename at once: after a success the directories   *)
(* of a path with a slash are there, and of one without the directories    *)
(* above the last, unless somebody has removed one; a failure has a file   *)
(* in its way or somebody who has meddled with the path.                   *)
(***************************************************************************)
THEOREM DirsAreMade == MakeDirsSpec => []SlashedDirsMade
<1>1. MakeDirsInit => DirsInv
  BY DEF MakeDirsInit, DirsInv, DirsTypeInv, TreeInv, Closed, NoDirs, DirCalls, InRange,
         CallInv, Succeeded
<1>2. DirsInv => SlashedDirsMade
  <2> SUFFICES ASSUME DirsInv, NEW m \in Makers, maker[m].pc = "idle"
               PROVE  IF maker[m].ret # 0 THEN InTheWay(maker[m])
                      ELSE /\ Made(maker[m], 1 .. Len(maker[m].path) - 1)
                           /\ maker[m].slashed => Made(maker[m], 1 .. Len(maker[m].path))
    BY DEF SlashedDirsMade
  <2> DEFINE call == maker[m]
  <2>1. call \in DirCalls /\ InRange(call) /\ CallInv(call, dirs, plain)
    BY DEF DirsInv, DirsTypeInv
  <2>2. CASE call.ret # 0
    BY <2>1, <2>2, FailureIs DEF CallInv
  <2>3. CASE call.ret = 0
    <3>1. \A k \in 1 .. call.last : UpTo(call, k) \in dirs \cup call.meddled
      BY <2>1, <2>3 DEF CallInv, Succeeded
    <3>2. CASE call.path = <<>>
      <4>1. Len(call.path) = 0 /\ ~call.slashed
        BY <2>1, <3>2 DEF InRange
      <4> QED BY <2>3, <4>1 DEF Made
    <3>3. CASE call.path # <<>>
      <4>1. Len(call.path) \in Nat
        BY <2>1, <3>3, PathIs DEF DirCalls
      <4>2. call.last = IF call.slashed THEN Len(call.path) ELSE Len(call.path) - 1
        BY <2>1, <3>3 DEF InRange
      <4> HIDE DEF call
      <4>3. /\ 1 .. Len(call.path) - 1 \subseteq 1 .. call.last
            /\ call.slashed => 1 .. Len(call.path) \subseteq 1 .. call.last
        BY <4>1, <4>2
      <4> QED BY <2>3, <3>1, <4>3 DEF Made, call
    <3> QED BY <3>2, <3>3
  <2> QED BY <2>2, <2>3
<1> QED
  BY <1>1, <1>2, DirsNextInv, PTL DEF MakeDirsSpec

----------------------------------------------------------------------------
(***************************************************************************)
(* Proofs about running shell commands, for any number of callers, any     *)
(* timeouts, any rate of looking at the child, and any output and buffer.  *)
(***************************************************************************)

Calls == [pc : {"idle", "fork", "wait", "open"}, task : {"none", "user", "output", "rm"},
          limit : Nat, left : Nat, naps : Nat,
          child : {"none", "starts", "runs", "ended"}, status : {0, 1},
          deaf : BOOLEAN, saved : BOOLEAN, forkFailed : BOOLEAN,
          size : Nat, wrote : Nat, exit : {-1, 0, 1}, ret : Int]

\* Signals are shut out of nobody whose forks have all succeeded, but in SystemEx.
SignalsOK(call) ==
    /\ call.pc \in {"idle", "open"} /\ call.deaf => call.forkFailed
    /\ call.pc \in {"fork", "wait"} /\ call.saved => call.forkFailed

\* The looks that have been taken and those that are left make up the timeout.
LooksOK(call) ==
    /\ call.pc \in {"fork", "wait"} =>
          /\ call.task # "none"
          /\ call.task = "user" => call.limit \in Limits
          /\ call.left + call.naps = Looks(call.limit)
    /\ call.pc = "idle" /\ call.ret = -2 =>
          call.limit \in Limits /\ call.naps = Looks(call.limit)

\* What is to be returned is a failure, or counts the command's own output.
RetOK(call) ==
    /\ call.ret >= -1
    /\ call.ret # -1 => call.exit # -1 /\ call.ret = Least(call.size, call.wrote)

\* A file that has kept its name holds what the caller's own command has written.
OutputOK(call, out) ==
    /\ call.pc # "wait" => call.child = "none"
    /\ call.task = "output" /\ call.child \in {"none", "starts"} /\ call.pc \in {"fork", "wait"} =>
          call.wrote = 0
    /\ call.task = "output" /\ call.pc \in {"fork", "wait"} => out \in {-1, call.wrote}
    /\ call.pc = "open" =>
          call.task = "output" /\ call.exit # -1 /\ out \in {-1, call.wrote}
    /\ call.task = "rm" => RetOK(call)

CallOK(call, out) == call \in Calls /\ SignalsOK(call) /\ LooksOK(call) /\ OutputOK(call, out)

\* The inductive invariant.
CommandInv ==
    /\ output \in [Callers -> Int]
    /\ DOMAIN shell = Callers
    /\ \A c \in Callers : CallOK(shell[c], output[c])

\* bound: the looks of a timeout fit in an unsigned int
NoOverflow == \A limit \in Limits : limit * POLLS < UINT

USE LibCAssumption

----------------------------------------------------------------------------
LEMMA LooksNat ==
    ASSUME NEW limit \in Nat
    PROVE  Looks(limit) \in Nat
<1> DEFINE n == limit * POLLS
<1>1. n \in Nat /\ UINT \in Nat \ {0}
  OBVIOUS
<1>2. Looks(limit) = IF n % UINT = 0 THEN UINT - 1 ELSE n % UINT
  BY DEF Looks
<1> HIDE DEF n
<1>3. n % UINT \in Nat
  BY <1>1
<1> QED
  BY <1>1, <1>2, <1>3

\* A timeout that does not overflow is what was asked for, in looks.
LEMMA LooksAre ==
    ASSUME NoOverflow, NEW limit \in Limits
    PROVE  Looks(limit) = IF limit = 0 THEN UINT - 1 ELSE POLLS * limit
<1> DEFINE n == limit * POLLS
<1>1. limit \in Nat /\ POLLS \in Nat \ {0} /\ UINT \in Nat \ {0} /\ n < UINT
  BY DEF NoOverflow
<1>2. n \in Nat /\ (n = 0 <=> limit = 0) /\ n = POLLS * limit
  BY <1>1
<1>3. Looks(limit) = IF n % UINT = 0 THEN UINT - 1 ELSE n % UINT
  BY DEF Looks
<1> HIDE DEF n
<1>4. n % UINT = n
  BY <1>1, <1>2
<1> QED
  BY <1>1, <1>2, <1>3, <1>4

LEMMA FreshIs ==
    ASSUME NEW call \in Calls
    PROVE  LET r == Fresh(call)
           IN  /\ r \in Calls /\ r.pc = "idle" /\ r.task = "none" /\ r.child = "none"
               /\ r.wrote = 0 /\ r.deaf = call.deaf /\ r.forkFailed = call.forkFailed
<1> DEFINE r == Fresh(call)
<1>1. NoCall \in Calls
  BY DEF NoCall, Calls
<1>2. call.deaf \in BOOLEAN /\ call.forkFailed \in BOOLEAN
  BY Zenon DEF Calls
<1>3. r = [NoCall EXCEPT !.deaf = call.deaf, !.forkFailed = call.forkFailed]
  BY DEF Fresh
<1>4. r \in Calls
  BY <1>1, <1>2, <1>3 DEF Calls
<1>5. r.pc = "idle" /\ r.task = "none" /\ r.child = "none" /\ r.wrote = 0
  BY <1>3 DEF NoCall
<1>6. r.deaf = call.deaf /\ r.forkFailed = call.forkFailed
  BY <1>3, Zenon DEF NoCall
<1> QED
  BY <1>4, <1>5, <1>6

\* SystemEx is entered.
LEMMA RunOK ==
    ASSUME NEW call \in Calls, NEW out, NEW task \in {"user", "output", "rm"},
           NEW limit \in Nat, task = "user" => limit \in Limits, call.child = "none",
           call.deaf => call.forkFailed, task = "rm" => RetOK(call),
           task = "output" => call.wrote = 0 /\ out \in {-1, 0}
    PROVE  CallOK(Run(call, task, limit), out)
<1>1. Looks(limit) \in Nat
  BY LooksNat
<1> DEFINE r == Run(call, task, limit)
<1>2. /\ r.pc = "fork" /\ r.task = task /\ r.limit = limit /\ r.left = Looks(limit)
      /\ r.naps = 0 /\ r.child = "none" /\ r.saved = call.deaf /\ r.deaf = TRUE
      /\ r.forkFailed = call.forkFailed /\ r.ret = call.ret
      /\ r.size = call.size /\ r.wrote = call.wrote /\ r.exit = call.exit
  BY DEF Run, Calls
<1>3. r \in Calls
  BY <1>1 DEF Run, Calls
<1> HIDE DEF r
<1>4. SignalsOK(r)
  BY <1>2, Zenon DEF SignalsOK
<1>5. LooksOK(r)
  BY <1>1, <1>2 DEF LooksOK
<1>6. OutputOK(r, out)
  BY <1>2 DEF OutputOK, RetOK
<1>7. CallOK(r, out)
  BY <1>3, <1>4, <1>5, <1>6, Zenon DEF CallOK
<1> QED
  BY <1>7 DEF r

\* The caller is back.
LEMMA BackOK ==
    ASSUME NEW call \in Calls, NEW out, NEW value \in Int, call.child = "none",
           call.deaf => call.forkFailed,
           call.task = "rm" => value = call.ret /\ RetOK(call),
           value = -2 => call.limit \in Limits /\ call.naps = Looks(call.limit)
    PROVE  CallOK(Back(call, value), out)
<1> DEFINE r == Back(call, value)
<1>2. /\ r.pc = "idle" /\ r.task = call.task /\ r.child = "none" /\ r.deaf = call.deaf
      /\ r.forkFailed = call.forkFailed /\ r.ret = value
      /\ r.size = call.size /\ r.wrote = call.wrote /\ r.exit = call.exit
      /\ value = -2 => r.limit = call.limit /\ r.naps = call.naps
  BY DEF Back, Calls
<1>3. r \in Calls
  BY DEF Back, Calls
<1> HIDE DEF r
<1>4. SignalsOK(r)
  BY <1>2, Zenon DEF SignalsOK
<1>5. LooksOK(r)
  BY <1>2 DEF LooksOK
<1>6. OutputOK(r, out)
  BY <1>2 DEF OutputOK, RetOK
<1>7. CallOK(r, out)
  BY <1>3, <1>4, <1>5, <1>6, Zenon DEF CallOK
<1> QED
  BY <1>7 DEF r

\* SystemEx has returned value.
LEMMA AfterOK ==
    ASSUME NEW call \in Calls, NEW out, NEW value \in Int, call.child = "none",
           call.deaf => call.forkFailed, call.task # "none",
           call.task = "rm" => RetOK(call),
           call.task = "output" /\ value >= 0 => call.exit # -1 /\ out \in {-1, call.wrote},
           call.task = "user" /\ value = -2 => call.limit \in Limits /\ call.naps = Looks(call.limit)
    PROVE  CallOK(After(call, value), out)
<1>1. CASE call.task = "output" /\ value >= 0
  <2> DEFINE r == [call EXCEPT !.pc = "open"]
  <2>1. After(call, value) = r
    BY <1>1 DEF After
  <2>2. /\ r \in Calls /\ r.pc = "open" /\ r.task = "output" /\ r.child = "none"
        /\ r.deaf = call.deaf /\ r.forkFailed = call.forkFailed
        /\ r.exit = call.exit /\ r.wrote = call.wrote
    BY <1>1 DEF Calls
  <2> HIDE DEF r
  <2>3. SignalsOK(r)
    BY <2>2, Zenon DEF SignalsOK
  <2>4. LooksOK(r) /\ OutputOK(r, out)
    BY <1>1, <2>2 DEF LooksOK, OutputOK
  <2> QED
    BY <2>1, <2>2, <2>3, <2>4, Zenon DEF CallOK
<1>2. CASE call.task = "output" /\ value < 0
  <2> DEFINE r == [call EXCEPT !.ret = -1]
  <2>1. After(call, value) = Run(r, "rm", EXVAL_LIMIT)
    BY <1>2 DEF After
  <2>2. /\ r \in Calls /\ r.child = "none" /\ r.ret = -1
        /\ r.deaf = call.deaf /\ r.forkFailed = call.forkFailed
    BY DEF Calls
  <2> HIDE DEF r
  <2>3. RetOK(r)
    BY <2>2 DEF RetOK
  <2>4. r.deaf => r.forkFailed
    BY <2>2, Zenon
  <2> QED
    BY <2>1, <2>2, <2>3, <2>4, RunOK
<1>3. CASE call.task = "user"
  <2>1. After(call, value) = Back(call, value)
    BY <1>3 DEF After
  <2> QED
    BY <1>3, <2>1, BackOK
<1>4. CASE call.task = "rm"
  <2>1. After(call, value) = Back(call, call.ret)
    BY <1>4 DEF After
  <2>2. call.ret \in Int /\ call.ret # -2
    BY <1>4 DEF RetOK, Calls
  <2> QED
    BY <1>4, <2>1, <2>2, BackOK
<1> QED
  BY <1>1, <1>2, <1>3, <1>4 DEF Calls

----------------------------------------------------------------------------
LEMMA CommandInitInv == LibCInit => CommandInv
<1> SUFFICES ASSUME LibCInit, NEW c \in Callers PROVE CallOK(shell[c], output[c])
  BY DEF LibCInit, CommandInv
<1>1. shell[c] = NoCall
  BY DEF LibCInit
<1>2. NoCall \in Calls
  BY DEF NoCall, Calls
<1>3. SignalsOK(NoCall) /\ LooksOK(NoCall) /\ OutputOK(NoCall, output[c])
  BY DEF NoCall, SignalsOK, LooksOK, OutputOK
<1> QED
  BY <1>1, <1>2, <1>3, Zenon DEF CallOK

\* A file loses its name.
LEMMA NameLost ==
    ASSUME NEW call, NEW out, CallOK(call, out)
    PROVE  CallOK(call, -1)
<1>1. OutputOK(call, -1)
  BY DEF CallOK, OutputOK
<1> QED
  BY <1>1, Zenon DEF CallOK

\* One caller moves; of the files of the others it can only remove the names.
LEMMA OneMoves ==
    ASSUME CommandInv, NEW c \in Callers, NEW r, shell' = [shell EXCEPT ![c] = r],
           output' \in [Callers -> Int],
           \A d \in Callers \ {c} : output'[d] \in {output[d], -1},
           CallOK(r, output'[c])
    PROVE  CommandInv'
<1>1. DOMAIN shell' = Callers /\ shell'[c] = r
  BY DEF CommandInv
<1>2. ASSUME NEW d \in Callers, d # c PROVE CallOK(shell'[d], output'[d])
  <2>1. shell'[d] = shell[d] /\ CallOK(shell[d], output[d])
    BY <1>2 DEF CommandInv
  <2> QED
    BY <1>2, <2>1, NameLost
<1>3. \A d \in Callers : CallOK(shell'[d], output'[d])
  BY <1>1, <1>2
<1> QED
  BY <1>1, <1>3 DEF CommandInv

\* A caller whose command is under way: only its child, or its looks, change.
LEMMA StillWaiting ==
    ASSUME NEW call \in Calls, NEW r \in Calls, NEW out, call.pc \in {"fork", "wait"}, r.pc = "wait",
           SignalsOK(call), LooksOK(call), OutputOK(call, out),
           r.saved = call.saved, r.forkFailed = call.forkFailed, r.task = call.task,
           r.limit = call.limit, r.left + r.naps = call.left + call.naps, r.ret = call.ret,
           r.size = call.size, r.exit = call.exit, r.task # "output" => r.wrote = call.wrote,
           NEW after,
           r.task = "output" /\ r.child \in {"none", "starts"} => r.wrote = 0,
           r.task = "output" => after \in {-1, r.wrote}
    PROVE  CallOK(r, after)
<1>1. SignalsOK(r)
  <2>1. call.saved => call.forkFailed
    BY Zenon DEF SignalsOK
  <2> QED
    BY <2>1 DEF SignalsOK
<1>2. LooksOK(r)
  BY DEF LooksOK
<1>3. OutputOK(r, after)
  BY DEF OutputOK, RetOK
<1> QED
  BY <1>1, <1>2, <1>3, Zenon DEF CallOK

\* The child of a call has been waited for, and the signals are as before: r is
\* the call with the child's end noted.
LEMMA RestoredOK ==
    ASSUME NEW call \in Calls, NEW out, call.pc = "wait", CallOK(call, out),
           NEW exit \in {-1, 0, 1}, call.task # "output" => exit = call.exit,
           NEW value \in Int,
           value >= 0 => call.child = "ended" /\ (call.task = "output" => exit # -1),
           value = -2 => call.left = 0
    PROVE  CallOK(After([Restored(call) EXCEPT !.exit = exit], value), out)
<1> DEFINE r == [Restored(call) EXCEPT !.exit = exit]
<1>1. /\ r \in Calls /\ r.child = "none" /\ r.deaf = call.saved /\ r.forkFailed = call.forkFailed
      /\ r.task = call.task /\ r.limit = call.limit /\ r.naps = call.naps /\ r.ret = call.ret
      /\ r.size = call.size /\ r.wrote = call.wrote /\ r.exit = exit
  BY DEF Restored, Calls
<1> HIDE DEF r
<1>2. SignalsOK(call) /\ LooksOK(call) /\ OutputOK(call, out)
  BY Zenon DEF CallOK
<1>3. r.deaf => r.forkFailed
  <2>1. call.saved => call.forkFailed
    BY <1>2, Zenon DEF SignalsOK
  <2> QED
    BY <2>1, <1>1
<1>4. /\ r.task # "none"
      /\ r.task = "user" /\ value = -2 => r.limit \in Limits /\ r.naps = Looks(r.limit)
  <2>1. call.left \in Nat /\ call.naps \in Nat
    BY DEF Calls
  <2> QED
    BY <1>1, <1>2, <2>1 DEF LooksOK
<1>5. /\ r.task = "rm" => RetOK(r)
      /\ r.task = "output" /\ value >= 0 => r.exit # -1 /\ out \in {-1, r.wrote}
  BY <1>1, <1>2 DEF OutputOK, RetOK
<1>6. CallOK(After(r, value), out)
  BY <1>1, <1>3, <1>4, <1>5, AfterOK
<1> QED
  BY <1>6 DEF r

----------------------------------------------------------------------------
(* The steps: a caller that begins, one that waits, its child, and the end.*)

\* What the invariant says of one caller.
LEMMA CallIs ==
    ASSUME CommandInv, NEW c \in Callers
    PROVE  /\ shell[c] \in Calls /\ CallOK(shell[c], output[c]) /\ SignalsOK(shell[c])
           /\ LooksOK(shell[c]) /\ OutputOK(shell[c], output[c])
           /\ output[c] \in Int /\ output \in [Callers -> Int]
           /\ DOMAIN shell = Callers
           /\ shell[c].pc \in {"idle", "open"} =>
                 shell[c].child = "none" /\ (shell[c].deaf => shell[c].forkFailed)
<1> DEFINE call == shell[c]
<1>1. call \in Calls /\ CallOK(call, output[c]) /\ SignalsOK(call) /\ LooksOK(call)
      /\ OutputOK(call, output[c]) /\ output \in [Callers -> Int] /\ DOMAIN shell = Callers
  BY DEF CommandInv, CallOK
<1>2. ASSUME call.pc \in {"idle", "open"} PROVE call.child = "none"
  BY <1>1, <1>2 DEF OutputOK
<1>3. ASSUME call.pc \in {"idle", "open"} PROVE call.deaf => call.forkFailed
  BY <1>1, <1>3, Zenon DEF SignalsOK
<1> QED
  BY <1>1, <1>2, <1>3

LEMMA BeginKeeps ==
    ASSUME CommandInv, NEW c \in Callers,
           \/ \E limit \in Limits : vpk_system_ex(c, limit)
           \/ \E size \in BufSizes : vpk_system_exval(c, size)
           \/ NoCommand(c) \/ ExvalRefused(c)
    PROVE  CommandInv'
<1> DEFINE call == shell[c]
           fresh == Fresh(call)
<1>1. call.pc = "idle"
  BY DEF vpk_system_ex, vpk_system_exval, NoCommand, ExvalRefused, Is
<1>2. /\ fresh \in Calls /\ fresh.pc = "idle" /\ fresh.task = "none" /\ fresh.child = "none"
      /\ fresh.wrote = 0 /\ (fresh.deaf => fresh.forkFailed)
      /\ output \in [Callers -> Int]
  <2>1. call \in Calls /\ (call.deaf => call.forkFailed) /\ output \in [Callers -> Int]
    BY <1>1, CallIs
  <2> HIDE DEF call
  <2>2. fresh.deaf = call.deaf /\ fresh.forkFailed = call.forkFailed
    BY <2>1, FreshIs
  <2> QED BY <2>1, <2>2, FreshIs
<1>3. ASSUME NEW limit \in Limits, vpk_system_ex(c, limit) PROVE CommandInv'
  <2>1. shell' = [shell EXCEPT ![c] = Run(fresh, "user", limit)] /\ output' = output
    BY <1>3 DEF vpk_system_ex, Set
  <2> HIDE DEF fresh
  <2>2. CallOK(Run(fresh, "user", limit), output'[c])
    BY <1>2, RunOK
  <2> QED
    BY <1>2, <2>1, <2>2, OneMoves
<1>4. ASSUME NEW size \in BufSizes, vpk_system_exval(c, size) PROVE CommandInv'
  <2> DEFINE r == [fresh EXCEPT !.size = size]
  <2>1. shell' = [shell EXCEPT ![c] = Run(r, "output", EXVAL_LIMIT)]
        /\ output' = [output EXCEPT ![c] = 0]
    BY <1>4 DEF vpk_system_exval, Set
  <2> HIDE DEF fresh
  <2>2. /\ r \in Calls /\ r.child = "none" /\ r.wrote = 0
        /\ r.deaf = fresh.deaf /\ r.forkFailed = fresh.forkFailed
    BY <1>2 DEF Calls
  <2> HIDE DEF r
  <2>3. output'[c] = 0 /\ (r.deaf => r.forkFailed)
    <3>1. r.deaf => r.forkFailed
      BY <1>2, <2>2, Zenon
    <3> QED BY <1>2, <2>1, <3>1
  <2>4. CallOK(Run(r, "output", EXVAL_LIMIT), output'[c])
    BY <2>2, <2>3, RunOK
  <2> QED
    <3>1. output' \in [Callers -> Int] /\ \A d \in Callers \ {c} : output'[d] = output[d]
      BY <1>2, <2>1
    <3>2. shell' = [shell EXCEPT ![c] = Run(r, "output", EXVAL_LIMIT)]
      BY <2>1
    <3> QED BY <2>4, <3>1, <3>2, OneMoves
<1>5. ASSUME NEW ret \in {1, -1}, Set(c, [fresh EXCEPT !.ret = ret]), output' = output
      PROVE  CommandInv'
  <2> DEFINE r == [fresh EXCEPT !.ret = ret]
  <2>1. shell' = [shell EXCEPT ![c] = r]
    BY <1>5 DEF Set
  <2> HIDE DEF fresh
  <2>2. /\ r \in Calls /\ r.pc = "idle" /\ r.child = "none" /\ r.task = "none" /\ r.ret = ret
        /\ r.deaf = fresh.deaf /\ r.forkFailed = fresh.forkFailed
    BY <1>2 DEF Calls
  <2> HIDE DEF r
  <2>3. SignalsOK(r)
    BY <1>2, <2>2 DEF SignalsOK
  <2>4. LooksOK(r) /\ OutputOK(r, output'[c])
    BY <2>2 DEF LooksOK, OutputOK
  <2>5. CallOK(r, output'[c])
    BY <2>2, <2>3, <2>4, Zenon DEF CallOK
  <2> QED
    BY <1>2, <1>5, <2>1, <2>5, OneMoves
<1>6. CASE NoCommand(c)
  BY <1>5, <1>6 DEF NoCommand
<1>7. CASE ExvalRefused(c)
  BY <1>5, <1>7 DEF ExvalRefused
<1> QED
  BY <1>3, <1>4, <1>6, <1>7

LEMMA WaitKeeps ==
    ASSUME CommandInv, NEW c \in Callers,
           Fork(c) \/ ChildStarts(c) \/ ChildWrites(c) \/ Nap(c)
           \/ \E st \in {0, 1} : ChildEnds(c, st)
    PROVE  CommandInv'
<1> DEFINE call == shell[c]
           r == shell'[c]
<1>0. /\ call \in Calls /\ SignalsOK(call) /\ LooksOK(call) /\ OutputOK(call, output[c])
      /\ output[c] \in Int /\ output \in [Callers -> Int] /\ DOMAIN shell = Callers
  BY CallIs
\* what is common to all of them, and what becomes of the file
<1> DEFINE Same ==
              /\ shell' = [shell EXCEPT ![c] = r]
              /\ r \in Calls /\ r.pc = "wait" /\ call.pc \in {"fork", "wait"}
              /\ r.saved = call.saved /\ r.forkFailed = call.forkFailed /\ r.task = call.task
              /\ r.limit = call.limit /\ r.left + r.naps = call.left + call.naps
              /\ r.ret = call.ret /\ r.size = call.size /\ r.exit = call.exit
              /\ r.task # "output" => r.wrote = call.wrote
           FileOK ==
              /\ output' \in [Callers -> Int]
              /\ \A d \in Callers \ {c} : output'[d] = output[d]
              /\ r.task = "output" /\ r.child \in {"none", "starts"} => r.wrote = 0
              /\ r.task = "output" => output'[c] \in {-1, r.wrote}
<1>1. ASSUME Same, FileOK PROVE CommandInv'
  <2> HIDE DEF r, call
  <2>1. CallOK(r, output'[c])
    BY <1>0, <1>1, StillWaiting
  <2> QED
    BY <1>1, <2>1, OneMoves
<1>2. CASE Fork(c)
  <2>1. /\ call.pc = "fork" /\ r = [call EXCEPT !.pc = "wait", !.child = "starts"]
        /\ shell' = [shell EXCEPT ![c] = r] /\ output' = output
    BY <1>0, <1>2 DEF Fork, Set, Is
  <2>2. call.child = "none"
        /\ (call.task = "output" => call.wrote = 0 /\ output[c] \in {-1, call.wrote})
    BY <1>0, <2>1 DEF OutputOK
  <2> HIDE DEF call
  <2>3. /\ r \in Calls /\ r.pc = "wait" /\ r.child = "starts" /\ r.task = call.task
        /\ r.wrote = call.wrote /\ r.size = call.size /\ r.exit = call.exit
        /\ r.ret = call.ret /\ r.limit = call.limit /\ r.left = call.left /\ r.naps = call.naps
        /\ r.saved = call.saved /\ r.forkFailed = call.forkFailed
    BY <1>0, <2>1 DEF Calls
  <2> HIDE DEF r
  <2>4. Same
    BY <2>1, <2>3
  <2>5. FileOK
    BY <1>0, <2>1, <2>2, <2>3
  <2> QED BY <1>1, <2>4, <2>5
<1>3. CASE ChildStarts(c)
  <2>1. /\ call.child = "starts" /\ r = [call EXCEPT !.child = "runs"]
        /\ shell' = [shell EXCEPT ![c] = r]
        /\ output' = IF call.task = "output" THEN [output EXCEPT ![c] = 0] ELSE output
    BY <1>0, <1>3 DEF ChildStarts, Set
  <2>2. call.pc = "wait" /\ (call.task = "output" => call.wrote = 0)
    BY <1>0, <2>1 DEF OutputOK
  <2> HIDE DEF call
  <2>3. /\ r \in Calls /\ r.pc = "wait" /\ r.child = "runs" /\ r.task = call.task
        /\ r.wrote = call.wrote /\ r.size = call.size /\ r.exit = call.exit
        /\ r.ret = call.ret /\ r.limit = call.limit /\ r.left = call.left /\ r.naps = call.naps
        /\ r.saved = call.saved /\ r.forkFailed = call.forkFailed
    BY <1>0, <2>1, <2>2 DEF Calls
  <2> HIDE DEF r
  <2>4. Same
    BY <2>1, <2>2, <2>3
  <2>5. FileOK
    BY <1>0, <2>1, <2>2, <2>3
  <2> QED BY <1>1, <2>4, <2>5
<1>4. CASE ChildWrites(c)
  <2>1. /\ call.child = "runs" /\ call.task = "output"
        /\ r = [call EXCEPT !.wrote = call.wrote + 1]
        /\ shell' = [shell EXCEPT ![c] = r]
        /\ output' = IF output[c] = -1 THEN output ELSE [output EXCEPT ![c] = output[c] + 1]
    BY <1>0, <1>4 DEF ChildWrites, Set
  <2>2. call.pc = "wait" /\ output[c] \in {-1, call.wrote} /\ call.wrote + 1 \in Nat
    BY <1>0, <2>1 DEF OutputOK, Calls
  <2> HIDE DEF call
  <2>3. /\ r \in Calls /\ r.pc = "wait" /\ r.child = "runs" /\ r.task = "output"
        /\ r.wrote = call.wrote + 1 /\ r.size = call.size /\ r.exit = call.exit
        /\ r.ret = call.ret /\ r.limit = call.limit /\ r.left = call.left /\ r.naps = call.naps
        /\ r.saved = call.saved /\ r.forkFailed = call.forkFailed
    BY <1>0, <2>1, <2>2 DEF Calls
  <2> HIDE DEF r
  <2>4. Same
    BY <2>1, <2>2, <2>3
  <2>5. FileOK
    BY <1>0, <2>1, <2>2, <2>3
  <2> QED BY <1>1, <2>4, <2>5
<1>5. ASSUME NEW st \in {0, 1}, ChildEnds(c, st) PROVE CommandInv'
  <2>1. /\ call.child \in {"starts", "runs"}
        /\ r = [call EXCEPT !.child = "ended", !.status = st]
        /\ shell' = [shell EXCEPT ![c] = r] /\ output' = output
    BY <1>0, <1>5 DEF ChildEnds, Set
  <2>2. call.pc = "wait" /\ (call.task = "output" => output[c] \in {-1, call.wrote})
    BY <1>0, <2>1 DEF OutputOK
  <2> HIDE DEF call
  <2>3. /\ r \in Calls /\ r.pc = "wait" /\ r.child = "ended" /\ r.task = call.task
        /\ r.wrote = call.wrote /\ r.size = call.size /\ r.exit = call.exit
        /\ r.ret = call.ret /\ r.limit = call.limit /\ r.left = call.left /\ r.naps = call.naps
        /\ r.saved = call.saved /\ r.forkFailed = call.forkFailed
    BY <1>0, <2>1, <2>2 DEF Calls
  <2> HIDE DEF r
  <2>4. Same
    BY <2>1, <2>2, <2>3
  <2>5. FileOK
    BY <1>0, <2>1, <2>2, <2>3
  <2> QED BY <1>1, <2>4, <2>5
<1>6. CASE Nap(c)
  <2>1. /\ shell' = [shell EXCEPT ![c] = r] /\ call.pc = "wait"
        /\ r = [call EXCEPT !.left = call.left - 1, !.naps = call.naps + 1]
        /\ call.left > 0 /\ output' = output
    BY <1>0, <1>6 DEF Nap, Set, Is
  <2> HIDE DEF call
  <2>2. call.left - 1 \in Nat /\ call.naps + 1 \in Nat
        /\ (call.left - 1) + (call.naps + 1) = call.left + call.naps
    BY <1>0, <2>1 DEF Calls
  <2>3. /\ r \in Calls /\ r.pc = "wait" /\ r.child = call.child /\ r.task = call.task
        /\ r.wrote = call.wrote /\ r.size = call.size /\ r.exit = call.exit
        /\ r.ret = call.ret /\ r.limit = call.limit /\ r.left = call.left - 1
        /\ r.naps = call.naps + 1
        /\ r.saved = call.saved /\ r.forkFailed = call.forkFailed
    BY <1>0, <2>1, <2>2 DEF Calls
  <2> HIDE DEF r
  <2>4. Same
    BY <2>1, <2>2, <2>3
  <2>5. FileOK
    BY <1>0, <2>1, <2>3 DEF OutputOK
  <2> QED BY <1>1, <2>4, <2>5
<1> QED
  BY <1>2, <1>3, <1>4, <1>5, <1>6

LEMMA EndKeeps ==
    ASSUME CommandInv, NEW c \in Callers,
           ForkFails(c) \/ Reap(c) \/ StatusLost(c) \/ GiveUp(c) \/ ReadOutput(c)
    PROVE  CommandInv'
<1> DEFINE call == shell[c]
<1>0. /\ call \in Calls /\ CallOK(call, output[c]) /\ SignalsOK(call) /\ LooksOK(call)
      /\ OutputOK(call, output[c]) /\ output[c] \in Int /\ output \in [Callers -> Int]
  BY CallIs
<1>1. CASE ForkFails(c)
  <2> DEFINE r == [call EXCEPT !.forkFailed = TRUE]
  <2>1. call.pc = "fork" /\ shell' = [shell EXCEPT ![c] = After(r, -1)] /\ output' = output
    BY <1>1 DEF ForkFails, Is, Set
  <2> HIDE DEF call
  <2>2. /\ r \in Calls /\ r.child = call.child /\ r.forkFailed = TRUE /\ r.task = call.task
        /\ r.ret = call.ret /\ r.size = call.size /\ r.wrote = call.wrote /\ r.exit = call.exit
    BY <1>0 DEF Calls
  <2>3. r.child = "none" /\ r.task # "none" /\ (r.task = "rm" => RetOK(r))
    <3> HIDE DEF r
    <3> QED BY <1>0, <2>1, <2>2 DEF OutputOK, LooksOK, RetOK
  <2>4. r.deaf => r.forkFailed
    BY <2>2, Zenon
  <2> HIDE DEF r
  <2>5. CallOK(After(r, -1), output'[c])
    BY <2>2, <2>3, <2>4, AfterOK
  <2> QED
    BY <1>0, <2>1, <2>5, OneMoves
<1>2. ASSUME NEW exit \in {-1, 0, 1}, call.task # "output" => exit = call.exit,
             NEW value \in Int,
             value >= 0 => call.child = "ended" /\ (call.task = "output" => exit # -1),
             value = -2 => call.left = 0, call.pc = "wait", output' = output,
             Set(c, After([Restored(call) EXCEPT !.exit = exit], value))
      PROVE  CommandInv'
  <2> HIDE DEF call
  <2>1. CallOK(After([Restored(call) EXCEPT !.exit = exit], value), output'[c])
    BY <1>0, <1>2, RestoredOK
  <2> QED
    BY <1>0, <1>2, <2>1, OneMoves DEF Set
<1>3. CASE Reap(c)
  <2>1. /\ call.pc = "wait" /\ call.child = "ended" /\ output' = output
        /\ call.status \in {0, 1} /\ call.exit \in {-1, 0, 1}
    BY <1>0, <1>3 DEF Reap, Is, Calls
  <2>2. Set(c, After([Restored(call) EXCEPT
                         !.exit = IF call.task = "output" THEN call.status ELSE @], call.status))
    BY <1>3 DEF Reap
  <2>3. Restored(call).exit = call.exit
    BY <1>0 DEF Restored, Calls
  <2>4. Set(c, After([Restored(call) EXCEPT
                !.exit = IF call.task = "output" THEN call.status ELSE call.exit], call.status))
    BY <2>2, <2>3
  <2> HIDE DEF call
  <2> QED
    BY <1>2, <2>1, <2>4
<1>4. ASSUME NEW value \in {-1, -2}, value = -2 => call.left = 0, call.pc = "wait",
             output' = output, Set(c, After(Restored(call), value))
      PROVE  CommandInv'
  <2> HIDE DEF call
  <2>1. Restored(call) = [Restored(call) EXCEPT !.exit = call.exit] /\ call.exit \in {-1, 0, 1}
    BY <1>0 DEF Restored, Calls
  <2> QED
    BY <1>2, <1>4, <2>1
<1>5. CASE StatusLost(c)
  BY <1>4, <1>5 DEF StatusLost, Is
<1>6. CASE GiveUp(c)
  BY <1>4, <1>6 DEF GiveUp, Is
<1>7. CASE ReadOutput(c)
  <2>1. PICK n \in {-1, IF output[c] = -1 THEN -1 ELSE Least(call.size, output[c])} :
            Set(c, Run([call EXCEPT !.ret = n], "rm", EXVAL_LIMIT))
    BY <1>7 DEF ReadOutput
  <2> DEFINE r == [call EXCEPT !.ret = n]
  <2>2. /\ call.pc = "open" /\ output' = output
        /\ shell' = [shell EXCEPT ![c] = Run(r, "rm", EXVAL_LIMIT)]
    BY <1>7, <2>1 DEF ReadOutput, Is, Set
  <2>3. call.child = "none" /\ (call.deaf => call.forkFailed)
    BY <2>2, CallIs
  <2> HIDE DEF call
  <2>4. /\ n = -1 \/ (n = Least(call.size, call.wrote) /\ call.exit # -1)
        /\ call.size \in Nat /\ call.wrote \in Nat
    BY <1>0, <2>1, <2>2 DEF OutputOK, Calls
  <2>5. n \in Int /\ n >= -1
    BY <2>4 DEF Least
  <2>6. /\ r \in Calls /\ r.child = call.child /\ r.deaf = call.deaf
        /\ r.forkFailed = call.forkFailed /\ r.ret = n
        /\ r.size = call.size /\ r.wrote = call.wrote /\ r.exit = call.exit
    BY <1>0, <2>5 DEF Calls
  <2> HIDE DEF r
  <2>7. RetOK(r) /\ r.child = "none" /\ (r.deaf => r.forkFailed)
    BY <2>3, <2>4, <2>5, <2>6 DEF RetOK
  <2>8. CallOK(Run(r, "rm", EXVAL_LIMIT), output'[c])
    BY <2>6, <2>7, RunOK
  <2> QED
    BY <1>0, <2>2, <2>8, OneMoves
<1> QED
  BY <1>1, <1>3, <1>5, <1>6, <1>7

\* rm takes a file away, its caller's or another's.
LEMMA RemoveKeeps ==
    ASSUME CommandInv, NEW c \in Callers, NEW d \in Callers, ChildRemoves(c, d)
    PROVE  CommandInv'
<1>1. output' = [output EXCEPT ![d] = -1] /\ shell' = shell
  BY DEF ChildRemoves
<1>2. ASSUME NEW e \in Callers PROVE CallOK(shell[e], output'[e])
  <2>1. CallOK(shell[e], output[e]) /\ output'[e] \in {output[e], -1}
    BY <1>1 DEF CommandInv
  <2> QED
    BY <2>1, NameLost
<1> QED
  BY <1>1, <1>2 DEF CommandInv

LEMMA CommandNextInv == CommandInv /\ [LibCNext]_libcVars => CommandInv'
<1> SUFFICES ASSUME CommandInv, [LibCNext]_libcVars PROVE CommandInv'
  OBVIOUS
<1>1. CASE UNCHANGED libcVars
  BY <1>1 DEF libcVars, CommandInv
<1>2. CASE LibCNext
  BY <1>2, BeginKeeps, WaitKeeps, EndKeeps, RemoveKeeps DEF LibCNext
<1> QED
  BY <1>1, <1>2

\* The strengthened invariant holds throughout.
LEMMA CommandInvHolds == LibCSpec => []CommandInv
  BY CommandInitInv, CommandNextInv, PTL DEF LibCSpec

(***************************************************************************)
(* vpk_system_exval says that it has failed, or its number counts what its *)
(* own command has written until it ended, as much of it as the buffer     *)
(* holds, however many callers remove each other's files.                  *)
(***************************************************************************)
THEOREM OutputIsOwn == LibCSpec => []OutputOrFailure
<1>1. CommandInv => OutputOrFailure
  BY DEF CommandInv, CallOK, OutputOK, RetOK, OutputOrFailure, HasAnswer, Is
<1> QED
  BY <1>1, CommandInvHolds, PTL

(***************************************************************************)
(* After SystemEx no child is left, the signals are as they were unless a  *)
(* fork has failed, and -2 means that the whole timeout has passed, if its *)
(* number of looks fits in an unsigned int.                                *)
(***************************************************************************)
THEOREM NothingLeftBehind == ASSUME NoOverflow PROVE LibCSpec => []SystemExIsOver
<1>1. CommandInv => SystemExIsOver
  <2> SUFFICES ASSUME CommandInv, NEW c \in Callers, Is(c, "idle")
               PROVE  /\ shell[c].child = "none"
                      /\ shell[c].deaf => shell[c].forkFailed
                      /\ shell[c].ret = -2 => shell[c].naps =
                            IF shell[c].limit = 0 THEN UINT - 1 ELSE POLLS * shell[c].limit
    BY DEF SystemExIsOver, TimeoutIsKept
  <2>1. /\ SignalsOK(shell[c]) /\ LooksOK(shell[c]) /\ OutputOK(shell[c], output[c])
        /\ shell[c].pc = "idle"
    BY DEF CommandInv, CallOK, Is
  <2>2. shell[c].child = "none"
    BY <2>1 DEF OutputOK
  <2>3. shell[c].deaf => shell[c].forkFailed
    BY <2>1 DEF SignalsOK
  <2>4. ASSUME shell[c].ret = -2
        PROVE  shell[c].naps = IF shell[c].limit = 0 THEN UINT - 1 ELSE POLLS * shell[c].limit
    BY <2>1, <2>4, LooksAre DEF LooksOK
  <2> QED
    BY <2>2, <2>3, <2>4
<1> QED
  BY <1>1, CommandInvHolds, PTL

----------------------------------------------------------------------------
(***************************************************************************)
(* Proofs about the download, for a remote file of any size and any number *)
(* of attempts, however they end.                                          *)
(***************************************************************************)

DTypes ==
    /\ local \in Seq(Nat)
    /\ transfer \in {"idle", "open", "asked", "body", "end"}
    /\ have_size \in Nat /\ received \in Nat /\ status \in Nat
    /\ downloadRet \in Int /\ page \in BOOLEAN

\* The file is a beginning of the remote one.
Prefix == Len(local) <= RemoteSize /\ \A i \in 1 .. Len(local) : local[i] = i

(***************************************************************************)
(* How far the call is tells how long the file is: what it had and what it *)
(* has received since, and all of it once the reply has ended.             *)
(***************************************************************************)
Progress ==
    /\ transfer \in {"open", "asked", "body"} => Len(local) = have_size + received
    /\ transfer \in {"open", "asked"} => received = 0
    /\ transfer = "end" => Len(local) = RemoteSize /\ have_size <= RemoteSize
    /\ transfer # "idle" => downloadRet # 0 /\ have_size <= Len(local)
    /\ transfer = "idle" /\ downloadRet = 0 => Len(local) = RemoteSize

\* The inductive invariant.
DownloadInv == DTypes /\ (~page => Prefix /\ Progress) /\ (page /\ transfer # "idle" => downloadRet # 0)

USE DownloadAssumption

----------------------------------------------------------------------------
LEMMA NoFile == <<>> \in Seq(Nat) /\ Len(<<>>) = 0
  BY EmptySeq

LEMMA DownloadInitInv == DownloadInit => DownloadInv
<1> SUFFICES ASSUME DownloadInit PROVE DownloadInv
  OBVIOUS
<1>0. /\ local = <<>> /\ transfer = "idle" /\ downloadRet = -1 /\ page = FALSE
      /\ have_size = 0 /\ received = 0 /\ status = 0
  BY DEF DownloadInit
<1>1. local \in Seq(Nat) /\ Len(local) = 0
  BY <1>0, NoFile, Zenon
<1>2. page \in BOOLEAN
  BY <1>0, Zenon
<1>3. DTypes
  BY <1>0, <1>1, <1>2 DEF DTypes
<1>4. Prefix /\ Progress
  BY <1>0, <1>1 DEF Prefix, Progress
<1> QED
  BY <1>0, <1>3, <1>4 DEF DownloadInv

\* The file is removed between two calls.
LEMMA Anew ==
    ASSUME local' = <<>>, transfer' = "idle", downloadRet' = -1, page' = FALSE,
           have_size' \in Nat, received' \in Nat, status' \in Nat
    PROVE  DownloadInv'
<1>1. local' \in Seq(Nat) /\ Len(local') = 0
  BY NoFile, Zenon
<1>2. page' \in BOOLEAN /\ downloadRet' \in Int
  <2>1. page' \in BOOLEAN
    BY Zenon
  <2> QED
    BY <2>1
<1>3. DTypes'
  BY <1>1, <1>2, Zenon DEF DTypes
<1>4. Prefix'
  BY <1>1 DEF Prefix
<1>5. Progress'
  BY DEF Progress
<1> QED
  BY <1>3, <1>4, <1>5, Zenon DEF DownloadInv

\* A byte that continues the file.
LEMMA OneMore ==
    ASSUME NEW s \in Seq(Nat), NEW b \in Nat
    PROVE  /\ Append(s, b) \in Seq(Nat)
           /\ Len(Append(s, b)) = Len(s) + 1
           /\ \A i \in 1 .. Len(s) : Append(s, b)[i] = s[i]
           /\ Append(s, b)[Len(s) + 1] = b
  BY AppendProperties

\* What is left of the file when its last bytes are lost.
LEMMA Beginning ==
    ASSUME NEW s \in Seq(Nat), NEW m \in 0 .. Len(s)
    PROVE  /\ SubSeq(s, 1, m) \in Seq(Nat)
           /\ Len(SubSeq(s, 1, m)) = m
           /\ \A i \in 1 .. m : SubSeq(s, 1, m)[i] = s[i]
<1>1. Len(s) \in Nat
  BY LenProperties
<1>2. \A i \in 1 .. m : s[i] \in Nat
  BY <1>1, ElementOfSeq
<1>3. m \in Int
  BY <1>1
<1>4. /\ SubSeq(s, 1, m) \in Seq(Nat)
      /\ Len(SubSeq(s, 1, m)) = IF 1 <= m THEN m - 1 + 1 ELSE 0
      /\ \A i \in 1 .. m - 1 + 1 : SubSeq(s, 1, m)[i] = s[1 + i - 1]
  BY <1>2, <1>3, SubSeqProperties
<1>5. \A i \in 1 .. m : SubSeq(s, 1, m)[i] = s[i]
  BY <1>4, <1>1
<1> QED
  BY <1>4, <1>5, <1>1

\* Steps that leave the file alone and end a call without success.
LEMMA GivesUp ==
    ASSUME DownloadInv, transfer' = "idle", downloadRet' \in Int \ {0},
           UNCHANGED <<local, have_size, received, status, page>>
    PROVE  DownloadInv'
  BY DEF DownloadInv, DTypes, Prefix, Progress

LEMMA WriteKeeps == ASSUME DownloadInv, write_data PROVE DownloadInv'
<1> USE DEF write_data
<1> DEFINE b == have_size + received + 1
<1>0. /\ local \in Seq(Nat) /\ have_size \in Nat /\ received \in Nat /\ Len(local) \in Nat
      /\ page' = page /\ transfer = "body" /\ transfer' = "body" /\ received' = received + 1
      /\ have_size' = have_size /\ have_size + received < RemoteSize
      /\ downloadRet' = downloadRet /\ status' = status
  BY LenProperties DEF DownloadInv, DTypes
<1>1. local' = Append(local, b) /\ b \in Nat
  BY <1>0
<1> HIDE DEF write_data
<1>2. /\ local' \in Seq(Nat) /\ Len(local') = Len(local) + 1
      /\ \A i \in 1 .. Len(local) : local'[i] = local[i]
      /\ local'[Len(local) + 1] = b
  <2> HIDE DEF b
  <2> QED BY <1>0, <1>1, OneMore
<1>3. DTypes'
  BY <1>0, <1>2 DEF DownloadInv, DTypes
<1>4. ASSUME ~page PROVE Prefix' /\ Progress'
  <2>1. /\ Len(local) = have_size + received /\ Len(local) < RemoteSize /\ downloadRet # 0
        /\ \A i \in 1 .. Len(local) : local[i] = i
    BY <1>0, <1>4 DEF DownloadInv, Prefix, Progress
  <2>2. \A i \in 1 .. Len(local') : local'[i] = i
    BY <1>0, <1>2, <2>1
  <2> QED
    BY <1>0, <1>2, <2>1, <2>2 DEF Prefix, Progress
<1> QED
  BY <1>0, <1>3, <1>4 DEF DownloadInv

LEMMA DownloadDeathKeeps == ASSUME DownloadInv, DownloaderDies PROVE DownloadInv'
<1> USE DEF DownloaderDies
<1>0. /\ local \in Seq(Nat) /\ have_size \in Nat /\ Len(local) \in Nat
      /\ transfer # "idle" /\ transfer' = "idle"
      /\ UNCHANGED <<have_size, received, status, downloadRet, page>>
  BY LenProperties DEF DownloadInv, DTypes
<1>1. PICK n \in 0 .. Len(local) - have_size : local' = SubSeq(local, 1, Len(local) - n)
  OBVIOUS
<1> HIDE DEF DownloaderDies
<1> DEFINE m == Len(local) - n
<1>2. m \in 0 .. Len(local) /\ local' = SubSeq(local, 1, m)
  BY <1>0, <1>1
<1> HIDE DEF m
<1>3. /\ local' \in Seq(Nat) /\ Len(local') = m
      /\ \A i \in 1 .. m : local'[i] = local[i]
  BY <1>0, <1>2, Beginning
<1>4. DTypes'
  BY <1>0, <1>3 DEF DownloadInv, DTypes
<1>5. downloadRet # 0
  BY <1>0 DEF DownloadInv, DTypes, Progress
<1>6. ~page => Prefix'
  BY <1>0, <1>2, <1>3 DEF DownloadInv, Prefix
<1>7. Progress'
  BY <1>0, <1>5 DEF Progress
<1> QED
  BY <1>0, <1>4, <1>6, <1>7 DEF DownloadInv

LEMMA DownloadNextInv == DownloadInv /\ [DownloadNext]_downloadVars => DownloadInv'
<1> SUFFICES ASSUME DownloadInv, [DownloadNext]_downloadVars PROVE DownloadInv'
  OBVIOUS
<1>0. Len(local) \in Nat
  BY LenProperties DEF DownloadInv, DTypes
<1>1. CASE http_download
  BY <1>0, <1>1 DEF http_download, DownloadInv, DTypes, Prefix, Progress
<1>2. CASE CannotStart \/ PerformFails
  BY <1>2, GivesUp DEF CannotStart, PerformFails, Leave
<1>3. CASE OpenLocal \/ Reply \/ NothingLeft \/ BodyEnds
  BY <1>0, <1>3 DEF OpenLocal, Reply, NothingLeft, BodyEnds, DownloadInv, DTypes, Prefix, Progress
<1>4. CASE ErrorPage
  <2>1. Append(local, 0) \in Seq(Nat)
    BY OneMore DEF DownloadInv, DTypes
  <2>2. downloadRet # 0
    BY <1>4 DEF ErrorPage, DownloadInv, DTypes, Progress
  <2> QED
    BY <1>4, <2>1, <2>2 DEF ErrorPage, DownloadInv, DTypes
<1>5. CASE write_data
  BY <1>5, WriteKeeps
<1>6. CASE DownloadReturns
  BY <1>0, <1>6 DEF DownloadReturns, Leave, DownloadInv, DTypes, Prefix, Progress
<1>7. CASE DownloaderDies
  BY <1>7, DownloadDeathKeeps
<1>8. CASE RemoveLocal
  <2>1. /\ local' = <<>> /\ transfer' = "idle" /\ downloadRet' = -1 /\ page' = FALSE
        /\ have_size' \in Nat /\ received' \in Nat /\ status' \in Nat
    BY <1>8 DEF RemoveLocal, DownloadInv, DTypes
  <2> QED
    BY <2>1, Anew
<1>9. CASE UNCHANGED downloadVars
  BY <1>9 DEF downloadVars, DownloadInv, DTypes, Prefix, Progress
<1> QED
  BY <1>1, <1>2, <1>3, <1>4, <1>5, <1>6, <1>7, <1>8, <1>9 DEF DownloadNext

(***************************************************************************)
(* However the attempts end, the local file is a beginning of the remote   *)
(* one, and all of it when http_download has returned 0, as long as no     *)
(* error page has been written to it.                                      *)
(***************************************************************************)
THEOREM DownloadIsExact == DownloadSpec => []LocalIsRemote
<1>1. DownloadInv => LocalIsRemote
  BY DEF DownloadInv, Prefix, Progress, LocalIsRemote
<1> QED
  BY <1>1, DownloadInitInv, DownloadNextInv, PTL DEF DownloadSpec
=============================================================================
