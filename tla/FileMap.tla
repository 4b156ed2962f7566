------------------------------- MODULE FileMap -------------------------------
(***************************************************************************)
(* Reading a file into memory: vpk_mmap.c.  One process saves the file     *)
(* again and again (vpk_mmap_save), and may die at it; another one loads   *)
(* it (vpk_mmap_create) with an offset and a size.  What the file holds is *)
(* the beginning of one of the versions that were saved.                   *)
(***************************************************************************)
EXTENDS Integers

CONSTANTS SIZE_T,       \* size_t is modulo SIZE_T: 2^32 or 2^64
          INT,          \* int is modulo INT: 2^32
          FileSizes,    \* sizes of what is saved; off_t is signed and as wide as size_t
          Offsets,
          MaxSaves      \* bound: saves

ASSUME FileMapAssumption ==
    /\ SIZE_T \in Nat \ {0, 1} /\ INT \in 2 .. SIZE_T /\ MaxSaves \in Nat
    /\ FileSizes \subseteq 1 .. (SIZE_T \div 2) - 1 /\ Offsets \subseteq 0 .. SIZE_T - 1

VARIABLES onDisk,       \* the file: which version, how many bytes of it, and of what size it is
          saving,       \* vpk_mmap_save is between its fopen and its fclose
          loader,       \* the call of vpk_mmap_create: where it is, and its arguments
          map,          \* the VpkMmap it makes: length, and what was read into data
          torn          \* ghost: the last save has not been completed

fileMapVars == <<onDisk, saving, loader, map, torn>>

NoVersion == [version |-> 0, bytes |-> 0, size |-> 0]
NoMap == [length |-> 0, got |-> 0, version |-> 0]

FileMapInit ==
    /\ onDisk = NoVersion /\ saving = FALSE /\ torn = FALSE
    /\ loader = [pc |-> "none", offset |-> 0, size |-> 0, file_size |-> 0, overtaken |-> FALSE]
    /\ map = NoMap

----------------------------------------------------------------------------
(* vpk_mmap_save                                                           *)

Overtake == loader' = [loader EXCEPT !.overtaken = TRUE]

\* fopen with "w+"
SaveOpens(size) ==
    /\ ~saving /\ onDisk.version < MaxSaves
    /\ onDisk' = [version |-> onDisk.version + 1, bytes |-> 0, size |-> size]
    /\ saving' = TRUE /\ torn' = TRUE
    /\ Overtake
    /\ UNCHANGED map

\* fwrite and fclose hand the data over, in one or more pieces
SaveWrites ==
    /\ saving
    /\ \E n \in onDisk.bytes + 1 .. onDisk.size : onDisk' = [onDisk EXCEPT !.bytes = n]
    /\ Overtake
    /\ UNCHANGED <<saving, map, torn>>

SaveReturns ==
    /\ saving /\ onDisk.bytes = onDisk.size
    /\ saving' = FALSE /\ torn' = FALSE
    /\ UNCHANGED <<onDisk, loader, map>>

\* it dies, or the disk is full and less than size is returned
SaveBreaks ==
    /\ saving /\ saving' = FALSE
    /\ UNCHANGED <<onDisk, loader, map, torn>>

----------------------------------------------------------------------------
(* vpk_mmap_create                                                         *)

\* int file_size = ftell(fp), compared as a size_t
FileSize(bytes) ==
    LET int == IF bytes % INT < INT \div 2 THEN bytes % INT ELSE (bytes % INT) - INT
    IN  int % SIZE_T

\* fopen, ftell at the end; the offset must be inside
MapOpens(offset, size) ==
    /\ loader.pc \in {"none", "made"}
    /\ onDisk.version > 0 /\ offset < FileSize(onDisk.bytes)
    /\ loader' = [pc |-> "sized", offset |-> offset, size |-> size,
                  file_size |-> FileSize(onDisk.bytes), overtaken |-> saving]
    /\ map' = NoMap
    /\ UNCHANGED <<onDisk, saving, torn>>

\* there is no file, or the offset is not inside: NULL
MapRefused(offset) ==
    /\ loader.pc = "none"
    /\ onDisk.version = 0 \/ offset >= FileSize(onDisk.bytes)
    /\ UNCHANGED fileMapVars

\* slip: the size is not compared with the file's
MapLengthUnchecked(offset, size, file_size) == size

\* size = (offset + size) <= file_size ? size : file_size
MapLength(offset, size, file_size) ==
    IF (offset + size) % SIZE_T <= file_size THEN size ELSE file_size

Length == MapLength(loader.offset, loader.size, loader.file_size)

\* malloc(size + 1), which gives at most half of what there could be, and fread
\* of size bytes from offset on.  Where size + 1 is 0, fread runs over the end of
\* the block: a small file may find room there, one of gigabytes does not.
MapReads ==
    /\ loader.pc = "sized"
    /\ (Length + 1) % SIZE_T < SIZE_T \div 2
    /\ Length + 1 = SIZE_T => onDisk.bytes < INT \div 2
    /\ loader' = [loader EXCEPT !.pc = "made"]
    /\ LET rest == onDisk.bytes - loader.offset
       IN  map' = [length |-> Length, version |-> onDisk.version,
                   got |-> IF rest < 0 THEN 0 ELSE IF Length < rest THEN Length ELSE rest]
    /\ UNCHANGED <<onDisk, saving, torn>>

\* There is not so much memory: NULL.  Or the overrun has ended the process, and
\* another one loads.
MapFails ==
    /\ loader.pc = "sized"
    /\ loader' = [loader EXCEPT !.pc = "none"]
    /\ UNCHANGED <<onDisk, saving, map, torn>>

vpk_mmap_destroy ==
    /\ loader.pc = "made"
    /\ loader' = [loader EXCEPT !.pc = "none"]
    /\ map' = NoMap
    /\ UNCHANGED <<onDisk, saving, torn>>

FileMapNext ==
    \/ \E size \in FileSizes : SaveOpens(size)
    \/ SaveWrites \/ SaveReturns \/ SaveBreaks
    \/ \E offset \in Offsets, size \in FileSizes \cup {SIZE_T - 1} : MapOpens(offset, size)
    \/ \E offset \in Offsets : MapRefused(offset)
    \/ MapReads \/ MapFails \/ vpk_mmap_destroy

FileMapSpec == FileMapInit /\ [][FileMapNext]_fileMapVars

----------------------------------------------------------------------------
(* Properties                                                              *)

\* Nobody has written the file between its measuring and its reading.
Settled == loader.pc = "made" /\ ~loader.overtaken

(***************************************************************************)
(* vpk_mmap_create of a file that an int can measure: what is asked for    *)
(* and is inside the file has been read in full; with offset 0 it may also *)
(* reach over the end, as -1 does, and gives the whole file.  Each byte    *)
(* that length counts is then one of the file, or NULL is returned.        *)
(***************************************************************************)
MappedIsRead ==
    Settled /\ onDisk.bytes < INT \div 2
    /\ (loader.offset = 0 \/ loader.offset + loader.size <= onDisk.bytes)
    => /\ map.got = map.length
       /\ map.length = IF loader.size < onDisk.bytes THEN loader.size ELSE onDisk.bytes
=============================================================================
