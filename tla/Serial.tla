------------------------------- MODULE Serial -------------------------------
(***************************************************************************)
(* A serial port: vpk_serial.c over x86_serial.c (nt966x_serial.c is the   *)
(* same but for names).  One session uses the port.  The device sends      *)
(* bytes, numbered 1, 2, ..., whenever it likes, may be slow to accept     *)
(* what is written, and may hang up; signals interrupt system calls.       *)
(*                                                                         *)
(* The line settings are a record [baud, data, parity, stop] of the        *)
(* numbers that the caller passed; what the driver gets is normalised.     *)
(***************************************************************************)
EXTENDS Integers, Sequences

CONSTANTS Settings,     \* the line settings that callers ask for
          Sizes,        \* values of nbytes
          Timouts,      \* values of timout
          MaxSent       \* bound: bytes the device sends

ASSUME SerialAssumption ==
    /\ Sizes \subseteq Nat
    /\ Timouts \subseteq Int
    /\ MaxSent \in Nat

VARIABLES fd,           \* thiz->fd >= 0
          asked,        \* baud_speed, data_bits, parity_bit, stop_bit of the session
          line,         \* what the driver has been set to
          rx,           \* bytes that the driver holds for the session
          sent,         \* number of the last byte the device has sent
          hungup,       \* the device is gone
          at,           \* "idle", or where the call in progress is
          nbytes, timout, count, total,     \* of the call in progress
          ptr,          \* how far the pointer into buf has moved
          buf,          \* the caller's buffer: what has been stored at each place
          budget,       \* ghost: the timout the call was made with
          waited,       \* ghost: seconds the call has waited
          passed,       \* ghost: number of the last byte given back, dropped or flushed
          tx,           \* ghost: the places of buf that the device has accepted, in order
          serialRet

port == <<fd, asked, line>>
device == <<rx, sent, hungup, passed>>
args == <<nbytes, timout, count, total, ptr, buf, budget, waited>>
serialVars == <<port, device, at, args, tx, serialRet>>

Bauds == {2400, 4800, 9600, 19200, 38400, 57600, 115200, 230400, 460800, 576000, 921600}

\* The switches of rs232_opt_ex, with their default branches.
Normalised(s) ==
    [baud |-> IF s.baud \in Bauds THEN s.baud ELSE 9600,
     data |-> IF s.data \in 5 .. 8 THEN s.data ELSE 8,
     parity |-> CASE s.parity \in {"o", "O"} -> "odd"
                  [] s.parity \in {"e", "E"} -> "even"
                  [] OTHER -> "none",
     stop |-> IF s.stop = 2 THEN 2 ELSE 1]

\* as x86_serial_load makes it
SerialInit ==
    /\ fd = FALSE /\ asked = [baud |-> 9600, data |-> 8, parity |-> "n", stop |-> 1]
    /\ line = Normalised(asked)
    /\ rx = <<>> /\ sent = 0 /\ hungup = FALSE /\ passed = 0
    /\ at = "idle" /\ serialRet = 0
    /\ nbytes = 0 /\ timout = 0 /\ count = 0 /\ total = 0 /\ ptr = 0
    /\ buf = <<>> /\ budget = 0 /\ waited = 0 /\ tx = <<>>

Finish(value) == at' = "idle" /\ serialRet' = value

----------------------------------------------------------------------------
(* Opening and closing; a session that is open is not opened again          *)

\* slip: tcflush is left out
OptKeepsInput(s) ==
    /\ line' = Normalised(s)
    /\ rx' = rx
    /\ passed' = sent

\* tcflush and tcsetattr: what the driver holds is thrown away
rs232_opt_ex(s) ==
    /\ line' = Normalised(s)
    /\ rx' = <<>>
    /\ passed' = sent

vpk_serial_create(s) ==
    /\ at = "idle" /\ ~fd
    /\ asked' = s
    /\ UNCHANGED <<fd, line, device, at, args, tx, serialRet>>

SerialOpen ==
    /\ at = "idle" /\ ~fd /\ ~hungup
    /\ fd' = TRUE
    /\ rs232_opt_ex(asked)
    /\ Finish(0)
    /\ UNCHANGED <<asked, sent, hungup, args, tx>>

\* the terminal cannot be opened or set up; a descriptor is closed again
SerialOpenFails ==
    /\ at = "idle" /\ ~fd
    /\ Finish(-1)
    /\ UNCHANGED <<port, device, args, tx>>

\* vpk_serial_opt_set stores the settings before it tries them
OptSet(s) ==
    /\ at = "idle" /\ fd
    /\ asked' = s
    /\ rs232_opt_ex(s)
    /\ Finish(0)
    /\ UNCHANGED <<fd, sent, hungup, args, tx>>

OptSetFails(s) ==
    /\ at = "idle" /\ fd
    /\ asked' = s
    /\ Finish(-1)
    /\ UNCHANGED <<rx, passed>> \/ (rx' = <<>> /\ passed' = sent)
    /\ UNCHANGED <<fd, line, sent, hungup, args, tx>>

\* vpk_serial_close, vpk_serial_destroy
SerialClose ==
    /\ at = "idle"
    /\ fd' = FALSE
    /\ rx' = <<>> /\ passed' = sent
    /\ Finish(0)
    /\ UNCHANGED <<asked, line, sent, hungup, args, tx>>

----------------------------------------------------------------------------
(* The device                                                              *)

DeviceSends ==
    /\ fd /\ ~hungup
    /\ sent < MaxSent
    /\ sent' = sent + 1
    /\ rx' = Append(rx, sent + 1)
    /\ UNCHANGED <<port, hungup, passed, at, args, tx, serialRet>>

HangUp ==
    /\ fd /\ ~hungup /\ hungup' = TRUE
    /\ UNCHANGED <<port, rx, sent, passed, at, args, tx, serialRet>>

----------------------------------------------------------------------------
(* vpk_serial_read                                                         *)

Call(where, n, t, length) ==
    /\ at = "idle" /\ fd
    /\ nbytes' = n /\ timout' = t /\ budget' = t
    /\ count' = 0 /\ total' = length /\ ptr' = 0
    /\ buf' = <<>> /\ waited' = 0
    /\ at' = where

ReadCall(n, t) ==
    /\ n > 0
    /\ Call("select", n, t, n)
    /\ UNCHANGED <<port, device, tx, serialRet>>

\* a closed session, or nbytes is 0
CallRefused(value) ==
    /\ at = "idle"
    /\ value = -1 => ~fd
    /\ Finish(value)
    /\ UNCHANGED <<port, device, args, tx>>

\* what the caller has when read returns without an error
GivesBack == passed' = passed + count

Readable == rx # <<>> \/ hungup

\* select fails: -1, whatever has been read
ReadFails ==
    /\ at = "select"
    /\ count < nbytes
    /\ Finish(-1)
    /\ GivesBack
    /\ UNCHANGED <<port, rx, sent, hungup, args, tx>>

\* select comes back after delay_time with nothing to read
SelectTimesOut ==
    /\ at = "select"
    /\ count < nbytes /\ ~Readable
    /\ waited' = waited + (IF budget > 0 THEN 1 ELSE 0)
    /\ at' = "visit"
    /\ UNCHANGED <<port, device, nbytes, timout, count, total, ptr, buf, budget, tx, serialRet>>

\* the places of buf that n bytes at ptr are stored in
Stored(bytes) ==
    [i \in DOMAIN buf \cup (ptr + 1 .. ptr + Len(bytes)) |->
        IF i > ptr THEN bytes[i - ptr] ELSE buf[i]]

\* slip: total is not counted down
SelectReadableOverruns ==
    /\ at = "select"
    /\ count < nbytes /\ Readable
    /\ \E n \in 0 .. Len(rx) :
        /\ n <= total
        /\ n = 0 => hungup /\ rx = <<>>
        /\ buf' = Stored(SubSeq(rx, 1, n))
        /\ rx' = SubSeq(rx, n + 1, Len(rx))
        /\ count' = count + n /\ ptr' = ptr + n /\ total' = total
    /\ at' = "visit"
    /\ UNCHANGED <<port, sent, hungup, passed, nbytes, timout, budget, waited, tx, serialRet>>

\* read(fd, ptr, total); at the end of file it returns 0
SelectReadable ==
    /\ at = "select"
    /\ count < nbytes /\ Readable
    /\ \E n \in 0 .. Len(rx) :
        /\ n <= total
        /\ n = 0 => hungup /\ rx = <<>>
        /\ buf' = Stored(SubSeq(rx, 1, n))
        /\ rx' = SubSeq(rx, n + 1, Len(rx))
        /\ count' = count + n /\ ptr' = ptr + n /\ total' = total - n
    /\ at' = "visit"
    /\ UNCHANGED <<port, sent, hungup, passed, nbytes, timout, budget, waited, tx, serialRet>>

\* visit returns 0
VisitEnds ==
    /\ at = "visit"
    /\ Finish(count)
    /\ GivesBack
    /\ UNCHANGED <<port, rx, sent, hungup, args, tx>>

\* slip: while (--timout >= 0)
OnceMore ==
    /\ at = "visit"
    /\ timout' = timout - 1
    /\ \/ timout' >= 0 /\ at' = "select" /\ UNCHANGED <<passed, serialRet>>
       \/ timout' < 0 /\ Finish(count) /\ GivesBack
    /\ UNCHANGED <<port, rx, sent, hungup, nbytes, count, total, ptr, buf, budget, waited, tx>>

\* slip: a round that finds the device gone is not counted
RoundNotCounted ==
    /\ at = "visit"
    /\ timout' = IF hungup THEN timout ELSE timout - 1
    /\ \/ timout' > 0 /\ at' = "select" /\ UNCHANGED <<passed, serialRet>>
       \/ timout' <= 0 /\ Finish(count) /\ GivesBack
    /\ UNCHANGED <<port, rx, sent, hungup, nbytes, count, total, ptr, buf, budget, waited, tx>>

\* while (--timout > 0)
NextRound ==
    /\ at = "visit"
    /\ timout' = timout - 1
    /\ \/ timout' > 0 /\ at' = "select" /\ UNCHANGED <<passed, serialRet>>
       \/ timout' <= 0 /\ Finish(count) /\ GivesBack
    /\ UNCHANGED <<port, rx, sent, hungup, nbytes, count, total, ptr, buf, budget, waited, tx>>

ReadComplete ==
    /\ at = "select"
    /\ count >= nbytes
    /\ Finish(nbytes)
    /\ GivesBack
    /\ UNCHANGED <<port, rx, sent, hungup, args, tx>>

----------------------------------------------------------------------------
(* vpk_serial_write                                                        *)

\* buf holds a string of the given length
WriteCall(n, length) ==
    /\ n > 0
    /\ Call("write", n, 0, IF length < n THEN length ELSE n)
    /\ tx' = <<>>
    /\ UNCHANGED <<port, device, serialRet>>

\* slip: the pointer stays where it is
AcceptSamePlace ==
    /\ at = "write" /\ ~hungup
    /\ count < total
    /\ \E n \in 1 .. total :
        /\ tx' = tx \o [i \in 1 .. n |-> ptr + i]
        /\ count' = count + n /\ total' = total - n
    /\ UNCHANGED <<port, device, at, nbytes, timout, ptr, buf, budget, waited, serialRet>>

\* write(fd, ptr, total) accepts n bytes
Accept ==
    /\ at = "write" /\ ~hungup
    /\ count < total
    /\ \E n \in 1 .. total :
        /\ tx' = tx \o [i \in 1 .. n |-> ptr + i]
        /\ count' = count + n /\ total' = total - n /\ ptr' = ptr + n
    /\ UNCHANGED <<port, device, at, nbytes, timout, buf, budget, waited, serialRet>>

\* the loop has ended, or write has failed
WriteReturns ==
    /\ at = "write"
    /\ Finish(count)
    /\ UNCHANGED <<port, device, args, tx>>

----------------------------------------------------------------------------
ReadStep ==
    ReadComplete \/ SelectTimesOut \/ SelectReadable \/ VisitEnds \/ NextRound

SerialNext ==
    \/ SerialOpen \/ SerialOpenFails \/ SerialClose
    \/ \E s \in Settings : vpk_serial_create(s) \/ OptSet(s) \/ OptSetFails(s)
    \/ DeviceSends \/ HangUp
    \/ \E n \in Sizes, t \in Timouts : ReadCall(n, t)
    \/ \E value \in {-1, 0} : CallRefused(value)
    \/ ReadStep \/ ReadFails
    \/ \E n, length \in Sizes : WriteCall(n, length)
    \/ Accept \/ WriteReturns

SerialSpec == SerialInit /\ [][SerialNext]_serialVars

----------------------------------------------------------------------------
(* Properties                                                              *)

Reading == at \in {"select", "visit"}

(***************************************************************************)
(* A read, in however many pieces the bytes come, fills the buffer from    *)
(* its start without a gap and stores nothing behind its end, and asks for *)
(* no more than what is free.                                              *)
(***************************************************************************)
NoOverrun == Reading =>
    /\ DOMAIN buf = 1 .. count
    /\ count + total = nbytes

(***************************************************************************)
(* From opening or setting up the port on, each byte is given back once    *)
(* and in its turn, by this read or by a later one, also the ones that     *)
(* arrive between two reads.  Closing and setting up drop what is there,   *)
(* an error what this read has read.                                       *)
(***************************************************************************)
StreamKept ==
    LET got == IF Reading THEN count ELSE 0
    IN  /\ sent = passed + got + Len(rx)
        /\ \A i \in 1 .. got : buf[i] = passed + i
        /\ \A i \in 1 .. Len(rx) : rx[i] = passed + got + i

(***************************************************************************)
(* vpk_serialc.h:47: "The timeout waiting time (s)".  A read waits at most *)
(* that long, and a read with a timout of 0 or less does not wait.         *)
(***************************************************************************)
ReadInTime == Reading => waited <= IF budget > 0 THEN budget ELSE 0

(***************************************************************************)
(* What the device has accepted of a buffer is its beginning, in order and *)
(* without repetition, and a write returns how much that is.               *)
(***************************************************************************)
WritesPrefix == at = "write" =>
    tx = [i \in 1 .. count |-> i] /\ count <= nbytes

\* A call of vpk_serial_read comes back whatever the device does.
ReadReturns == Reading ~> ~Reading
=============================================================================
