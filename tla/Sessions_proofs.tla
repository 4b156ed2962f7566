--------------------------- MODULE Sessions_proofs ---------------------------
(***************************************************************************)
(* Proofs about the two kinds of device a session leads to: the serial     *)
(* port and the control of the device's settings.                          *)
(***************************************************************************)
EXTENDS Sessions, SequenceTheorems, TLAPS

----------------------------------------------------------------------------
(***************************************************************************)
(* Proofs about the serial port, for any sizes, timeouts and settings, any *)
(* number of bytes from the device, and whatever pieces they come in.      *)
(***************************************************************************)

(***************************************************************************)
(* The inductive invariant.  During a read, pointer and count agree, what  *)
(* is still asked for is what is still free, and the seconds waited and    *)
(* the rounds left add up to the timeout (one more between a round and the *)
(* count of it).  During a write, what is left to write and what has been  *)
(* accepted add up to the beginning of the buffer.                         *)
(***************************************************************************)
STypes ==
    /\ fd \in BOOLEAN /\ hungup \in BOOLEAN
    /\ rx \in Seq(Nat) /\ sent \in Nat /\ passed \in Nat
    /\ at \in {"idle", "select", "visit", "write"}
    /\ nbytes \in Nat /\ count \in Nat /\ total \in Nat /\ ptr \in Nat
    /\ timout \in Int /\ budget \in Int /\ waited \in Nat
    /\ tx \in Seq(Nat)

Filling == Reading =>
    /\ DOMAIN buf = 1 .. count
    /\ count + total = nbytes
    /\ ptr = count

Clock ==
    /\ at = "select" => IF budget > 0 THEN timout > 0 /\ waited + timout <= budget
                                      ELSE waited = 0
    /\ at = "visit" => IF budget > 0 THEN timout > 0 /\ waited + timout <= budget + 1
                                     ELSE waited = 0

Writing == at = "write" =>
    /\ count + total <= nbytes
    /\ ptr = count
    /\ Len(tx) = count
    /\ \A i \in 1 .. Len(tx) : tx[i] = i

SerialInv == STypes /\ Filling /\ Clock /\ Writing /\ StreamKept

USE SerialAssumption

----------------------------------------------------------------------------
LEMMA NoBytes == <<>> \in Seq(Nat) /\ Len(<<>>) = 0
  BY EmptySeq

\* What the driver holds falls into what a read takes and what stays.
LEMMA Taken ==
    ASSUME NEW s \in Seq(Nat), NEW n \in 0 .. Len(s)
    PROVE  /\ SubSeq(s, 1, n) \in Seq(Nat)
           /\ Len(SubSeq(s, 1, n)) = n
           /\ \A i \in 1 .. n : SubSeq(s, 1, n)[i] = s[i]
           /\ SubSeq(s, n + 1, Len(s)) \in Seq(Nat)
           /\ Len(SubSeq(s, n + 1, Len(s))) = Len(s) - n
           /\ \A i \in 1 .. Len(s) - n : SubSeq(s, n + 1, Len(s))[i] = s[n + i]
<1>1. Len(s) \in Nat
  BY LenProperties
<1>2. \A i \in 1 .. Len(s) : s[i] \in Nat
  BY ElementOfSeq
<1>3. \A i \in 1 .. n : s[i] \in Nat
  BY <1>1, <1>2
<1>4. \A i \in n + 1 .. Len(s) : s[i] \in Nat
  BY <1>1, <1>2
<1>5. n \in Int /\ n + 1 \in Int /\ Len(s) \in Int
  BY <1>1
<1>6. /\ SubSeq(s, 1, n) \in Seq(Nat)
      /\ Len(SubSeq(s, 1, n)) = IF 1 <= n THEN n - 1 + 1 ELSE 0
      /\ \A i \in 1 .. n - 1 + 1 : SubSeq(s, 1, n)[i] = s[1 + i - 1]
  BY <1>3, <1>5, SubSeqProperties
<1>7. /\ SubSeq(s, n + 1, Len(s)) \in Seq(Nat)
      /\ Len(SubSeq(s, n + 1, Len(s))) = IF n + 1 <= Len(s) THEN Len(s) - (n + 1) + 1 ELSE 0
      /\ \A i \in 1 .. Len(s) - (n + 1) + 1 : SubSeq(s, n + 1, Len(s))[i] = s[n + 1 + i - 1]
  BY <1>4, <1>5, SubSeqProperties
<1>8. \A i \in 1 .. n : SubSeq(s, 1, n)[i] = s[i]
  BY <1>6, <1>1
<1>9. \A i \in 1 .. Len(s) - n : SubSeq(s, n + 1, Len(s))[i] = s[n + i]
  BY <1>7, <1>1
<1>10. Len(SubSeq(s, 1, n)) = n /\ Len(SubSeq(s, n + 1, Len(s))) = Len(s) - n
  BY <1>6, <1>7, <1>1
<1> QED
  BY <1>6, <1>7, <1>8, <1>9, <1>10

\* One more byte from the device.
LEMMA Sent ==
    ASSUME NEW s \in Seq(Nat), NEW b \in Nat
    PROVE  /\ Append(s, b) \in Seq(Nat)
           /\ Len(Append(s, b)) = Len(s) + 1
           /\ \A i \in 1 .. Len(s) : Append(s, b)[i] = s[i]
           /\ Append(s, b)[Len(s) + 1] = b
  BY AppendProperties

\* The places that the device accepts next continue those it has accepted.
LEMMA AcceptSendsNext ==
    ASSUME NEW s \in Seq(Nat), \A i \in 1 .. Len(s) : s[i] = i, NEW n \in Nat
    PROVE  LET t == s \o [i \in 1 .. n |-> Len(s) + i]
           IN  /\ t \in Seq(Nat)
               /\ Len(t) = Len(s) + n
               /\ \A i \in 1 .. Len(t) : t[i] = i
<1> DEFINE more == [i \in 1 .. n |-> Len(s) + i]
<1>1. Len(s) \in Nat
  BY LenProperties
<1>2. more \in Seq(Nat) /\ Len(more) = n
  BY <1>1
<1>3. \A i \in 1 .. n : more[i] = Len(s) + i
  OBVIOUS
<1>4. /\ s \o more \in Seq(Nat)
      /\ Len(s \o more) = Len(s) + n
      /\ \A i \in 1 .. Len(s) + n : (s \o more)[i] = IF i <= Len(s) THEN s[i] ELSE more[i - Len(s)]
  <2> HIDE DEF more
  <2> QED BY <1>2, ConcatProperties
<1>5. \A i \in 1 .. Len(s) + n : (s \o more)[i] = i
  <2> HIDE DEF more
  <2> QED BY <1>1, <1>3, <1>4
<1> QED
  BY <1>4, <1>5

----------------------------------------------------------------------------
LEMMA SerialInitInv == SerialInit => SerialInv
<1> SUFFICES ASSUME SerialInit PROVE SerialInv
  OBVIOUS
<1>0. /\ fd = FALSE /\ hungup = FALSE /\ rx = <<>> /\ tx = <<>> /\ at = "idle"
      /\ sent = 0 /\ passed = 0 /\ nbytes = 0 /\ timout = 0 /\ count = 0
      /\ total = 0 /\ ptr = 0 /\ budget = 0 /\ waited = 0
  BY DEF SerialInit
<1>a. fd \in BOOLEAN /\ hungup \in BOOLEAN
  BY <1>0, Zenon
<1>b. rx \in Seq(Nat) /\ tx \in Seq(Nat)
  BY <1>0, NoBytes, Zenon
<1>1. STypes
  BY <1>0, <1>a, <1>b DEF STypes
<1>2. ~Reading /\ at # "write"
  BY <1>0 DEF Reading
<1>3. Filling /\ Clock /\ Writing
  BY <1>0, <1>2, Zenon DEF Filling, Clock, Writing
<1>4. StreamKept
  BY <1>0, <1>2, NoBytes DEF StreamKept
<1> QED
  BY <1>1, <1>3, <1>4 DEF SerialInv

\* Steps that change neither the call in progress nor what it works on.
LEMMA Elsewhere ==
    ASSUME SerialInv, UNCHANGED <<device, at, args, tx>>, fd' \in BOOLEAN
    PROVE  SerialInv'
  BY DEF SerialInv, STypes, Filling, Clock, Writing, StreamKept, Reading, device, args

\* Between calls, the port is opened, set up or closed: the driver's bytes go.
LEMMA Flushes ==
    ASSUME SerialInv, at = "idle", at' = "idle", rx' = <<>>, passed' = sent,
           UNCHANGED <<sent, hungup, args, tx>>, fd' \in BOOLEAN
    PROVE  SerialInv'
<1> USE DEF args
<1>1. STypes'
  BY NoBytes DEF SerialInv, STypes
<1>2. ~Reading' /\ at' # "write"
  BY DEF Reading
<1>3. StreamKept'
  BY <1>2, NoBytes DEF SerialInv, STypes, StreamKept
<1> QED
  BY <1>1, <1>2, <1>3 DEF SerialInv, Filling, Clock, Writing

LEMMA DeviceKeepsSerial == ASSUME SerialInv, DeviceSends \/ HangUp PROVE SerialInv'
<1>1. CASE HangUp
  BY <1>1 DEF HangUp, SerialInv, STypes, Filling, Clock, Writing, StreamKept, Reading, port, args
<1>2. CASE DeviceSends
  <2> USE <1>2 DEF DeviceSends, args
  <2>1. sent + 1 \in Nat /\ rx \in Seq(Nat) /\ Len(rx) \in Nat
    BY LenProperties DEF SerialInv, STypes
  <2>2. STypes'
    BY <2>1, Sent DEF SerialInv, STypes, port
  <2>3. (Reading' <=> Reading) /\ Filling' /\ Clock' /\ Writing'
    BY DEF SerialInv, Filling, Clock, Writing, Reading
  <2>4. /\ Len(rx') = Len(rx) + 1
        /\ \A i \in 1 .. Len(rx) : rx'[i] = rx[i]
        /\ rx'[Len(rx) + 1] = sent + 1
    BY <2>1, Sent
  <2>5. StreamKept'
    <3> DEFINE got == IF Reading THEN count ELSE 0
    <3>1. got \in Nat /\ got' = got /\ passed \in Nat
      BY <2>3 DEF SerialInv, STypes
    <3>2. /\ sent = passed + got + Len(rx)
          /\ \A i \in 1 .. got : buf[i] = passed + i
          /\ \A i \in 1 .. Len(rx) : rx[i] = passed + got + i
      BY DEF SerialInv, StreamKept
    <3> HIDE DEF got
    <3>3. \A i \in 1 .. Len(rx') : rx'[i] = passed + got + i
      BY <2>1, <2>4, <3>1, <3>2
    <3>4. sent' = passed + got + Len(rx')
      BY <2>1, <2>4, <3>1, <3>2
    <3> QED
      BY <3>1, <3>2, <3>3, <3>4 DEF StreamKept, got
  <2> QED
    BY <2>2, <2>3, <2>5 DEF SerialInv
<1> QED
  BY <1>1, <1>2

LEMMA ReadCallKeepsSerial ==
    ASSUME SerialInv, NEW n \in Sizes, NEW t \in Timouts, ReadCall(n, t) PROVE SerialInv'
<1> USE DEF Call, device, port, ReadCall
<1>0. n \in Nat /\ t \in Int /\ Len(rx) \in Nat
  BY LenProperties DEF SerialInv, STypes
<1>1. STypes'
  BY <1>0 DEF SerialInv, STypes
<1>2. Filling' /\ Clock' /\ Writing'
  BY <1>0 DEF Filling, Clock, Writing, Reading
<1>3. StreamKept'
  BY <1>0 DEF SerialInv, STypes, StreamKept, Reading
<1> QED
  BY <1>1, <1>2, <1>3 DEF SerialInv

LEMMA WriteCallKeepsSerial ==
    ASSUME SerialInv, NEW n \in Sizes, NEW length \in Sizes, WriteCall(n, length) PROVE SerialInv'
<1> USE DEF Call, device, port, WriteCall
<1>0. n \in Nat /\ length \in Nat /\ Len(rx) \in Nat
  BY LenProperties DEF SerialInv, STypes
<1>1. STypes'
  BY <1>0, NoBytes DEF SerialInv, STypes
<1>2. Filling' /\ Clock' /\ Writing'
  BY <1>0, NoBytes DEF Filling, Clock, Writing, Reading
<1>3. StreamKept'
  BY <1>0 DEF SerialInv, STypes, StreamKept, Reading
<1> QED
  BY <1>1, <1>2, <1>3 DEF SerialInv

\* A read comes back: what it has read has been given back.
LEMMA ReturnKeepsSerial ==
    ASSUME SerialInv, Reading, at' = "idle", GivesBack,
           UNCHANGED <<rx, sent, hungup, nbytes, count, total, ptr, buf, budget, waited, tx>>,
           timout' \in Int, fd' = fd
    PROVE  SerialInv'
<1> USE DEF GivesBack
<1>1. STypes'
  BY DEF SerialInv, STypes
<1>2. ~Reading' /\ at' # "write"
  BY DEF Reading
<1>3. Len(rx) \in Nat
  BY LenProperties DEF SerialInv, STypes
<1>4. StreamKept'
  BY <1>2, <1>3 DEF SerialInv, STypes, StreamKept
<1> QED
  BY <1>1, <1>2, <1>4 DEF SerialInv, Filling, Clock, Writing

\* A round in which nothing comes takes a second of the timeout.
LEMMA TimesOutKeepsSerial == ASSUME SerialInv, SelectTimesOut PROVE SerialInv'
<1> USE DEF SelectTimesOut, port, device
<1>1. STypes'
  BY DEF SerialInv, STypes
<1>2. Reading /\ Reading' /\ at' # "write"
  BY DEF Reading
<1>3. Filling' /\ StreamKept'
  BY <1>2 DEF SerialInv, Filling, StreamKept
<1>4. Clock'
  BY DEF SerialInv, STypes, Clock
<1> QED
  BY <1>1, <1>2, <1>3, <1>4 DEF SerialInv, Writing

LEMMA NextRoundKeepsSerial == ASSUME SerialInv, NextRound PROVE SerialInv'
<1> USE DEF NextRound, port
<1>1. CASE timout - 1 > 0
  <2> USE <1>1
  <2>0. timout' = timout - 1 /\ timout' > 0 /\ at' = "select" /\ passed' = passed
    BY DEF SerialInv, STypes, Finish
  <2>1. STypes'
    BY <2>0 DEF SerialInv, STypes
  <2>2. Reading /\ Reading' /\ at' # "write"
    BY <2>0 DEF Reading
  <2>3. Filling' /\ StreamKept'
    BY <2>0, <2>2 DEF SerialInv, Filling, StreamKept
  <2>4. Clock'
    BY <2>0 DEF SerialInv, STypes, Clock
  <2> QED
    BY <2>1, <2>2, <2>3, <2>4 DEF SerialInv, Writing
<1>2. CASE ~(timout - 1 > 0)
  <2>1. Reading /\ at' = "idle" /\ GivesBack /\ timout' \in Int
    BY <1>2 DEF Reading, Finish, SerialInv, STypes
  <2> QED
    BY <2>1, ReturnKeepsSerial
<1> QED
  BY <1>1, <1>2

\* What is stored behind what is there already leaves no gap.
LEMMA NoGap ==
    ASSUME NEW a \in Nat, NEW b \in Nat
    PROVE  (1 .. a) \cup (a + 1 .. a + b) = 1 .. a + b
  OBVIOUS

(***************************************************************************)
(* read takes n bytes off the driver and stores them behind those that are *)
(* there already.                                                          *)
(***************************************************************************)
LEMMA ReadableKeepsSerial == ASSUME SerialInv, SelectReadable PROVE SerialInv'
<1> USE DEF SelectReadable, port
<1>0. Reading /\ Reading' /\ at' = "visit"
  BY DEF Reading
<1>1. /\ rx \in Seq(Nat) /\ Len(rx) \in Nat /\ count \in Nat /\ total \in Nat /\ nbytes \in Nat
      /\ ptr = count /\ DOMAIN buf = 1 .. count /\ count + total = nbytes
      /\ passed \in Nat /\ sent \in Nat
  BY <1>0, LenProperties DEF SerialInv, STypes, Filling
<1>2. PICK n \in 0 .. Len(rx) :
        /\ n <= total
        /\ buf' = Stored(SubSeq(rx, 1, n))
        /\ rx' = SubSeq(rx, n + 1, Len(rx))
        /\ count' = count + n /\ ptr' = ptr + n /\ total' = total - n
  OBVIOUS
<1> DEFINE some == SubSeq(rx, 1, n)
<1>3. /\ Len(some) = n
      /\ \A i \in 1 .. n : some[i] = rx[i]
      /\ rx' \in Seq(Nat) /\ Len(rx') = Len(rx) - n
      /\ \A i \in 1 .. Len(rx) - n : rx'[i] = rx[n + i]
  BY <1>1, <1>2, Taken
<1> HIDE DEF some
<1>4. buf' = Stored(some)
  BY <1>2 DEF some
<1>5. DOMAIN buf' = 1 .. count + n
  <2>1. DOMAIN buf' = DOMAIN buf \cup (ptr + 1 .. ptr + Len(some))
    BY <1>4 DEF Stored
  <2>2. DOMAIN buf' = (1 .. count) \cup (count + 1 .. count + n)
    BY <2>1, <1>1, <1>3
  <2>3. n \in Nat
    BY <1>1, <1>2
  <2> QED
    BY <2>2, <2>3, <1>1, NoGap
<1>6. \A i \in 1 .. count : buf'[i] = buf[i]
  BY <1>1, <1>2, <1>3, <1>4 DEF Stored
<1>7. \A i \in count + 1 .. count + n : buf'[i] = rx[i - count]
  BY <1>1, <1>2, <1>3, <1>4 DEF Stored
<1>8. STypes'
  BY <1>0, <1>1, <1>2, <1>3 DEF SerialInv, STypes
<1>9. Filling'
  BY <1>1, <1>2, <1>5 DEF Filling
<1>10. Clock'
  BY <1>0 DEF SerialInv, STypes, Clock
<1>11. Writing'
  BY <1>0 DEF Writing
<1>12. StreamKept'
  <2>1. /\ sent = passed + count + Len(rx)
        /\ \A i \in 1 .. count : buf[i] = passed + i
        /\ \A i \in 1 .. Len(rx) : rx[i] = passed + count + i
    BY <1>0 DEF SerialInv, StreamKept
  <2>0. sent' = sent /\ passed' = passed
    OBVIOUS
  <2>2. sent' = passed' + count' + Len(rx')
    <3>1. Len(rx') = Len(rx) - n /\ count' = count + n /\ n \in Nat
      BY <1>1, <1>2, <1>3
    <3>2. sent = passed + count + Len(rx)
      BY <2>1
    <3>3. Len(rx) \in Nat /\ count \in Nat /\ passed \in Nat
      BY <1>1
    <3> HIDE DEF SelectReadable, port
    <3> QED
      BY ONLY <3>1, <3>2, <3>3, <2>0
  <2>3. \A i \in 1 .. count' : buf'[i] = passed' + i
    BY <1>1, <1>2, <1>6, <1>7, <2>1
  <2>4. \A i \in 1 .. Len(rx') : rx'[i] = passed' + count' + i
    BY <1>1, <1>2, <1>3, <2>1
  <2> QED
    BY <1>0, <2>2, <2>3, <2>4 DEF StreamKept
<1> QED
  BY <1>8, <1>9, <1>10, <1>11, <1>12 DEF SerialInv

LEMMA AcceptKeepsSerial == ASSUME SerialInv, Accept PROVE SerialInv'
<1> USE DEF Accept, port, device
<1>0. ~Reading /\ ~Reading' /\ at = "write" /\ at' = "write"
  BY DEF Reading
<1>1. /\ tx \in Seq(Nat) /\ Len(tx) = count /\ ptr = count /\ count + total <= nbytes
      /\ count \in Nat /\ total \in Nat /\ nbytes \in Nat
      /\ \A i \in 1 .. Len(tx) : tx[i] = i
  BY <1>0 DEF SerialInv, STypes, Writing
<1>2. PICK n \in 1 .. total :
        /\ tx' = tx \o [i \in 1 .. n |-> ptr + i]
        /\ count' = count + n /\ total' = total - n /\ ptr' = ptr + n
  OBVIOUS
<1>3. tx' = tx \o [i \in 1 .. n |-> Len(tx) + i] /\ n \in Nat
  BY <1>1, <1>2
<1>4. /\ tx' \in Seq(Nat) /\ Len(tx') = Len(tx) + n
      /\ \A i \in 1 .. Len(tx') : tx'[i] = i
  BY <1>1, <1>3, AcceptSendsNext
<1>5. STypes'
  BY <1>0, <1>1, <1>2, <1>4 DEF SerialInv, STypes
<1>6. Filling' /\ Clock'
  BY <1>0 DEF Filling, Clock
<1>7. Writing'
  BY <1>1, <1>2, <1>4 DEF Writing
<1>8. StreamKept'
  BY <1>0 DEF SerialInv, StreamKept
<1> QED
  BY <1>5, <1>6, <1>7, <1>8 DEF SerialInv

\* Steps that end a call other than a read, or refuse one.
LEMMA NothingRead ==
    ASSUME SerialInv, ~Reading, at' = "idle", UNCHANGED <<fd, device, args, tx>>
    PROVE  SerialInv'
<1> USE DEF device, args
<1>1. STypes'
  BY DEF SerialInv, STypes
<1>2. ~Reading' /\ at' # "write"
  BY DEF Reading
<1>3. StreamKept'
  BY <1>2 DEF SerialInv, StreamKept
<1> QED
  BY <1>1, <1>2, <1>3 DEF SerialInv, Filling, Clock, Writing

LEMMA SerialNextInv == SerialInv /\ [SerialNext]_serialVars => SerialInv'
<1> SUFFICES ASSUME SerialInv, [SerialNext]_serialVars PROVE SerialInv'
  OBVIOUS
<1>1. CASE SerialOpen \/ SerialClose
  <2>1. at = "idle" /\ at' = "idle" /\ rx' = <<>> /\ passed' = sent /\ fd' \in BOOLEAN
        /\ UNCHANGED <<sent, hungup, args, tx>>
    BY <1>1 DEF SerialOpen, SerialClose, rs232_opt_ex, Finish
  <2> QED
    BY <2>1, Flushes
<1>2. CASE SerialOpenFails
  BY <1>2, NothingRead DEF SerialOpenFails, Finish, Reading, port
<1>3. ASSUME NEW s \in Settings, vpk_serial_create(s) PROVE SerialInv'
  BY <1>3, Elsewhere DEF vpk_serial_create, SerialInv, STypes
<1>4. ASSUME NEW s \in Settings, OptSet(s) PROVE SerialInv'
  <2>1. at = "idle" /\ at' = "idle" /\ rx' = <<>> /\ passed' = sent /\ fd' = fd
        /\ UNCHANGED <<sent, hungup, args, tx>>
    BY <1>4 DEF OptSet, rs232_opt_ex, Finish
  <2> QED
    BY <2>1, Flushes DEF SerialInv, STypes
<1>5. ASSUME NEW s \in Settings, OptSetFails(s) PROVE SerialInv'
  <2>1. CASE UNCHANGED <<rx, passed>>
    BY <1>5, <2>1, NothingRead DEF OptSetFails, Finish, Reading, device
  <2>2. CASE rx' = <<>> /\ passed' = sent
    BY <1>5, <2>2, Flushes DEF OptSetFails, Finish, SerialInv, STypes
  <2> QED
    BY <1>5, <2>1, <2>2 DEF OptSetFails
<1>6. CASE DeviceSends \/ HangUp
  BY <1>6, DeviceKeepsSerial
<1>7. ASSUME NEW n \in Sizes, NEW t \in Timouts, ReadCall(n, t) PROVE SerialInv'
  BY <1>7, ReadCallKeepsSerial
<1>8. ASSUME NEW v \in {-1, 0}, CallRefused(v) PROVE SerialInv'
  BY <1>8, NothingRead DEF CallRefused, Finish, Reading, port
<1>9. CASE ReadFails \/ ReadComplete \/ VisitEnds
  <2>1. /\ Reading /\ at' = "idle" /\ GivesBack /\ fd' = fd /\ timout' \in Int
        /\ UNCHANGED <<rx, sent, hungup, nbytes, count, total, ptr, buf, budget, waited, tx>>
    BY <1>9 DEF ReadFails, ReadComplete, VisitEnds, Reading, Finish, port, args, SerialInv, STypes
  <2> QED
    BY <2>1, ReturnKeepsSerial
<1>10. CASE SelectTimesOut \/ SelectReadable \/ NextRound
  BY <1>10, TimesOutKeepsSerial, ReadableKeepsSerial, NextRoundKeepsSerial
<1>11. ASSUME NEW n \in Sizes, NEW length \in Sizes, WriteCall(n, length) PROVE SerialInv'
  BY <1>11, WriteCallKeepsSerial
<1>12. CASE Accept
  BY <1>12, AcceptKeepsSerial
<1>13. CASE WriteReturns
  BY <1>13, NothingRead DEF WriteReturns, Finish, Reading, port
<1>14. CASE UNCHANGED serialVars
  BY <1>14, Elsewhere DEF serialVars, port, SerialInv, STypes
<1> QED
  BY <1>1, <1>2, <1>3, <1>4, <1>5, <1>6, <1>7, <1>8, <1>9, <1>10, <1>11, <1>12, <1>13, <1>14
  DEF SerialNext, ReadStep

(***************************************************************************)
(* However the bytes come, a read stores them without a gap and within its *)
(* buffer, waits no longer than it was told to, and takes each byte once   *)
(* and in its turn; and what a write has handed over is the beginning of   *)
(* its buffer (the four properties of the run programs).                   *)
(***************************************************************************)
THEOREM SerialInvHolds == SerialSpec => []SerialInv
<1>1. SerialInit => SerialInv
  BY SerialInitInv
<1>2. SerialInv /\ [SerialNext]_serialVars => SerialInv'
  BY SerialNextInv
<1> QED
  BY <1>1, <1>2, PTL DEF SerialSpec

\* A read fills its buffer from the start and stores nothing behind its end.
THEOREM ReadStaysInBuffer == SerialSpec => []NoOverrun
<1>1. SerialInv => NoOverrun
  BY DEF SerialInv, Filling, NoOverrun
<1> QED
  BY <1>1, SerialInvHolds, PTL

\* Bytes are given back once and in the order they came.
THEOREM StreamIsKept == SerialSpec => []StreamKept
<1>1. SerialInv => StreamKept
  BY DEF SerialInv
<1> QED
  BY <1>1, SerialInvHolds, PTL

\* A read waits no longer than its timeout.
THEOREM ReadWaitsInTime == SerialSpec => []ReadInTime
<1>1. SerialInv => ReadInTime
  BY DEF SerialInv, STypes, Clock, ReadInTime, Reading
<1> QED
  BY <1>1, SerialInvHolds, PTL

\* What the device has accepted is the beginning of the buffer.
THEOREM WriteSendsPrefix == SerialSpec => []WritesPrefix
<1>1. SerialInv => WritesPrefix
  <2> SUFFICES ASSUME SerialInv, at = "write" PROVE tx = [i \in 1 .. count |-> i] /\ count <= nbytes
    BY DEF WritesPrefix
  <2>1. /\ tx \in Seq(Nat) /\ Len(tx) = count /\ count \in Nat /\ total \in Nat /\ nbytes \in Nat
        /\ count + total <= nbytes /\ \A i \in 1 .. Len(tx) : tx[i] = i
    BY DEF SerialInv, STypes, Writing
  <2>2. tx = [i \in 1 .. Len(tx) |-> tx[i]]
    BY <2>1
  <2> QED
    BY <2>1, <2>2
<1> QED
  BY <1>1, SerialInvHolds, PTL

----------------------------------------------------------------------------
(***************************************************************************)
(* For any clients, menu items and values: settings are lost only by a     *)
(* dump that is not completed or by two clients that dump at once, and     *)
(* what a set has stored stays.                                            *)
(***************************************************************************)

Stages == {"none", "ready", "load", "get", "set", "dump", "answer", "unsaved"}
Active(c) == stage[c] \notin {"none", "ready"}
Setting(c) == Active(c) /\ command[c].kind = "set"
Holds(m, i, v) == i \in DOMAIN m /\ m[i] = v

TypeInv ==
    /\ file \in Menus \cup {Missing, Empty}
    /\ stage \in [Clients -> Stages]
    /\ command \in [Clients -> Commands \cup {NULL}]
    /\ root \in [Clients -> Menus \cup {NULL}]
    /\ settled \in [MenuItems -> MenuValues \cup {NULL}]
    /\ crowded \in SUBSET Clients
    /\ wrecked \in BOOLEAN

\* Where a client is goes with its command and with what it has loaded.
StageInv == \A c \in Clients :
    /\ stage[c] # "none" => command[c] \in Commands
    /\ Active(c) => Menu(command[c])
    /\ stage[c] \in {"set", "dump", "answer", "unsaved"} => command[c].kind = "set"
    /\ stage[c] \in {"dump", "answer"} =>
        root[c] \in Menus /\ Holds(root[c], command[c].item, command[c].value)

\* Clients that set at the same time are crowded.
CrowdInv == \A c, d \in Clients :
    c # d /\ Setting(c) /\ Setting(d) => c \in crowded

\* One client writes at a time, and then the file is empty.
DumpInv == ~wrecked => \A c \in Clients : stage[c] = "dump" =>
    file = Empty /\ \A d \in Clients : stage[d] = "dump" => d = c

\* What was made of an item is forgotten while it is set again.
UnsetInv == \A c \in Clients : Setting(c) => settled[command[c].item] = NULL

\* Whoever is going to write the settings has those that were made.
CarriedInv == ~wrecked => \A c \in Clients, i \in MenuItems :
    settled[i] # NULL /\ stage[c] \in {"set", "dump"} /\ root[c] # NULL
        => Holds(root[c], i, settled[i])

\* A client that sets alone works on the settings as they are.
AloneInv == ~wrecked => \A c \in Clients \ crowded :
    /\ stage[c] = "set" /\ root[c] # NULL =>
        file = root[c] \/ (file = Missing /\ DOMAIN root[c] = {})
    /\ stage[c] = "answer" => file = root[c]

ControlInv ==
    /\ TypeInv /\ StageInv /\ CrowdInv /\ DumpInv /\ UnsetInv
    /\ CarriedInv /\ AloneInv /\ SettingsThere /\ SetIsStored

USE DeviceControlAssumption

----------------------------------------------------------------------------
(* Settings and commands                                                   *)

\* A complete settings file, by what it is a function on.
LEMMA MenusAre ==
    /\ \A m \in Menus : DOMAIN m \in SUBSET MenuItems
    /\ \A m \in Menus : \A i \in DOMAIN m : m[i] \in MenuValues
    /\ \A S \in SUBSET MenuItems : \A m \in [S -> MenuValues] : m \in Menus
    /\ [i \in {} |-> 0] \in Menus /\ DOMAIN [i \in {} |-> 0] = {}
<1>1. \A S \in SUBSET MenuItems : \A m \in [S -> MenuValues] : m \in Menus
  BY DEF Menus
<1>2. [i \in {} |-> 0] \in [{} -> MenuValues] /\ {} \in SUBSET MenuItems
  OBVIOUS
<1>3. \A m \in Menus : \E S \in SUBSET MenuItems : m \in [S -> MenuValues]
  BY DEF Menus
<1>4. \A m \in Menus : DOMAIN m \in SUBSET MenuItems /\ \A i \in DOMAIN m : m[i] \in MenuValues
  BY <1>3
<1>5. [i \in {} |-> 0] \in Menus
  BY <1>1, <1>2
<1> QED
  BY <1>1, <1>4, <1>5

\* Setting an item keeps the others.
Updated(m, item, v) == [i \in DOMAIN m \cup {item} |-> IF i = item THEN v ELSE m[i]]

LEMMA Update ==
    ASSUME NEW m \in Menus, NEW item \in MenuItems, NEW v \in MenuValues
    PROVE  /\ Updated(m, item, v) \in Menus
           /\ Holds(Updated(m, item, v), item, v)
           /\ \A i, w : i # item /\ Holds(m, i, w) => Holds(Updated(m, item, v), i, w)
<1>1. DOMAIN m \cup {item} \in SUBSET MenuItems
  BY MenusAre
<1>2. Updated(m, item, v) \in [DOMAIN m \cup {item} -> MenuValues]
  BY MenusAre DEF Updated
<1>3. Updated(m, item, v) \in Menus
  BY <1>1, <1>2, MenusAre
<1> QED
  BY <1>3 DEF Holds, Updated

LEMMA MenuCommand ==
    ASSUME NEW cmd \in Commands, Menu(cmd)
    PROVE  /\ cmd.item \in MenuItems
           /\ cmd.kind = "set" => cmd.value \in MenuValues
BY DEF Commands, Menu

----------------------------------------------------------------------------
(* The steps                                                               *)

LEMMA ControlInitInv == ControlInit => ControlInv
<1> SUFFICES ASSUME ControlInit PROVE ControlInv
  OBVIOUS
<1>1. TypeInv
  BY DEF ControlInit, TypeInv, Stages
<1>2. StageInv /\ CrowdInv /\ DumpInv /\ UnsetInv
  BY DEF ControlInit, StageInv, CrowdInv, DumpInv, UnsetInv, Active, Setting
<1>3. CarriedInv /\ AloneInv /\ SettingsThere /\ SetIsStored
  BY DEF ControlInit, CarriedInv, AloneInv, SettingsThere, SetIsStored
<1> QED
  BY <1>1, <1>2, <1>3 DEF ControlInv

\* An action object takes part in nothing yet.
LEMMA CreateKeeps ==
    ASSUME ControlInv, NEW c \in Clients, NEW cmd \in Commands, vpk_action_create(c, cmd)
    PROVE  ControlInv'
<1> USE DEF ControlInv, Active, Setting, Enter, vpk_action_create, ghosts
<1>1. TypeInv'
  BY DEF TypeInv, Stages
<1>2. StageInv'
  BY DEF TypeInv, StageInv
<1>3. CrowdInv'
  BY DEF TypeInv, StageInv, CrowdInv
<1>4. DumpInv'
  BY DEF TypeInv, DumpInv
<1>5. UnsetInv'
  BY DEF TypeInv, StageInv, UnsetInv
<1>6. CarriedInv'
  BY DEF TypeInv, CarriedInv
<1>7. AloneInv'
  BY DEF TypeInv, AloneInv
<1>8. SettingsThere'
  BY DEF TypeInv, SettingsThere
<1>9. SetIsStored'
  BY DEF TypeInv, SetIsStored
<1> QED
  BY <1>1, <1>2, <1>3, <1>4, <1>5, <1>6, <1>7, <1>8, <1>9

\* A command given to an idle object disturbs nobody.
LEMMA ParamSetKeeps ==
    ASSUME ControlInv, NEW c \in Clients, ParamRefused(c) \/ \E cmd \in Commands : vpk_action_param_set(c, cmd)
    PROVE  ControlInv'
<1> USE DEF ControlInv, Active, Setting, Enter, vpk_action_param_set, ParamRefused, ghosts
<1>1. TypeInv'
  BY DEF TypeInv
<1>2. StageInv'
  BY DEF TypeInv, StageInv
<1>3. CrowdInv'
  BY DEF TypeInv, StageInv, CrowdInv
<1>4. DumpInv'
  BY DEF TypeInv, DumpInv
<1>5. UnsetInv'
  BY DEF TypeInv, StageInv, UnsetInv
<1>6. CarriedInv'
  BY DEF TypeInv, CarriedInv
<1>7. AloneInv'
  BY DEF TypeInv, AloneInv
<1>8. SettingsThere'
  BY DEF TypeInv, SettingsThere
<1>9. SetIsStored'
  BY DEF TypeInv, SetIsStored
<1> QED
  BY <1>1, <1>2, <1>3, <1>4, <1>5, <1>6, <1>7, <1>8, <1>9

\* Nor does one that is destroyed, or whose client crashes without a file to copy.
LEMMA DestroyKeeps ==
    ASSUME ControlInv, NEW c \in Clients, vpk_action_destroy(c) \/ NoInfo(c)
    PROVE  ControlInv'
<1> USE DEF ControlInv, Active, Setting, Enter, vpk_action_destroy, NoInfo, Reset, ghosts
<1>1. TypeInv'
  BY DEF TypeInv, Stages
<1>2. StageInv'
  BY DEF TypeInv, StageInv
<1>3. CrowdInv'
  BY DEF TypeInv, StageInv, CrowdInv
<1>4. DumpInv'
  BY DEF TypeInv, DumpInv
<1>5. UnsetInv'
  BY DEF TypeInv, StageInv, UnsetInv
<1>6. CarriedInv'
  BY DEF TypeInv, CarriedInv
<1>7. AloneInv'
  BY DEF TypeInv, AloneInv
<1>8. SettingsThere'
  BY DEF TypeInv, SettingsThere
<1>9. SetIsStored'
  BY DEF TypeInv, SetIsStored
<1> QED
  BY <1>1, <1>2, <1>3, <1>4, <1>5, <1>6, <1>7, <1>8, <1>9

\* A client that dies while it writes wrecks the settings, else it just leaves.
LEMMA DeathKeeps ==
    ASSUME ControlInv, NEW c \in Clients, ClientDies(c)
    PROVE  ControlInv'
<1> USE DEF ControlInv, Active, Setting, Enter, ClientDies, Reset, Free
<1>1. TypeInv'
  BY DEF TypeInv, Stages
<1>2. StageInv'
  BY DEF TypeInv, StageInv
<1>3. CrowdInv'
  BY DEF TypeInv, StageInv, CrowdInv
<1>4. DumpInv'
  BY DEF TypeInv, DumpInv
<1>5. UnsetInv'
  BY DEF TypeInv, StageInv, UnsetInv
<1>6. CarriedInv'
  BY DEF TypeInv, CarriedInv
<1>7. AloneInv'
  BY DEF TypeInv, AloneInv
<1>8. SettingsThere'
  BY DEF TypeInv, SettingsThere
<1>9. SetIsStored'
  BY DEF TypeInv, SetIsStored
<1> QED
  BY <1>1, <1>2, <1>3, <1>4, <1>5, <1>6, <1>7, <1>8, <1>9

\* A command that the PC answers without the settings.
LEMMA ExecKeeps ==
    ASSUME ControlInv, NEW c \in Clients, Exec(c)
    PROVE  ControlInv'
<1> USE DEF ControlInv, Active, Setting, Enter, Exec, Return, ghosts
<1>1. TypeInv'
  BY DEF TypeInv
<1>2. StageInv'
  BY DEF TypeInv, StageInv
<1>3. CrowdInv'
  BY DEF TypeInv, StageInv, CrowdInv
<1>4. DumpInv'
  BY DEF TypeInv, DumpInv
<1>5. UnsetInv'
  BY DEF TypeInv, StageInv, UnsetInv
<1>6. CarriedInv'
  BY DEF TypeInv, CarriedInv
<1>7. AloneInv'
  BY DEF TypeInv, AloneInv
<1>8. SettingsThere'
  BY DEF TypeInv, SettingsThere
<1>9. SetIsStored'
  BY DEF TypeInv, SetIsStored
<1> QED
  BY <1>1, <1>2, <1>3, <1>4, <1>5, <1>6, <1>7, <1>8, <1>9

\* A read leaves the settings as they are.
LEMMA AnswerGetKeeps ==
    ASSUME ControlInv, NEW c \in Clients, AnswerGet(c)
    PROVE  ControlInv'
<1> USE DEF ControlInv, Active, Setting, Enter, AnswerGet, Return, Free, ghosts
<1>1. TypeInv'
  BY DEF TypeInv, Stages
<1>2. StageInv'
  BY DEF TypeInv, StageInv
<1>3. CrowdInv'
  BY DEF TypeInv, StageInv, CrowdInv
<1>4. DumpInv'
  BY DEF TypeInv, DumpInv
<1>5. UnsetInv'
  BY DEF TypeInv, StageInv, UnsetInv
<1>6. CarriedInv'
  BY DEF TypeInv, CarriedInv
<1>7. AloneInv'
  BY DEF TypeInv, AloneInv
<1>8. SettingsThere'
  BY DEF TypeInv, SettingsThere
<1>9. SetIsStored'
  BY DEF TypeInv, SetIsStored
<1> QED
  BY <1>1, <1>2, <1>3, <1>4, <1>5, <1>6, <1>7, <1>8, <1>9

\* Whoever begins to set while others do crowds them and itself.
LEMMA ExecMenuKeeps ==
    ASSUME ControlInv, NEW c \in Clients, ExecMenu(c)
    PROVE  ControlInv'
<1> USE DEF ControlInv, Active, Setting, Enter, ExecMenu, ghosts
<1>c. command[c] \in Commands /\ Menu(command[c])
  BY DEF StageInv, ExecMenu
<1>k. command[c].kind = "set" <=> command[c].kind # "get"
  BY <1>c DEF Menu
<1>i. command[c].item \in MenuItems
  BY <1>c, MenuCommand
<1>e. /\ settled' \in [MenuItems -> MenuValues \cup {NULL}]
      /\ \A i \in MenuItems : settled'[i] \in {settled[i], NULL}
      /\ command[c].kind = "set" => settled'[command[c].item] = NULL
  BY <1>i, <1>k DEF TypeInv
<1>t. crowded' \in SUBSET Clients /\ stage' \in [Clients -> Stages]
  BY DEF TypeInv, Stages, Others
<1>m. \A d \in Clients : Setting(d)' => command[d].item \in MenuItems
  BY <1>i, MenuCommand DEF StageInv, TypeInv
<1>1. TypeInv'
  BY <1>e, <1>t DEF TypeInv
<1>2. StageInv'
  BY <1>c DEF TypeInv, StageInv
<1>3. CrowdInv'
  BY <1>k DEF TypeInv, CrowdInv, Others
<1>4. DumpInv'
  BY DEF TypeInv, DumpInv
<1>5. UnsetInv'
  BY <1>e, <1>m DEF TypeInv, UnsetInv
<1>6. CarriedInv'
  BY <1>i DEF TypeInv, CarriedInv
<1>7. AloneInv'
  BY <1>k DEF TypeInv, AloneInv, Others
<1>8. SettingsThere'
  BY DEF TypeInv, SettingsThere
<1>9. SetIsStored'
  BY <1>i DEF TypeInv, SetIsStored
<1> QED
  BY <1>1, <1>2, <1>3, <1>4, <1>5, <1>6, <1>7, <1>8, <1>9

\* What a setter loads are the settings, unless another writes them.
LEMMA LoadKeeps ==
    ASSUME ControlInv, NEW c \in Clients, Load(c)
    PROVE  ControlInv'
<1> USE DEF ControlInv, Active, Setting, Enter, Load, ghosts
<1>k. command[c].kind \in {"get", "set"} /\ command[c] \in Commands
  BY DEF StageInv, Menu, Load
<1>r. \/ root'[c] = NULL
      \/ file = Missing /\ root'[c] = [i \in {} |-> 0]
      \/ file \in Menus /\ root'[c] = file
  BY DEF TypeInv, Load
<1>s. \A d \in Clients \ {c} : root'[d] = root[d] /\ stage'[d] = stage[d]
  BY DEF TypeInv, Load
<1>m. [i \in {} |-> 0] \in Menus /\ DOMAIN [i \in {} |-> 0] = {}
  BY MenusAre
<1>t. stage' \in [Clients -> Stages] /\ stage'[c] = command[c].kind
  BY <1>k DEF TypeInv, Stages, Load
<1>1. TypeInv'
  BY <1>k, <1>r, <1>m, <1>t DEF TypeInv
<1>2. StageInv'
  BY <1>k, <1>s, <1>t DEF TypeInv, StageInv, Menu, Load
<1>3. CrowdInv'
  BY <1>k, <1>s, <1>t DEF TypeInv, CrowdInv
<1>4. DumpInv'
  BY <1>k, <1>s, <1>t DEF TypeInv, DumpInv
<1>5. UnsetInv'
  BY <1>k, <1>s, <1>t DEF TypeInv, UnsetInv
<1>6. CarriedInv'
  BY <1>k, <1>s, <1>t, <1>r DEF TypeInv, CarriedInv, SetIsStored, Holds
<1>7. AloneInv'
  BY <1>k, <1>s, <1>t, <1>r, <1>m DEF TypeInv, AloneInv
<1>8. SettingsThere'
  BY <1>k, <1>s, <1>t DEF TypeInv, SettingsThere
<1>9. SetIsStored'
  BY DEF TypeInv, SetIsStored
<1> QED
  BY <1>1, <1>2, <1>3, <1>4, <1>5, <1>6, <1>7, <1>8, <1>9

\* Who opens the settings to write them, while no other does, is the one that has them.
LEMMA OpenToDumpKeeps ==
    ASSUME ControlInv, NEW c \in Clients, OpenToDump(c)
    PROVE  ControlInv'
<1> USE DEF ControlInv, Active, Setting, Enter, OpenToDump
<1>c. command[c] \in Commands /\ command[c].kind = "set" /\ Menu(command[c])
  BY DEF StageInv, Menu
<1>i. command[c].item \in MenuItems /\ command[c].value \in MenuValues
  BY <1>c, MenuCommand
<1>m. root[c] \in Menus
  BY DEF TypeInv, Unchanged
<1>u. /\ root'[c] \in Menus
      /\ Holds(root'[c], command[c].item, command[c].value)
      /\ \A i, w : i # command[c].item /\ Holds(root[c], i, w) => Holds(root'[c], i, w)
  <2>1. root'[c] = Updated(root[c], command[c].item, command[c].value)
    BY DEF TypeInv, Updated, WithValue
  <2> QED
    BY <2>1, <1>i, <1>m, Update
<1>s. /\ \A d \in Clients \ {c} : root'[d] = root[d] /\ stage'[d] = stage[d]
      /\ stage'[c] = "dump"
  BY DEF TypeInv
<1>t. root' \in [Clients -> Menus \cup {NULL}] /\ stage' \in [Clients -> Stages]
  <2>1. root' = [root EXCEPT ![c] = root'[c]]
    BY DEF TypeInv
  <2> QED
    BY <2>1, <1>u DEF TypeInv, Stages
<1> USE <1>s
<1>1. TypeInv'
  BY <1>t DEF TypeInv, Others
<1>2. StageInv'
  BY <1>c, <1>u, <1>t DEF TypeInv, StageInv
<1>3. CrowdInv'
  BY DEF TypeInv, StageInv, CrowdInv
<1>4. DumpInv'
  BY <1>c DEF TypeInv, DumpInv, Others, StageInv
<1>5. UnsetInv'
  BY DEF TypeInv, StageInv, UnsetInv
<1>6. CarriedInv'
  BY <1>u, <1>c, <1>m DEF TypeInv, CarriedInv, UnsetInv
<1>7. AloneInv'
  BY <1>c DEF TypeInv, AloneInv, CrowdInv, StageInv
<1>8. SettingsThere'
  BY DEF TypeInv, SettingsThere
<1>9. SetIsStored'
  BY DEF TypeInv, SetIsStored
<1> QED
  BY <1>1, <1>2, <1>3, <1>4, <1>5, <1>6, <1>7, <1>8, <1>9

\* Who cannot open the settings leaves them as they are.
LEMMA OpenFailsKeeps ==
    ASSUME ControlInv, NEW c \in Clients, OpenFails(c)
    PROVE  ControlInv'
<1> USE DEF ControlInv, Active, Setting, Enter, OpenFails, ghosts
<1>c. command[c] \in Commands /\ command[c].kind = "set" /\ Menu(command[c])
  BY DEF StageInv, Menu
<1>i. command[c].item \in MenuItems /\ command[c].value \in MenuValues /\ root[c] \in Menus
  BY <1>c, MenuCommand DEF TypeInv, Unchanged
<1>u. WithValue(c) \in Menus
  <2>1. WithValue(c) = Updated(root[c], command[c].item, command[c].value)
    BY DEF WithValue, Updated
  <2> QED
    BY <1>i, <2>1, Update
<1>t. root' \in [Clients -> Menus \cup {NULL}] /\ stage' \in [Clients -> Stages]
  BY <1>u DEF TypeInv, Stages
<1>s. /\ \A d \in Clients \ {c} : root'[d] = root[d] /\ stage'[d] = stage[d]
      /\ stage'[c] = "unsaved"
  BY DEF TypeInv
<1> USE <1>s
<1>1. TypeInv'
  BY <1>t DEF TypeInv
<1>2. StageInv'
  BY DEF TypeInv, StageInv
<1>3. CrowdInv'
  BY DEF TypeInv, StageInv, CrowdInv
<1>4. DumpInv'
  BY DEF TypeInv, DumpInv
<1>5. UnsetInv'
  BY DEF TypeInv, StageInv, UnsetInv
<1>6. CarriedInv'
  BY DEF TypeInv, CarriedInv
<1>7. AloneInv'
  BY DEF TypeInv, AloneInv
<1>8. SettingsThere'
  BY DEF TypeInv, SettingsThere
<1>9. SetIsStored'
  BY DEF TypeInv, SetIsStored
<1> QED
  BY <1>1, <1>2, <1>3, <1>4, <1>5, <1>6, <1>7, <1>8, <1>9

\* A dump that is not completed wrecks the settings.
LEMMA DumpFailsKeeps ==
    ASSUME ControlInv, NEW c \in Clients, DumpFails(c)
    PROVE  ControlInv'
<1> USE DEF ControlInv, Active, Setting, Enter, DumpFails
<1>t. stage' \in [Clients -> Stages]
  BY DEF TypeInv, Stages
<1>s. /\ \A d \in Clients \ {c} : stage'[d] = stage[d]
      /\ stage'[c] = "unsaved"
  BY DEF TypeInv
<1> USE <1>s
<1>1. TypeInv'
  BY <1>t DEF TypeInv
<1>2. StageInv'
  BY DEF TypeInv, StageInv
<1>3. CrowdInv'
  BY DEF TypeInv, StageInv, CrowdInv
<1>4. DumpInv'
  BY DEF TypeInv, DumpInv
<1>5. UnsetInv'
  BY DEF TypeInv, StageInv, UnsetInv
<1>6. CarriedInv'
  BY DEF TypeInv, CarriedInv
<1>7. AloneInv'
  BY DEF TypeInv, AloneInv
<1>8. SettingsThere'
  BY DEF TypeInv, SettingsThere
<1>9. SetIsStored'
  BY DEF TypeInv, SetIsStored
<1> QED
  BY <1>1, <1>2, <1>3, <1>4, <1>5, <1>6, <1>7, <1>8, <1>9

\* What is written is what the writer has, if nobody else has written.
LEMMA DumpKeeps ==
    ASSUME ControlInv, NEW c \in Clients, Dump(c)
    PROVE  ControlInv'
<1> USE DEF ControlInv, Active, Setting, Enter, Dump, ghosts
<1>c. command[c].kind = "set" /\ root[c] \in Menus
  BY DEF StageInv
<1>f. /\ file' \in Menus \cup {Empty}
      /\ ~wrecked => file' = root[c]
  BY <1>c DEF TypeInv, DumpInv
<1>s. /\ \A d \in Clients \ {c} : stage'[d] = stage[d]
      /\ stage'[c] = "answer"
  BY DEF TypeInv
<1> USE <1>s
<1>1. TypeInv'
  BY <1>f DEF TypeInv, Stages
<1>2. StageInv'
  BY DEF TypeInv, StageInv
<1>3. CrowdInv'
  BY DEF TypeInv, StageInv, CrowdInv
<1>4. DumpInv'
  BY DEF TypeInv, DumpInv
<1>5. UnsetInv'
  BY DEF TypeInv, StageInv, UnsetInv
<1>6. CarriedInv'
  BY DEF TypeInv, CarriedInv
<1>7. AloneInv'
  BY <1>c, <1>f DEF TypeInv, AloneInv, CrowdInv, StageInv
<1>8. SettingsThere'
  BY <1>f, <1>c DEF SettingsThere
<1>9. SetIsStored'
  BY <1>f, <1>c DEF TypeInv, SetIsStored, CarriedInv, Holds
<1> QED
  BY <1>1, <1>2, <1>3, <1>4, <1>5, <1>6, <1>7, <1>8, <1>9

\* A setter that was alone and has stored its value comes back when the settings hold it.
LEMMA AnswerSetKeeps ==
    ASSUME ControlInv, NEW c \in Clients, AnswerSet(c)
    PROVE  ControlInv'
<1> USE DEF ControlInv, Active, Setting, Enter, AnswerSet, Return, Free
<1>c. command[c] \in Commands /\ command[c].kind = "set" /\ Menu(command[c])
  BY DEF StageInv, Menu
<1>i. command[c].item \in MenuItems /\ command[c].value \in MenuValues
  BY <1>c, MenuCommand
<1>s. /\ \A d \in Clients \ {c} : stage'[d] = stage[d] /\ root'[d] = root[d]
      /\ stage'[c] = "ready" /\ root'[c] = NULL
  BY DEF TypeInv
<1>e. \A i \in MenuItems : settled'[i] # settled[i] =>
        /\ IsSaved(c) /\ c \notin crowded
        /\ i = command[c].item /\ settled'[i] = command[c].value
  BY DEF TypeInv, IsSaved
<1>o. c \notin crowded => \A d \in Clients \ {c} : ~Setting(d)
  BY <1>c DEF CrowdInv
<1>v. ~wrecked /\ IsSaved(c) => file \in Menus /\ Holds(file, command[c].item, command[c].value)
  <2> SUFFICES ASSUME ~wrecked, IsSaved(c), c \notin crowded
               PROVE  file \in Menus /\ Holds(file, command[c].item, command[c].value)
    BY DEF IsSaved
  <2>1. CASE stage[c] = "answer"
    BY <2>1 DEF AloneInv, StageInv
  <2>2. CASE stage[c] = "set" /\ Unchanged(c)
    <3>1. root[c] # NULL /\ (file = root[c] \/ (file = Missing /\ DOMAIN root[c] = {}))
      BY <2>2 DEF AloneInv, IsSaved
    <3>2. Holds(root[c], command[c].item, command[c].value)
      BY <1>i, <2>2, <3>1 DEF Unchanged, Value, Holds
    <3> QED
      BY <3>1, <3>2 DEF Holds, TypeInv
  <2> QED
    BY <2>1, <2>2 DEF IsSaved
<1> USE <1>s
<1>1. TypeInv'
  BY <1>i DEF TypeInv, Stages
<1>2. StageInv'
  BY DEF TypeInv, StageInv
<1>3. CrowdInv'
  BY DEF TypeInv, StageInv, CrowdInv
<1>4. DumpInv'
  BY DEF TypeInv, DumpInv
<1>5. UnsetInv'
  BY <1>e, <1>o DEF TypeInv, StageInv, UnsetInv
<1>6. CarriedInv'
  BY <1>e, <1>o DEF TypeInv, CarriedInv, StageInv
<1>7. AloneInv'
  BY DEF TypeInv, AloneInv
<1>8. SettingsThere'
  BY DEF TypeInv, SettingsThere
<1>9. SetIsStored'
  BY <1>e, <1>v DEF TypeInv, SetIsStored, Holds
<1> QED
  BY <1>1, <1>2, <1>3, <1>4, <1>5, <1>6, <1>7, <1>8, <1>9

----------------------------------------------------------------------------
(* The theorems                                                            *)

LEMMA ControlNextInv == ControlInv /\ [ControlNext]_controlVars => ControlInv'
<1> SUFFICES ASSUME ControlInv, [ControlNext]_controlVars PROVE ControlInv'
  OBVIOUS
<1>1. CASE UNCHANGED controlVars
  BY <1>1 DEF controlVars, ghosts, ControlInv, TypeInv, StageInv, CrowdInv, DumpInv, UnsetInv,
              CarriedInv, AloneInv, SettingsThere, SetIsStored, Active, Setting
<1>2. ASSUME NEW c \in Clients, NEW cmd \in Commands,
             vpk_action_create(c, cmd) \/ vpk_action_param_set(c, cmd)
      PROVE  ControlInv'
  BY <1>2, CreateKeeps, ParamSetKeeps
<1>3. ASSUME NEW c \in Clients, ParamRefused(c) \/ vpk_action_destroy(c) \/ ClientDies(c)
      PROVE  ControlInv'
  BY <1>3, ParamSetKeeps, DestroyKeeps, DeathKeeps
<1>4. ASSUME NEW c \in Clients, Exec(c) \/ NoInfo(c) \/ ExecMenu(c) \/ Load(c) \/ AnswerGet(c)
      PROVE  ControlInv'
  BY <1>4, ExecKeeps, DestroyKeeps, ExecMenuKeeps, LoadKeeps, AnswerGetKeeps
<1>5. ASSUME NEW c \in Clients, OpenToDump(c) \/ OpenFails(c) \/ Dump(c) \/ DumpFails(c) \/ AnswerSet(c)
      PROVE  ControlInv'
  BY <1>5, OpenToDumpKeeps, OpenFailsKeeps, DumpKeeps, DumpFailsKeeps, AnswerSetKeeps
<1> QED
  BY <1>1, <1>2, <1>3, <1>4, <1>5 DEF ControlNext

(***************************************************************************)
(* Whatever clients do in setting_item_write and setting_item_get, at any  *)
(* time and in any order: while every dump has been completed and no two   *)
(* have dumped at once, the settings can be read unless they are being     *)
(* written.                                                                *)
(***************************************************************************)
THEOREM SettingsSurvive == ControlSpec => []SettingsThere
<1>1. ControlInv => SettingsThere
  BY DEF ControlInv
<1> QED
  BY <1>1, ControlInitInv, ControlNextInv, PTL DEF ControlSpec

(***************************************************************************)
(* What a setting_item_write that met no other, could load the settings    *)
(* and did not fail to dump them has made of an item is in the file until  *)
(* the item is set again, also when later sets fail to open the file.      *)
(***************************************************************************)
THEOREM SetsLast == ControlSpec => []SetIsStored
<1>1. ControlInv => SetIsStored
  BY DEF ControlInv
<1> QED
  BY <1>1, ControlInitInv, ControlNextInv, PTL DEF ControlSpec
==============================================================================
