--------------------------- MODULE Programs_proofs ---------------------------
(***************************************************************************)
(* What is proved of a part holds in every program: a program with         *)
(* sessions uses the serial port by the operations of Serial alone,        *)
(* whatever the registration has found, and the programs that use another  *)
(* part leave it alone; the same for every other part.  And what is proved *)
(* of the event queue: a receiver finds the code that was posted.          *)
(***************************************************************************)
EXTENDS Programs, Sessions_proofs, Files_proofs

(***************************************************************************)
(* Every program implements the serial port: no registration, loading,     *)
(* device control, command, file, download or event queue disturbs it.     *)
(***************************************************************************)
THEOREM ProgramsUseSerial == Spec => SerialSpec
<1>1. Init => SerialInit
  BY DEF Init, SessionsInit
<1>2. [Next]_vars => [SerialNext]_serialVars
  <2> SUFFICES ASSUME [Next]_vars PROVE SerialNext \/ UNCHANGED serialVars
    OBVIOUS
  <2>1. CASE SessionsStep
    <3>1. CASE vpk_system_init
      BY <3>1 DEF vpk_system_init
    <3>2. ASSUME NEW s \in Standards, FindAndLoad(s) PROVE UNCHANGED serialVars
      BY <3>2 DEF FindAndLoad
    <3>3. CASE UseSerial
      BY <3>3 DEF UseSerial
    <3>4. CASE UseControl
      BY <3>4 DEF UseControl
    <3> QED
      BY <2>1, <3>1, <3>2, <3>3, <3>4 DEF SessionsStep, SessionsNext
  <2>2. CASE find_demo \/ EventQueueStep \/ LibCStep \/ MakeDirsStep \/ FileMapStep \/ DownloadStep
    BY <2>2 DEF find_demo, EventQueueStep, LibCStep, MakeDirsStep, FileMapStep, DownloadStep,
        sessionsVars
  <2>3. CASE UNCHANGED vars
    BY <2>3 DEF vars, sessionsVars
  <2> QED
    BY <2>1, <2>2, <2>3 DEF Next
<1> QED
  BY <1>1, <1>2, PTL DEF Spec, SerialSpec

(***************************************************************************)
(* Nor do the other parts disturb each other: a program is a behaviour of  *)
(* the event queue, the sessions, the commands, the directories, the file  *)
(* mapping and the download at once, each at work or at rest.              *)
(***************************************************************************)
THEOREM ProgramsUseParts ==
    Spec => /\ EventQueueSpec /\ SessionsSpec /\ LibCSpec
            /\ MakeDirsSpec /\ FileMapSpec /\ DownloadSpec
<1>1. Init => /\ EventQueueInit /\ SessionsInit /\ LibCInit
              /\ MakeDirsInit /\ FileMapInit /\ DownloadInit
  BY DEF Init
<1>2. [Next]_vars => /\ [EventQueueNext]_eventQueueVars /\ [SessionsNext]_sessionsVars
                     /\ [LibCNext]_libcVars /\ [MakeDirsNext]_makeDirsVars
                     /\ [FileMapNext]_fileMapVars /\ [DownloadNext]_downloadVars
  <2> SUFFICES ASSUME [Next]_vars
               PROVE  /\ [EventQueueNext]_eventQueueVars /\ [SessionsNext]_sessionsVars
                      /\ [LibCNext]_libcVars /\ [MakeDirsNext]_makeDirsVars
                      /\ [FileMapNext]_fileMapVars /\ [DownloadNext]_downloadVars
    OBVIOUS
  <2>1. CASE find_demo \/ UNCHANGED vars
    BY <2>1 DEF find_demo, vars
  <2>2. CASE EventQueueStep
    BY <2>2 DEF EventQueueStep
  <2>3. CASE SessionsStep
    BY <2>3 DEF SessionsStep
  <2>4. CASE LibCStep
    BY <2>4 DEF LibCStep
  <2>5. CASE MakeDirsStep
    BY <2>5 DEF MakeDirsStep
  <2>6. CASE FileMapStep
    BY <2>6 DEF FileMapStep
  <2>7. CASE DownloadStep
    BY <2>7 DEF DownloadStep
  <2> QED
    BY <2>1, <2>2, <2>3, <2>4, <2>5, <2>6, <2>7 DEF Next
<1> QED
  BY <1>1, <1>2, PTL DEF Spec, EventQueueSpec, SessionsSpec, LibCSpec, MakeDirsSpec,
     FileMapSpec, DownloadSpec

(***************************************************************************)
(* The device control is used by its own operations alone as well, even in *)
(* programs that use the serial port.                                      *)
(***************************************************************************)
THEOREM ProgramsUseControl == Spec => ControlSpec
<1>1. SessionsInit => ControlInit
  BY DEF SessionsInit
<1>2. [SessionsNext]_sessionsVars => [ControlNext]_controlVars
  <2> SUFFICES ASSUME [SessionsNext]_sessionsVars
               PROVE  ControlNext \/ UNCHANGED controlVars
    OBVIOUS
  <2>1. CASE vpk_system_init
    BY <2>1 DEF vpk_system_init
  <2>2. ASSUME NEW s \in Standards, FindAndLoad(s) PROVE UNCHANGED controlVars
    BY <2>2 DEF FindAndLoad
  <2>3. CASE UseSerial
    BY <2>3 DEF UseSerial
  <2>4. CASE UseControl
    BY <2>4 DEF UseControl
  <2>5. CASE UNCHANGED sessionsVars
    BY <2>5 DEF sessionsVars
  <2> QED
    BY <2>1, <2>2, <2>3, <2>4, <2>5 DEF SessionsNext
<1>3. SessionsSpec => ControlSpec
  BY <1>1, <1>2, PTL DEF SessionsSpec, ControlSpec
<1> QED
  BY <1>3, ProgramsUseParts, PTL

(***************************************************************************)
(* So in every program a read stays in its buffer and within its time, and *)
(* no byte is lost, repeated or out of order.                              *)
(***************************************************************************)
THEOREM ProgramsKeepStream == Spec => [](NoOverrun /\ StreamKept /\ ReadInTime /\ WritesPrefix)
  BY ProgramsUseSerial, ReadStaysInBuffer, StreamIsKept, ReadWaitsInTime, WriteSendsPrefix, PTL

(***************************************************************************)
(* While every dump has been completed and no two have dumped at once, the *)
(* settings can be read unless they are being written, and they have what  *)
(* a set that met no other has stored until the item is set again.         *)
(***************************************************************************)
THEOREM ProgramsKeepSettings == Spec => [](SettingsThere /\ SetIsStored)
  BY ProgramsUseControl, SettingsSurvive, SetsLast, PTL

(***************************************************************************)
(* And vpk_system_exval says that it has failed, or how much of the output *)
(* of its own command is in the buffer; nothing is left of a command, and  *)
(* a timeout whose looks an unsigned int can count is kept; the            *)
(* directories before the last slash of a path that was reported made are  *)
(* there; a mapping of a file that nobody writes, and whose size fits an   *)
(* int, is read in full; the file that was downloaded is the beginning of  *)
(* the remote one, or all of it, unless an error page has been written.    *)
(***************************************************************************)
THEOREM ProgramsKeepFiles ==
    ASSUME NoOverflow
    PROVE  Spec => [](/\ OutputOrFailure /\ SystemExIsOver
                      /\ SlashedDirsMade /\ MappedIsRead /\ LocalIsRemote)
<1>1. LibCSpec => []SystemExIsOver
  BY NothingLeftBehind
<1> QED
  BY <1>1, ProgramsUseParts, OutputIsOwn, DirsAreMade, MappedIsWhole, DownloadIsExact, PTL

----------------------------------------------------------------------------
(* The event queue                                                         *)

(***************************************************************************)
(* A key code is "4 bytes long", says main/sample.c:101: the receiver      *)
(* reads exactly four hexadecimal digits.                                  *)
(***************************************************************************)
FourDigits == {n \in Nat : 4096 <= n /\ n <= 65535}
CodesHaveFourDigits == PostedCodes \cup FirmwareCodes \subseteq FourDigits

Hexadecimal == [base : {16}, code : FourDigits]

(***************************************************************************)
(* Everything in the queue is hexadecimal, because the camera refuses the  *)
(* posts of programs, whose 16 bytes are more than a message of its queue; *)
(* and who receives has cleared its event.                                 *)
(***************************************************************************)
QueueInv ==
    /\ platform \in {"none", "x86", "nt966x"}
    /\ mq \in Seq(Hexadecimal)
    /\ pc \in [Procs -> {"off", "idle", "posting", "receiving"}]
    /\ ret \in [Procs -> Int]
    /\ DOMAIN event = Procs
    /\ \A p \in Procs :
        /\ pc[p] # "off" => platform # "none"
        /\ pc[p] = "posting" => event[p].keycode \in FourDigits
        /\ pc[p] = "receiving" => event[p] = Cleared

\* A number of four hexadecimal digits takes four characters.
LEMMA FourCharacters == ASSUME NEW text \in Hexadecimal PROVE Width(text) = 4
<1> DEFINE Takes(w) == /\ text.code < text.base ^ w
                       /\ w > 1 => text.code >= text.base ^ (w - 1)
<1>1. text.base = 16 /\ text.code \in Int /\ 4096 <= text.code /\ text.code <= 65535
  BY DEF Hexadecimal, FourDigits
<1>2. /\ 16 ^ 1 = 16 /\ 16 ^ 2 = 256 /\ 16 ^ 3 = 4096 /\ 16 ^ 4 = 65536
      /\ 16 ^ 5 = 1048576 /\ 16 ^ 6 = 16777216 /\ 16 ^ 7 = 268435456
  OBVIOUS
<1>3. Takes(4)
  BY <1>1, <1>2
<1>4. ~Takes(1) /\ ~Takes(2) /\ ~Takes(3)
  BY <1>1, <1>2
<1>5. ~Takes(5) /\ ~Takes(6) /\ ~Takes(7) /\ ~Takes(8)
  BY <1>1, <1>2
<1>6. Width(text) = CHOOSE w \in 1 .. 8 : Takes(w)
  BY DEF Width
<1> HIDE DEF Takes
<1>7. \A w \in 1 .. 8 : Takes(w) => w = 4
  BY ONLY <1>4, <1>5
<1> QED
  BY <1>3, <1>6, <1>7

\* What is left of a number of four digits without its last three.
LEMMA FourDigitsSplit ==
    ASSUME NEW n \in Int, 4096 <= n, n <= 65535,
           NEW a \in Int, NEW b \in Int, NEW c \in Int,
           NEW u \in Int, NEW v \in Int, NEW w \in Int,
           0 <= u, u <= 15, 0 <= v, v <= 15, 0 <= w, w <= 15,
           n = 16 * a + u, a = 16 * b + v, b = 16 * c + w
    PROVE  /\ n \div 4096 = c
           /\ c % 16 = c
           /\ n = 4096 * c + 256 * w + 16 * v + u
<1>1. n = 4096 * c + (256 * w + 16 * v + u)
  OBVIOUS
<1>2. n = 4096 * c + 256 * w + 16 * v + u
  OBVIOUS
<1>3. 0 <= 256 * w + 16 * v + u 
  OBVIOUS
<1>4. 256 * w + 16 * v + u <= 4095
  OBVIOUS
<1>5. c >= 0
  BY ONLY c \in Int, u \in Int, v \in Int, w \in Int, n \in Int, 4096 <= n, <1>1, <1>3, <1>4
<1>6. c <= 15
  BY ONLY c \in Int, u \in Int, v \in Int, w \in Int, n \in Int, n <= 65535, <1>1, <1>3, <1>4
<1>7. ASSUME NEW k \in Int, 0 <= k, k <= 4095, n = 4096 * c + k PROVE n \div 4096 = c
  BY ONLY n \in Int, c \in Int, k \in Int, <1>7
<1>8. n \div 4096 = c
  BY ONLY u \in Int, v \in Int, w \in Int, <1>1, <1>3, <1>4, <1>7
<1>9. c % 16 = c
  BY <1>5, <1>6
<1> QED
  BY ONLY <1>2, <1>8, <1>9

\* A number is made up of its last digit and those before it.
LEMMA LastDigit ==
    ASSUME NEW n \in Int
    PROVE  /\ n = 16 * (n \div 16) + (n % 16)
           /\ n \div 16 \in Int /\ n % 16 \in Int
           /\ 0 <= n % 16 /\ n % 16 <= 15
  OBVIOUS

\* Two digits are taken off one by one.
LEMMA TwoDigits == ASSUME NEW n \in Int, 0 <= n PROVE (n \div 16) \div 16 = n \div 256
  OBVIOUS

\* A number of four digits is made up of them.
LEMMA FourDigitsMakeIt ==
    ASSUME NEW n \in Int, 4096 <= n, n <= 65535
    PROVE  n = 4096 * ((n \div 4096) % 16) + 256 * ((n \div 256) % 16)
                + 16 * ((n \div 16) % 16) + ((n \div 1) % 16)
<1>1. PICK a, u \in Int : a = n \div 16 /\ u = n % 16
  BY LastDigit
<1>2. n = 16 * a + u /\ 0 <= u /\ u <= 15
  BY <1>1, LastDigit
<1>3. PICK b, v \in Int : b = a \div 16 /\ v = a % 16
  BY LastDigit
<1>4. a = 16 * b + v /\ 0 <= v /\ v <= 15
  BY <1>3, LastDigit
<1>5. PICK c, w \in Int : c = b \div 16 /\ w = b % 16
  BY LastDigit
<1>6. b = 16 * c + w /\ 0 <= w /\ w <= 15
  BY <1>5, LastDigit
<1>7. n \div 4096 = c /\ c % 16 = c /\ n = 4096 * c + 256 * w + 16 * v + u
  BY <1>2, <1>4, <1>6, FourDigitsSplit
<1>8. n \div 256 = b
  BY <1>1, <1>3, TwoDigits
<1>9. n \div 1 = n
  OBVIOUS
<1>10. /\ u = (n \div 1) % 16 /\ v = (n \div 16) % 16
       /\ w = (n \div 256) % 16 /\ c = (n \div 4096) % 16
  BY ONLY <1>1, <1>3, <1>5, <1>7, <1>8, <1>9
<1> QED
  BY ONLY <1>7, <1>10

\* HEXSTR_PARSE undoes the formatting of vpk_eventq_post.
LEMMA ParsesWhatIsWritten ==
    ASSUME NEW text \in Hexadecimal PROVE HEXSTR_PARSE(text) = text.code
<1>1. text.base = 16 /\ text.code \in Int /\ 4096 <= text.code /\ text.code <= 65535
  BY DEF Hexadecimal, FourDigits
<1>2. 16 ^ 0 = 1 /\ 16 ^ 1 = 16 /\ 16 ^ 2 = 256 /\ 16 ^ 3 = 4096
  OBVIOUS
<1>3. Width(text) = 4
  BY FourCharacters
<1>4. CharAt(text, 0) = (text.code \div 4096) % 16
  BY ONLY <1>1, <1>2, <1>3 DEF CharAt
<1>5. CharAt(text, 1) = (text.code \div 256) % 16
  BY ONLY <1>1, <1>2, <1>3 DEF CharAt
<1>6. CharAt(text, 2) = (text.code \div 16) % 16
  BY ONLY <1>1, <1>2, <1>3 DEF CharAt
<1>7. CharAt(text, 3) = (text.code \div 1) % 16
  BY ONLY <1>1, <1>2, <1>3 DEF CharAt
<1>8. text.code = 4096 * ((text.code \div 4096) % 16) + 256 * ((text.code \div 256) % 16)
            + 16 * ((text.code \div 16) % 16) + ((text.code \div 1) % 16)
  BY ONLY <1>1, FourDigitsMakeIt
<1> QED
  BY ONLY <1>4, <1>5, <1>6, <1>7, <1>8 DEF HEXSTR_PARSE

LEMMA QueueInvHolds ==
    ASSUME CodesHaveFourDigits PROVE EventQueueSpec => []QueueInv
<1>1. EventQueueInit => QueueInv
  BY DEF EventQueueInit, QueueInv
<1>2. QueueInv /\ [EventQueueNext]_eventQueueVars => QueueInv'
  <2> SUFFICES ASSUME QueueInv, [EventQueueNext]_eventQueueVars PROVE QueueInv'
    OBVIOUS
  <2> USE DEF QueueInv
  <2>1. CASE vpk_eventq_init
    BY <2>1, EventQueueAssumption DEF vpk_eventq_init
  <2>2. ASSUME NEW p \in Procs, NEW first, NEW plus, Open(p, first, plus)
        PROVE  QueueInv'
    BY <2>2 DEF Open, Goto
  <2>3. ASSUME NEW p \in Posters, PostSent(p)
        PROVE  QueueInv'
    <3>1. p \in Procs /\ platform = "x86"
      BY <2>3 DEF PostSent, Accepted, Procs, EVENT_MQ_MSG_LEN_MAX, CUSTOM_EVT_MQ_MSG_LEN_MAX
    <3>2. [base |-> 16, code |-> event[p].keycode] \in Hexadecimal
      BY <2>3, <3>1 DEF PostSent, Hexadecimal
    <3>3. mq' \in Seq(Hexadecimal)
      BY <2>3, <3>1, <3>2 DEF PostSent
    <3> QED
      BY <2>3, <3>1, <3>3 DEF PostSent, CallReturns, Goto
  <2>4. ASSUME NEW p \in Posters, PostFailed(p)
        PROVE  QueueInv'
    BY <2>4 DEF PostFailed, CallReturns, Goto, Procs
  <2>5. ASSUME NEW p \in Posters, NEW code \in PostedCodes, PostCall(p, code)
        PROVE  QueueInv'
    BY <2>5, CodesHaveFourDigits DEF PostCall, Goto, Procs, kernel, CodesHaveFourDigits
  <2>6. ASSUME NEW p \in Receivers, RecvCall(p)
        PROVE  QueueInv'
    BY <2>6 DEF RecvCall, Goto, Procs, kernel
  <2>7. ASSUME NEW p \in Receivers, RecvTaken(p)
        PROVE  QueueInv'
    <3>1. p \in Procs
      BY DEF Procs
    <3>2. mq' \in Seq(Hexadecimal)
      BY <2>7 DEF RecvTaken
    <3>3. ret' \in [Procs -> Int]
      <4>1. Head(mq) \in Hexadecimal
        BY <2>7 DEF RecvTaken
      <4>2. Width(Head(mq)) = 4
        BY <4>1, FourCharacters
      <4> QED
        BY <2>7, <3>1, <4>2 DEF RecvTaken, CallReturns
    <3> QED
      BY <2>7, <3>1, <3>2, <3>3 DEF RecvTaken, CallReturns, Goto
  <2>8. ASSUME NEW p \in Receivers, RecvFailed(p)
        PROVE  QueueInv'
    BY <2>8 DEF RecvFailed, CallReturns, Goto, Procs
  <2>9. ASSUME NEW p \in Procs, Close(p) \/ LeaveQueue(p)
        PROVE  QueueInv'
    BY <2>9 DEF Close, LeaveQueue, Goto, kernel
  <2>10. ASSUME NEW code \in FirmwareCodes, FirmwarePost(code)
         PROVE  QueueInv'
    <3>1. [base |-> 16, code |-> code] \in Hexadecimal
      BY CodesHaveFourDigits DEF CodesHaveFourDigits, Hexadecimal
    <3> QED
      BY <2>10, <3>1 DEF FirmwarePost
  <2>11. CASE UNCHANGED eventQueueVars
    BY <2>11 DEF eventQueueVars, kernel
  <2> QED
    BY <2>1, <2>2, <2>3, <2>4, <2>5, <2>6, <2>7, <2>8, <2>9, <2>10, <2>11
       DEF EventQueueNext, OpenToPost, OpenToReceive, Procs
<1> QED
  BY <1>1, <1>2, PTL DEF EventQueueSpec

\* Only RecvTaken lets a receiver come back with a success.
LEMMA SuccessIsTaking ==
    ASSUME QueueInv, [EventQueueNext]_eventQueueVars, NEW p \in Receivers, Succeeds(p)
    PROVE  RecvTaken(p)
<1>1. pc[p] = "receiving" /\ pc'[p] = "idle" /\ ret'[p] >= 0 /\ p \in Procs
  BY DEF Succeeds, Procs
<1>2. pc \in [Procs -> {"off", "idle", "posting", "receiving"}] /\ ret \in [Procs -> Int]
  BY DEF QueueInv
<1>3. ~UNCHANGED pc
  BY <1>1
<1>4. ASSUME NEW q \in Procs, NEW l, Goto(q, l) PROVE q = p /\ l = "idle"
  BY <1>1, <1>2, <1>4 DEF Goto
<1>5. ~vpk_eventq_init /\ \A code \in FirmwareCodes : ~FirmwarePost(code)
  BY <1>3 DEF vpk_eventq_init, FirmwarePost
<1>6. \A q \in Posters : ~PostSent(q) /\ ~PostFailed(q)
  BY <1>4, EventQueueAssumption DEF PostSent, PostFailed, CallReturns, Procs
<1>7. \A q \in Procs : ~LeaveQueue(q) /\ ~Close(q)
  BY <1>3, <1>4 DEF LeaveQueue, Close
<1>8. \A q \in Posters : ~OpenToPost(q) /\ \A code \in PostedCodes : ~PostCall(q, code)
  BY <1>4, EventQueueAssumption DEF OpenToPost, Open, PostCall, Procs
<1>9. \A q \in Receivers : ~OpenToReceive(q) /\ ~RecvCall(q)
  BY <1>1, <1>4 DEF OpenToReceive, Open, RecvCall, Procs
<1>10. \A q \in Receivers : ~RecvFailed(q)
  <2> SUFFICES ASSUME NEW q \in Receivers, RecvFailed(q) PROVE FALSE
    OBVIOUS
  <2>1. q = p
    BY <1>4 DEF RecvFailed, CallReturns, Procs
  <2> QED
    BY <2>1, <1>1, <1>2 DEF RecvFailed, CallReturns
<1>11. \A q \in Receivers : RecvTaken(q) => q = p
  BY <1>4 DEF RecvTaken, CallReturns, Procs
<1>12. ~UNCHANGED eventQueueVars
  BY <1>3 DEF eventQueueVars
<1> QED
  BY <1>5, <1>6, <1>7, <1>8, <1>9, <1>10, <1>11, <1>12 DEF EventQueueNext

(***************************************************************************)
(* Who receives has the oldest message and nobody else gets it: its event  *)
(* is the code that was posted, whatever it held before.                   *)
(***************************************************************************)
THEOREM DeliveryIsFaithful ==
    ASSUME CodesHaveFourDigits PROVE EventQueueSpec => FaithfulDelivery
<1> DEFINE Delivered(p) ==
             Succeeds(p) => /\ mq' = Tail(mq)
                            /\ event'[p] = Filled(Head(mq).code, Cleared)
<1>1. QueueInv /\ [EventQueueNext]_eventQueueVars => \A p \in Receivers : Delivered(p)
  <2> SUFFICES ASSUME QueueInv, [EventQueueNext]_eventQueueVars,
                      NEW p \in Receivers, Succeeds(p)
               PROVE  /\ mq' = Tail(mq)
                      /\ event'[p] = Filled(Head(mq).code, Cleared)
    OBVIOUS
  <2>1. RecvTaken(p)
    BY SuccessIsTaking
  <2>2. mq \in Seq(Hexadecimal) /\ p \in DOMAIN event /\ event[p] = Cleared
    BY <2>1 DEF QueueInv, RecvTaken, Procs
  <2>3. HEXSTR_PARSE(Head(mq)) = Head(mq).code
    <3>1. Head(mq) \in Hexadecimal
      BY <2>1, <2>2 DEF RecvTaken
    <3> QED
      BY <3>1, ParsesWhatIsWritten
  <2>4. event'[p] = Filled(HEXSTR_PARSE(Head(mq)), event[p])
    BY <2>1, <2>2 DEF RecvTaken
  <2> QED
    BY <2>1, <2>2, <2>3, <2>4 DEF RecvTaken
<1>2. QueueInv /\ [EventQueueNext]_eventQueueVars
        => [\A p \in Receivers : Delivered(p)]_eventQueueVars
  BY <1>1
<1> QED
  BY <1>2, QueueInvHolds, PTL DEF EventQueueSpec, FaithfulDelivery

\* So in every program.
THEOREM ProgramsDeliver == ASSUME CodesHaveFourDigits PROVE Spec => FaithfulDelivery
  BY ProgramsUseParts, DeliveryIsFaithful, PTL
=============================================================================
