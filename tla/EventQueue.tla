----------------------------- MODULE EventQueue -----------------------------
(***************************************************************************)
(* Key events between processes: vpk_ieventq.c over the System V message   *)
(* queue of x86 (x86_eventq.c) or the POSIX queue of the camera            *)
(* (nt966x_eventq.c), with the programs that post (sample_mq.c,            *)
(* sample_mq_send.c: open "w", post in a loop) and those that receive      *)
(* (sample_mq.c, sample_mq_recv.c: open "a+", clear an event and receive   *)
(* into it in a loop), all of which open again when opening fails.         *)
(*                                                                         *)
(* A code travels as text.  A message is the number and the base it is     *)
(* written in: hexadecimal when x86 posts or the firmware of the camera    *)
(* does, decimal when nt966x posts.  Both receivers read four hexadecimal  *)
(* digits.  Every name opens the one queue of the platform, which outlives *)
(* the processes.                                                          *)
(***************************************************************************)
EXTENDS Integers, Sequences

CONSTANTS Posters, Receivers,   \* the processes
          Platforms,            \* a subset of {"x86", "nt966x"}
          PostedCodes,          \* the codes that programs post
          FirmwareCodes,        \* the codes that the firmware posts on nt966x
          QueueSize,            \* messages the kernel keeps in the queue
          MaxPosts              \* bound: posts of all processes and the firmware

ASSUME EventQueueAssumption ==
    /\ Posters \cap Receivers = {}
    /\ Platforms \subseteq {"x86", "nt966x"}
    /\ PostedCodes \cup FirmwareCodes \subseteq Nat
    /\ QueueSize \in Nat \ {0} /\ MaxPosts \in Nat

VARIABLES platform,     \* which eventq_ops vpk_eventq_init has found
          exists,       \* the kernel has the queue
          mq,           \* its messages
          pc,           \* per process: "off" (no queue object), "idle", "posting", "receiving"
          rights,       \* what its descriptor allows; {} when fd is -1
          event,        \* the vpk_event_t it posts from or receives into
          ret,          \* what its last call has returned
          posts         \* counted for the bound

kernel == <<platform, exists, mq>>
eventQueueVars == <<kernel, pc, rights, event, ret, posts>>

Procs == Posters \cup Receivers
Both  == {"post", "recv"}

ABNORMAL == 16
ALERT    == 17
NOTICE   == 18
\* Number of bytes of every post, and of a message of the camera's queue.
EVENT_MQ_MSG_LEN_MAX == 16
CUSTOM_EVT_MQ_MSG_LEN_MAX == 12

Abnormals == \h3001 .. \h3009
Alerts    == \h2001 .. \h2002
Notices   == (\h1001 .. \h1005) \cup (\h1030 .. \h1033) \cup (\h1040 .. \h1044)
    \cup (\h1050 .. \h1052) \cup {\h1060, \h1100, \h1101, \h1201, \h1202, \h8001}

Cleared == [type |-> 0, keycode |-> 0]

\* The switch of recv: what the receiver finds in its event e after code.
Filled(code, e) ==
    CASE code \in Abnormals -> [type |-> ABNORMAL, keycode |-> code]
      [] code \in Alerts    -> [type |-> ALERT, keycode |-> code]
      [] code \in Notices   -> [type |-> NOTICE, keycode |-> code]
      [] OTHER              -> e

----------------------------------------------------------------------------
(* Text                                                                    *)

\* How many characters a number takes, and the value of each.
Width(text) ==
    CHOOSE w \in 1 .. 8 :
        /\ text.code < text.base ^ w
        /\ w > 1 => text.code >= text.base ^ (w - 1)
CharAt(text, i) ==
    IF i < Width(text)
    THEN (text.code \div text.base ^ (Width(text) - 1 - i)) % text.base
    ELSE 0                          \* vpk_hex_to_int('\0')

HEXSTR_PARSE(text) ==
    4096 * CharAt(text, 0) + 256 * CharAt(text, 1) + 16 * CharAt(text, 2) + CharAt(text, 3)

----------------------------------------------------------------------------
EventQueueInit ==
    /\ platform = "none"
    /\ exists = FALSE /\ mq = <<>>
    /\ pc = [p \in Procs |-> "off"]
    /\ rights = [p \in Procs |-> {}]
    /\ event = [p \in Procs |-> Cleared]
    /\ ret = [p \in Procs |-> 0]
    /\ posts = 0

Goto(p, l) == pc' = [pc EXCEPT ![p] = l]

CallReturns(p, value) ==
    /\ Goto(p, "idle")
    /\ ret' = [ret EXCEPT ![p] = value]
    /\ UNCHANGED <<platform, exists, rights, posts>>

\* What the library has been built for
vpk_eventq_init ==
    /\ platform = "none"
    /\ platform' \in Platforms
    /\ UNCHANGED <<exists, mq, pc, rights, event, ret, posts>>

(***************************************************************************)
(* vpk_eventq_open.  The first character of the mode and whether there is  *)
(* a '+' decide what nt966x opens; only "a" creates the queue.  x86 passes *)
(* the mode by, and always creates.                                        *)
(***************************************************************************)
Creates(first) == platform = "x86" \/ first = "a"
Allowed(first, plus) ==
    IF platform = "x86" \/ plus THEN Both
    ELSE IF first = "r" THEN {"recv"} ELSE {"post"}

Open(p, first, plus) ==
    /\ pc[p] = "off"
    /\ platform # "none"
    /\ exists \/ Creates(first)         \* otherwise NULL, and the program tries again
    /\ exists' = TRUE
    /\ rights' = [rights EXCEPT ![p] = Allowed(first, plus)]
    /\ Goto(p, "idle")
    /\ UNCHANGED <<platform, mq, event, ret, posts>>

OpenToPost(p) == Open(p, "w", FALSE)
OpenToReceive(p) == Open(p, "a", TRUE)

Close(p) ==
    /\ pc[p] = "idle"
    /\ rights' = [rights EXCEPT ![p] = {}]
    /\ ret' = [ret EXCEPT ![p] = 0]
    /\ UNCHANGED <<kernel, pc, event, posts>>

\* vpk_eventq_destroy, or the death of the process: the queue stays as it is
LeaveQueue(p) ==
    /\ pc[p] # "off"
    /\ Goto(p, "off")
    /\ rights' = [rights EXCEPT ![p] = {}]
    /\ UNCHANGED <<kernel, event, ret, posts>>

----------------------------------------------------------------------------
(* vpk_eventq_post                                                         *)

PostCall(p, code) ==
    /\ pc[p] = "idle"
    /\ posts < MaxPosts
    /\ posts' = posts + 1
    /\ event' = [event EXCEPT ![p] = [type |-> ALERT, keycode |-> code]]
    /\ Goto(p, "posting")
    /\ UNCHANGED <<kernel, rights, ret>>

\* mq_send refuses a message longer than those of the queue
Accepted(p) ==
    /\ "post" \in rights[p]
    /\ platform = "nt966x" => EVENT_MQ_MSG_LEN_MAX <= CUSTOM_EVT_MQ_MSG_LEN_MAX

PostSent(p) ==
    /\ pc[p] = "posting"
    /\ Accepted(p)
    /\ Len(mq) < QueueSize              \* otherwise it blocks
    /\ mq' = Append(mq, [base |-> IF platform = "x86" THEN 16 ELSE 10,
                         code |-> event[p].keycode])
    /\ CallReturns(p, 0)
    /\ UNCHANGED event

\* refused, or interrupted while it is blocked
PostFailed(p) ==
    /\ pc[p] = "posting"
    /\ ~Accepted(p) \/ Len(mq) = QueueSize
    /\ CallReturns(p, -1)
    /\ UNCHANGED <<mq, event>>

FirmwarePost(code) ==
    /\ platform = "nt966x" /\ exists
    /\ posts < MaxPosts /\ posts' = posts + 1
    /\ Len(mq) < QueueSize
    /\ mq' = Append(mq, [base |-> 16, code |-> code])
    /\ UNCHANGED <<platform, exists, pc, rights, event, ret>>

----------------------------------------------------------------------------
(* vpk_eventq_recv, called by a loop that clears the event before          *)

\* Slips: the event is not cleared; what is received stays in the queue
RecvCallStale(p) ==
    /\ pc[p] = "idle"
    /\ Goto(p, "receiving")
    /\ UNCHANGED <<kernel, rights, event, ret, posts>>

RecvPeeks(p) ==
    /\ pc[p] = "receiving" /\ "recv" \in rights[p]
    /\ mq # <<>>
    /\ event' = [event EXCEPT ![p] = Filled(HEXSTR_PARSE(Head(mq)), @)]
    /\ CallReturns(p, IF platform = "x86" THEN 0 ELSE Width(Head(mq)))
    /\ UNCHANGED mq

RecvCall(p) ==
    /\ pc[p] = "idle"
    /\ event' = [event EXCEPT ![p] = Cleared]
    /\ Goto(p, "receiving")
    /\ UNCHANGED <<kernel, rights, ret, posts>>

RecvTaken(p) ==
    /\ pc[p] = "receiving"
    /\ "recv" \in rights[p]
    /\ mq # <<>>                        \* otherwise it blocks
    /\ mq' = Tail(mq)
    /\ event' = [event EXCEPT ![p] = Filled(HEXSTR_PARSE(Head(mq)), @)]
    /\ CallReturns(p, IF platform = "x86" THEN 0 ELSE Width(Head(mq)))

\* closed, or interrupted while it is blocked
RecvFailed(p) ==
    /\ pc[p] = "receiving"
    /\ "recv" \notin rights[p] \/ mq = <<>>
    /\ CallReturns(p, -1)
    /\ UNCHANGED <<mq, event>>

----------------------------------------------------------------------------
EventQueueNext ==
    \/ vpk_eventq_init
    \/ \E p \in Posters :
        \/ OpenToPost(p) \/ PostSent(p) \/ PostFailed(p)
        \/ \E code \in PostedCodes : PostCall(p, code)
    \/ \E p \in Receivers :
        OpenToReceive(p) \/ RecvCall(p) \/ RecvTaken(p) \/ RecvFailed(p)
    \/ \E p \in Procs : Close(p) \/ LeaveQueue(p)
    \/ \E code \in FirmwareCodes : FirmwarePost(code)

EventQueueSpec == EventQueueInit /\ [][EventQueueNext]_eventQueueVars

\* Running processes run, the kernel wakes blocked senders in turn, and a
\* program that could not open the queue tries again every second.
GoesOn(p) ==
    \/ p \in Posters /\ (OpenToPost(p) \/ (PostFailed(p) /\ ~Accepted(p)))
    \/ p \in Receivers /\ (RecvCall(p) \/ RecvTaken(p))

----------------------------------------------------------------------------
(* Properties                                                              *)

(***************************************************************************)
(* main/sample.c:101: a key code is "4 bytes long".  When recv succeeds,   *)
(* the receiver has the oldest message and nobody else gets it; its event  *)
(* is the code that was posted, with the type of its family, and remains   *)
(* cleared if the code is of no family, whatever the event held before and *)
(* however many processes receive.                                         *)
(***************************************************************************)
Succeeds(p) == pc[p] = "receiving" /\ pc'[p] = "idle" /\ ret'[p] >= 0
FaithfulDelivery ==
    [][\A p \in Receivers : Succeeds(p) =>
        /\ mq' = Tail(mq)
        /\ event'[p] = Filled(Head(mq).code, Cleared)]_eventQueueVars

(***************************************************************************)
(* A post that blocks because the queue is full comes back, as long as     *)
(* some process keeps the queue open and receives, whatever other          *)
(* processes come and go.                                                  *)
(***************************************************************************)
KeepsReceiving(p) == <>[](pc[p] # "off" /\ "recv" \in rights[p])
BlockedPostReturns ==
    (\E p \in Receivers : KeepsReceiving(p))
        => \A p \in Posters : pc[p] = "posting" ~> pc[p] # "posting"
=============================================================================
