# Verification of vpk

vpk is a C library for embedded Linux devices (dash cameras on the nt966x, and x86 for development) with a
program of samples. This directory holds TLA+ models of its parts with state and concurrency of their own, the TLC
runs that check them, and TLAPS proofs. Every definition is translated from the code under `src/`; `PROJECT.json` maps
each to its lines.

## 1. The system and its parts

`vpk_system_init` opens the log, initialises the platform and registers its devices. Programs then use the parts below
independently; there is no central thread and the parts share no state. Programs react to key codes that
arrive through the event queue and command the firmware through actions and the device control; the rest are services.

| Part | State it keeps | Operations | Hard behaviour | What makes it correct |
|---|---|---|---|---|
| **thread queue** `vpk_tqueue.c` | ring of `data_num` slots, `pos_read`, `pos_write`, `curr_len`, a semaphore, a mutex | create, write, read (try, timed, forever), destroy | any number of threads; the semaphore is taken before the mutex; timeouts and signals race posts | a bounded FIFO: nothing lost, duplicated or reordered; a successful read delivers; calls return |
| **min heap** `vpk_minheap.h`, `vpk_heap.h` | array, position in each element | push, pop, erase from anywhere, adjust | index arithmetic; the element that fills a hole may go up or down | order and positions survive any sequence of calls |
| **timer** `timer_event.c` | heap of deadlines, active queue, flags and times per event, two counters | create, assign, add, del, loop, destroy | callbacks add and delete while queues are drained; late wake-ups; persistent events | queues, flags and counters agree; every deadline is met, in order, not early |
| **watchdog and IPC** `vpk_ipc_sem.c`, `vpk_ipc_shm.c`, `main/sample_consumer.c` | a System V semaphore, what the kernel would undo, a counter in shared memory | P, V, feed, watch | processes die anywhere and start again; an `unsigned char` counts down | mutual exclusion; a live feeder is never reported, a dead one is |
| **event queue** `vpk_ieventq.c`, `platform/*/*_eventq.c` | the kernel's queue, shared by processes; a descriptor each | open, post, receive, close, destroy | the queue outlives the processes and fills up; key codes travel as text; x86 has one queue for all names | each receipt is the oldest message, whole, in a clean event; a blocked post comes back |
| **serial port** `vpk_serial.c`, `platform/*/*_serial.c` | a descriptor, line settings, what the driver holds | create, open, read and write with timeout, set up, close | bytes in any pieces at any time, select errors, a device that hangs up | no byte lost, repeated or stored outside the buffer; reads return in time |
| **actions, device control** `vpk_actions.c`, `vpk_nvtuctrl.c`, `x86_nvtuctrl.c` | an action object per client; on a PC a file of menu settings for all | create, set the command, execute, destroy | reading, emptying and writing the file are separate steps of several clients, each of which may fail unnoticed; clients die | a setting that was made stays; settings are lost only in ways one can name |
| **device registry, system** `vpk_cdevice.c`, `vpk_system.c` | containers of operation tables | register, find | initialised more than once; full containers | sessions find their operations |
| **libc helpers** `vpk_libc.c` | the child, the signals, a temporary file per call | run a command with a timeout, or for its output; sort, search | a child that outlives its timeout; failed forks; callers that remove each other's files | nothing is left behind; an output is the beginning of the command's own, or a failure is reported |
| **directories** `vpk_ifilesys.c` | the file system | mkdir, mkdir_mult, create, rename, remove | several processes in the same directories, between test and action | on success the directories up to the last slash are there, a failure has a reason |
| **file mapping** `vpk_mmap.c` | a file, a copy of it in memory | save, create, destroy | a file that is saved or half saved while it is read; `size_t` wraps, an `int` holds the size | what `length` counts has been read |
| **download** `main/sample_download.c` | the local file | http_download, which resumes | attempts that break off, die, get an error page | the local file is a beginning of the remote one, and all of it on success |
| logger, utilities, MD5 | little or none | formatting, wrappers | I/O | not modelled (section 8) |

The samples under `src/main` show how the parts are used: `tqueue_demo.c` has threads that write now and then and one
that reads in a loop; `sample_timer.c` adds events before the loop and from callbacks, all in one thread.

## 2. Modules

| Module | Models | Extends |
|---|---|---|
| `BoundedFifo` | what a thread queue promises: an abstract queue with invocation, effect and return | |
| `TQueue` | `vpk_tqueue.c`; implements `BoundedFifo` | |
| `TQueue_proofs` | theorems about `TQueue` | `TQueue` |
| `MinHeap` | the heap's algorithms as operators on a record of array and positions | |
| `MinHeap_proofs` | lemmas about those operators, for heaps of any size | `MinHeap` |
| `HeapUse` | any sequence of heap calls | `MinHeap` |
| `HeapUse_proofs` | theorems about `HeapUse` | `HeapUse`, `MinHeap_proofs` |
| `TimerQueue` | what the timer promises: a set of waiting events, a sequence of ready ones | |
| `TimerEvent` | `timer_event.c` on that heap; implements `TimerQueue` | `MinHeap` |
| `TimerEvent_proofs` | theorems about `TimerEvent` | `TimerEvent`, `MinHeap_proofs` |
| `WatchDog` | feeder, watcher, semaphore and kernel | |
| `WatchDog_proofs` | theorems about `WatchDog` | `WatchDog` |
| `EventQueue` | `vpk_ieventq.c` on both platforms, the kernel's queue, and the programs that post and receive | |
| `Serial` | `vpk_serial.c`, `x86_serial.c` (`nt966x_serial.c` is the same), the driver and the device | |
| `DeviceControl` | `vpk_actions.c`, `vpk_nvtuctrl.c`, `x86_nvtuctrl.c` and the settings file | |
| `Sessions` | a program that initialises the system, finds a session in the registry and uses it | `Serial`, `DeviceControl` |
| `LibC` | `SystemEx` and `mysystem` of `vpk_libc.c`, the shells they start, the temporary files | |
| `MakeDirs` | `vpk_ifilesys.c` | |
| `FileMap` | `vpk_mmap.c` | |
| `Download` | `http_download`, with server and network | |
| `Programs` | the six above: a program chooses one of them, as `find_demo` does | `EventQueue`, `Sessions`, `LibC`, `MakeDirs`, `FileMap`, `Download` |
| `Sessions_proofs` | theorems about `Serial` and `DeviceControl` | `Sessions` |
| `Files_proofs` | theorems about `FileMap`, `MakeDirs`, `LibC` and `Download` | those four |
| `Programs_proofs` | theorems about `EventQueue` and `Programs` | `Programs`, `Sessions_proofs`, `Files_proofs` |
| `MCTQueue`, `MCTimerEvent`, `MCWatchDog`, `MCMakeDirs`, `MCPrograms` | instances for TLC | |
| `MCServices` | an instance of three parts with safety properties only, of which a behaviour is one | `HeapUse`, `DeviceControl`, `LibC` |

Definitions under a heading "Slips" or marked "slip" are mistakes that could plausibly be made in the code. They are
not part of the model: the mutants of `PROJECT.json` put each in the place of the definition it resembles, to show
that a property notices.

### TQueue

The variables are the fields of `vpk_tqueue`; `pc`, `data` and `ret` are the program counter, the buffer behind the data
pointer and the `ret` of each thread's call. One action is the code between two points at which another thread can
tell the difference: lock, the test for a full ring, the update of the ring, `sem_post`, unlock; the semaphore call,
which may succeed, block or fail, lock, the copy, unlock. The semaphore is taken without the mutex. A blocked wait may
fail although the semaphore is not 0, because a timeout or signal is decided before the post. Elements are opaque:
`data_size` and byte offsets are abstracted. Slots and buffers start with arbitrary content (`malloc`).

`BoundedFifo` has no ring and no semaphore: `Put` and `Take` act on a sequence. The refinement mapping reads the queue off
the ring (`Fifo`), groups program counters into phases, and shifts `ret`: a write takes effect when the ring changes
(before its `ret` is set), a read when the element is copied (after its `ret` is set).

### MinHeap and HeapUse

Positions count from 1 and 0 stands for the code's -1, so that the array is a sequence. The loops of the three shifts are
recursive functions over the positions of the hole. `key` is a parameter: deadlines in the timer, anything in `vpk_heap.h`,
whose code is the same up to the comparison. `HeapUse` calls the operations in any order on six elements.

### TimerEvent

One thread runs everything: before the loop (`pc = "setup"`) and inside callbacks the user may add and delete events; the
rest is `vpk_timer_loop` cut wherever the clock is read or a callback can run. `Tick` is enabled in every state, so any
step may be late. The two halves of `ev_flags` that matter are TIMEOUT (in the heap) and ACTIVE (in the active queue).
`ReAddActive` and `ReAddPending` name the events that users add while those are still active or pending; the code does
not refuse it, and section 5 shows what then happens. `vpk_timer_destroy` is possible before the loop only, since
the loop never returns. Sleeping 5 seconds without events is passing time. With an empty heap `tv` keeps what it held, as
in the code, and starts uninitialised.

`TimerQueue` has no heap, flags, counters or loop. `Collect` takes every event that was due at some moment and lines them up by deadline, in one step, where the
code moves the top of its heap until it is not due; the refinement mapping therefore counts the events that `timeout_process` has moved as waiting
until it is done (`Waiting`, `Ready`). Deleting an event removes it wherever it is, and a callback that begins puts its persistent event back, within one
interval. Who may call what, and when, is left to `TimerEvent`.

### WatchDog

Each process runs through lock, critical section, unlock, sleep. The watcher's `dog--` is a load and a store, since only the
semaphore makes it atomic. `semadj` is what the kernel adds when a process dies (`SEM_UNDO`); `SETALL` clears it for every
process. `Crash` is possible in every state of a process. Time passes in seconds; `late` counts for how long a
process has been able to run without doing so, and `Slack` bounds it. The kernel side is external: it is modelled as
`semop(2)` and `semctl(2)` on Linux describe it. `StoppableSpec` adds that a process may be stopped and resumed while it waits.

### EventQueue

`mq` is the queue of the kernel, `exists` whether anybody has created it. Each process has a program counter, the rights of its
descriptor, the event it posts from or receives into, and what its last call returned. A message is a number and the base in
which it is written, and `HEXSTR_PARSE` takes four characters of it as hexadecimal digits, as the code does. `platform` is
chosen once. On nt966x only mode "a" creates the queue, the mode limits the descriptor, and `mq_send` of 16 bytes into a queue of 12-byte
messages is refused: nothing a program posts arrives, and receivers see the codes of the firmware (external, in hexadecimal). Blocking
calls may be interrupted. Processes may leave in any state; the queue stays.

### Serial

One action per system call of the loops. The device numbers its bytes, so that order, loss and repetition show; it sends whenever it
likes, also between two reads. `select` fails, times out or finds something, and a line that has hung up is always readable and
gives 0 bytes. `buf` is a function on the places that have been stored to, wherever the pointer stands. `passed`, `waited`, `budget` and `tx` are
ghosts: the stream so far, the seconds waited, the timeout asked for, and the places of the buffer that the device has accepted.

### DeviceControl and Sessions

A client creates an action object, executes menu commands that set or get an item, or others, and destroys it or dies at any point of
an execution. The settings file is read as a whole; `json_dump_file` empties it and then writes it, which are two actions. Each step can fail, and nothing
that calls it looks at the result: a file that cannot be loaded (`Load` with `NULL`) makes a set do nothing, one that cannot be opened for writing stays as it is
(`OpenFails`), a full disk leaves an empty or partial one (`DumpFails`), and 0 is returned in each case. The ghosts note what each set has stored, which sets overlapped, and
whether a dump was cut short or met another. An unknown type is refused (`ParamRefused`), and a missing information file ends the client (`NoInfo`: it is mapped to `NULL`, from which
is copied). `Sessions` adds the containers of the registry: `vpk_system_init` may be called again, until a container is full, and a session uses the
operations that `vpk_find_cdevice` gives it.

### LibC

A call of `SystemEx` is: signals shut out, fork, looks at the child (ten per second) with naps between them, and the end by status, by kill, or by a `waitpid` that
finds no child any more (`StatusLost`). `mysystem` makes a temporary file, runs the command, reads at most as much of the file as the buffer holds, and runs `rm` by
the same function. The child runs next to its parent: it starts (and empties the file it is redirected to), writes byte by byte, and ends at any moment, by itself,
with an exit code, or of a signal. `status` is 0 or 1 for any of the others, and goes back to the caller as it is. `rm` removes the files of all callers one after the other, because the pattern of
`sscanf` takes hardly any letter. A file is the number of its bytes. The ghosts `wrote` and `exit` say what the caller's own command has written and ended with, whatever has become of the file.
`sigaction` and `sigprocmask` (lines 110-117, 138-143) do not fail, since their arguments are constants and addresses that are always valid.

### MakeDirs, FileMap, Download

Each system call of `vpk_mkdir_mult` is an action, and other processes create, rename and remove files and directories between any
two. The loop of `vpk_mkdir_mult` is bounded by the length of the path as it was passed, so `last` is the component before its last slash. `vpk_mmap_save` empties
the file and writes it in pieces, and may break off; `vpk_mmap_create` measures, with the size of the file going through an `int` (`FileSize`), and then allocates and reads.
Sums of sizes are modulo `SIZE_T`, and so is the `size + 1` that is allocated: for a size of -1 it is 0, and `fread` runs over the end of the block,
which a small file may survive (`MapReads`) or not (`MapFails`, which is also the case of no memory). `http_download` measures the local file, opens it for appending, and receives the rest in any pieces; network and server may fail
anywhere and the process may die, which loses what has not reached the disk.

### Programs

The parts have no variable in common, so a state of `Programs` is one state of each, of which one moves. It lets one run check them together
and be sure that nothing a part does depends on another; the theorem `ProgramsUseParts` says that each part's behaviours are unchanged.

## 3. What the runs check

| Run | Instance | Properties |
|---|---|---|
| `tqueue` | 2 writers, 2 readers, 2 elements, 2 slots; 419,600 states | `TypeOK`; `SemaphoreCountsElements`: stored = counted + about to be posted + claimed; `ClaimFindsElement`: a read that passed the semaphore finds an element; `CursorsAgree`; `NoElementLost`: nothing unread is overwritten; `ImplementsBoundedFifo` |
| `tqueue_live` | 1 writer, 2 readers, 2 slots | `EveryElementDelivered`, `WriteReturns`, `BoundedReadReturns` |
| `timer` | 3 one-shot events, 1 persistent, delays 1 and 2, clock to 3; 1.7 million states | `TypeOK`, `QueuesAgree`, `HeapInOrder`, `ActiveInDeadlineOrder`, `NoneOverlooked`, `SleepsUntilNext`: no sleep reaches over a deadline, `ImplementsTimerQueue` |
| `timer_live` | 1 one-shot event, 1 persistent, delays 0 to 2, clock to 4 | `EveryDeadlineMet` |
| `watchdog` | 1 feeder, 1 watcher, all 256 values of the counter, 2 seconds of slack; 54,818 states | `TypeOK`, `MutualExclusion`, `SemaphoreAccounts`, `FeedNotLost`, `NoFalseAlarm`, `DeathNoticed` |
| `programs` | see the bounds; 189,824 states | event queue: `FaithfulDelivery`, `BlockedPostReturns`; serial port: `NoOverrun`, `StreamKept`, `ReadInTime`, `WritesPrefix`, `ReadReturns`; files: `SlashedDirsMade`, `MappedIsRead`, `LocalIsRemote` |
| `services` | heap: 6 elements, keys 1 and 2; device control: 2 clients, 2 items, 2 values; commands: 2 callers; 2.1 million states | heap: `OrderKept`, `PositionsKept`, `PopsLeast`; settings: `SettingsThere`: they are unreadable only while they are written, until a dump is cut short or meets another, `SetIsStored`: what a set has stored stays until the item is set again; commands: `SystemExIsOver`: no child, no deaf signals, no early timeout, `OutputOrFailure`: an answer other than -1 is the caller's own output, as much as the buffer holds |
| `timer_readd_pending`, `watchdog_restart`, `watchdog_interrupt`, `watchdog_wrap`, `make_dirs_unslashed` | | section 5 |

### Bounds

- Thread queue: with two slots the ring is empty, partly full and full, and both cursors wrap. Two readers can both be between
  semaphore and mutex while two writers fill the ring. The proofs remove these bounds.
- Heap: six is the least number of elements for which erasing makes the replacement move up (it must come from
  the other subtree and be less than its new parent), and two keys are enough for that; with six elements there are ties. The proofs have any keys.
- Timer: four events make a heap of three levels; `MaxTime` stops the clock, which leaves two intervals of the shortest persistent
  event to be missed. Deadlines beyond `MaxTime` exist and never come due. Events of one kind are symmetric; the liveness run uses
  no symmetry. There, delays of 0 occur, and a sleep that has begun lets the clock go on for `Oversleep` more, which is enough for any sleep the loop should make (a delay of at most 2 computed
  at 4 at the latest); an uninitialised `tv` is 0 or 100, and the latter is as good as for ever.
- Watchdog: the counter has its full width. The slack of 2 seconds is far above what an idle system shows and far below the 10 or so
  that the constants 20, 5 and 5 tolerate: 9, as the proof shows. Two feeders that take turns in dying can starve a third; one is what the
  program has.
- Programs:
  - event queue: one program posts and two receive, on either platform; the codes are an alert (or a notice of the firmware) and one of no
    family, so that an event can keep what it held; `MaxPosts` 3 fills the queue of 2 and blocks the third;
  - serial port: reads and writes of 0, 2 or 3 bytes, a device that sends 3, timeouts -1, 1 and 2: a read is complete in one, two or three
    pieces, or in none, and bytes are left for the next;
  - the registry has 1 place, so that the second initialisation finds it full; one client and one caller, since clients and callers among themselves are in `services`;
  - directories: two makers, a path of two names, with and without its last slash;
  - mapping: sizes 2, 5 and 9 with `INT` 8, so that 5 is negative and 9 is cut to 1, offsets 0 and 2, `SIZE_T` 32 with -1 = 31, two saves;
  - download: two bytes, any number of attempts.
- Device control: with two values, an item can be set to the value it has, which dumps nothing, or to another one; with two items, one client can overwrite
  what the other has made of another item.
- Commands: timeouts 0 and 1, one look per second; `UINT` 3, so that "for ever" is two looks; an output of up
  to two bytes for a buffer of one. Real values are covered by the proof.

### Fairness

- `TQueue`: a running thread runs on (weak fairness of each thread's steps), a timed wait ends, the mutex is granted to a
  thread that finds it free again and again (strong fairness: critical sections are a few instructions and threads
  sleep between calls). Readers keep calling read, as in `tqueue_demo.c`; nothing makes a writer write, and a wait without
  timeout need not end.
- `TimerEvent`: the thread runs, callbacks return, time passes, and `select` ends when its time is up and need not end before. Signals need not arrive.
  The bound of the clock ends no `select`: a sleep that is too long has no end, and `EveryDeadlineMet` then fails for the events it sleeps over, as the mutant that keeps a stale
  `tv` shows.
- `WatchDog`: living processes run and time passes; the watcher gets the semaphore if it is free again and again (System V
  semaphores queue their waiters). Nothing has to be started or to die.
- `Programs`: a read of the serial port that is under way goes on (`ReadGoesOn`, weak); the device need not send. Posters and receivers that run
  go on, and open the queue again when that failed, as their loops in `sample_mq_send.c` and `sample_mq_recv.c` do (`GoesOn`, weak); the
  kernel wakes a blocked sender that finds room again and again (`PostSent`, strong: Linux queues them). With one poster nobody overtakes it, so that posters
  do not starve each other is an assumption on the kernel and not a result. Nobody has to post, to close or to die.
  `BlockedPostReturns` assumes in its statement that some receiver stays.

## 4. What is proved

### TQueue_proofs

For any finite sets of writers and readers, any elements and any `DataNum > 0` (`TQueueAssumption`):
`TypeCorrect`, `SemaphoreAccounting`, `SuccessfulReadDelivers`, `CursorsInStep`, `ElementsKept` and `RefinesBoundedFifo`.

The inductive invariant is `IInv == TypeOK /\ MutexInv /\ SemaphoreCountsElements /\ CursorsAgree`. `TypeOK` alone is not
inductive: `curr_len` stays at or above 0 only because a reader in `read_copy` holds a unit of the semaphore, which is what
`SemaphoreCountsElements` says, and `queue_sem` stays at or below `DataNum` only because it is part of a sum that is `curr_len`.
`MutexInv` (a thread is in its critical section exactly if it owns the mutex) keeps the test of `curr_len` valid until
the ring is updated. The equation is about the cardinality of two sets of threads; each action moves at most one thread in or out of
them, and a lemma says that the other actions leave both alone. `CursorsAgree` is needed for the refinement: with it, a write
appends to the sequence read off the ring and a read removes its head. Each action of `TQueue` maps to one action of
`BoundedFifo` or to a stutter, one lemma per case.

### MinHeap_proofs and HeapUse_proofs

For any elements, integer keys, and heaps of any size: `OrderIsKept`, `PositionsAreKept`, `PopIsLeast`. The invariant is `IsHeap`:
positions and array are inverse to each other, and no element is less than its parent.

The three shifts are recursive functions over the place of the hole, and what they compute takes an induction. The induction theorems of
the library have an operator for a parameter, which the provers cannot instantiate; `RankInduction` states the same about a *set*: if a
set contains every place whose predecessors it contains, it contains all places. It gives first that the recursive functions exist and satisfy their
equations (`ShiftsExists`), then, with the set of places from which a shift does what it should, what they do to the contents (`Shifted`, `Settled`: the
elements stay the same and know their positions) and to the order (`Rising`: on the way up only the hole and the places below the last move can be out of
order; `SinkingAll` for the way down). `Pushed`, `Adjusted`, `Erased` and `PopIs` conclude for the operations; erasing has most to show, since the element
that fills the hole comes from elsewhere and may have to go up or down. `TopIsLeast` is one more induction, from each place to the root.

### TimerEvent_proofs

For any events, delays and length of time: `TimerTyped`, `QueuesAlwaysAgree`, `HeapStaysInOrder`, `CallbacksInOrder`, `NothingOverlooked`,
`NeverSleepsOver`, `RefinesTimerQueue`, provided that (`AddedOnce`) no event is added while it is pending and no persistent event while it is
active. A program can break this, and then the properties fail: in both cases a deadline changes under the heap, by `event_add` in the first and when
`event_process_active` re-arms an event that is in the heap again in the second. The run `timer_readd_pending` shows what follows, so the assumption is one on
the callers that the code needs. Adding a one-shot event that is active is allowed.

The invariant has the heap of `MinHeap_proofs` over the deadlines (`HeapAgrees`), each event of the active queue once, exactly those with the flag
(`QueueAgrees`), both counters (`Counted`), the order of the active queue among the events that are not pending again (`Due`), and, for that order to
last, that while `timeout_process` takes events off the heap nothing pending is due before anything active (`Stages`). A deadline changes only while its
event is out of the heap, and the order does not depend on the keys of what is outside (`OtherKeys`). `NothingOverlooked` is where the order of the
heap matters: the loop looks at the top only, and `TopIsLeast` says that the rest is later. `NeverSleepsOver` needs it again: the sleep is computed from the top.

`RefinesTimerQueue` takes each step to a step of `TimerQueue` or a stutter: moving one event is a stutter, and the end of `timeout_process` is `Collect`
(`ExpireDoneIsCollect`). There the invariant says that what is active was due and is in order, and the heap that what is pending was not. Re-arming is `CallAgain` because
the deadline of a persistent event that runs is past (`Due`).

### WatchDog_proofs

For any number of feeders, with `StartedOnce(w)` (one watcher, not started a second time) and no process stopped while it
waits: `TypeCorrect`, `LockExcludes`, `DeathGivesBack`, `FeedsCount`. The inductive invariant says that the semaphore is 0 and
nobody is past P until the watcher starts, and from then on that it is 0 with one holder or 1 with none; and that the kernel
would give back exactly what each process holds. The last part is what makes it survive a crash. Both assumptions are
necessary, as the violation runs show.

`NobodyReportedAlive`, for one feeder (`InTime`): the watcher does not report a feeder that lives and has fed, if either process may be late by up to 9 seconds. The
invariant (`FedInv`) is a budget. After a feed the counter is 20. Until the next, each decrement is paid for by a second of the watcher's
sleep, during which it does not hold the semaphore, so that the feeder either sleeps one of its 5 seconds or uses up one of `Slack`; but for one decrement, which may come
at once because the watcher was already awake (`Next1`). So the counter is at least `5 + Next1 + asleep + (Slack - late)`. The bound is exact: with
a slack of 10 TLC finds a false alarm.

### Sessions_proofs

The serial port, for any settings, sizes, timeouts and any bound on what is sent: `ReadStaysInBuffer`, `StreamIsKept`, `ReadWaitsInTime`, `WriteSendsPrefix`. What
makes them inductive (`SerialInv`) is that pointer and count agree and, with what is free, add up to the size of the buffer (`NoOverrun` needs `ptr = count` at every
step of the loop), and that the seconds waited and the rounds left stay within the timeout while it is positive.

The device control, for any clients, items and values that are not the marks of a missing, empty or unset thing (`DeviceControlAssumption`): `SettingsSurvive` and `SetsLast`.
Clients that set at the same time are all crowded, so one that is not has loaded the settings as they are and finds them so when it
writes (`CrowdInv`, `AloneInv`); a load that fails gives it nothing, and then it writes nothing. What makes it last is `CarriedInv`: whoever is about to write, crowded or not, has loaded every item that was made
before, since an item is forgotten when it is set again and noted only by a setter that was alone. Until two dumps meet, the writer is the only
one and the file is empty while it writes (`DumpInv`). A dump that cannot open the file changes nothing; one that breaks off later is what both theorems except (`wrecked`).

### Files_proofs

`MappedIsWhole`, for any widths of `int` and `size_t` and any files and offsets (`FileMapAssumption`: an `off_t` can say their sizes, `int` is not wider than `size_t`): a loader that
nobody has overtaken finds the file as long as it measured it, if an `int` can hold that, and then the sum in the length does not wrap for offset 0 or a piece inside the file. For the
rest it is false (section 6). `DirsAreMade`, for any paths that are closed under prefixes and any number of makers (`MakeDirsAssumption`).
The tree is closed under parents (`TreeInv`), so the last directory that a call has found there or has made stands for all above it; and what a call has
looked at is still so when it acts on it, or was meddled with (`CallInv`): without this, a file put in place between `access` and `mkdir` would be a
failure without a reason.

For any number of callers, any outputs and buffers, and any `POLLS`: `OutputIsOwn`, and `NothingLeftBehind` for timeouts whose product does not wrap (`NoOverflow`; otherwise a command is killed too
early). The invariant (`CommandInv`) follows a call through its program counter: naps taken and looks left add up to `Looks(limit)`,
there is a child only while the call waits, signals are deaf only inside a call or after a failed fork; and as long as a
caller's file has its name it holds what the caller's own child has written, since others can only remove it. A caller whose file was removed finds none, and one whose child has not ended has no
status, so neither takes a piece for the whole.

`DownloadIsExact`, for a remote file of any size: the local file is the beginning that has been found plus what has been received, so
the next byte written is the next of the remote file; a success comes at its end only.

### Programs_proofs

`DeliveryIsFaithful`: for any processes, codes, queue size and choice of platforms, `FaithfulDelivery` holds if every code has four hexadecimal digits
(`CodesHaveFourDigits`), which `main/sample.c:101` says and all codes of `vpk_ieventq.h` have; a shorter one would be read with digits of 0 behind it. The invariant is
that whatever is in the queue is hexadecimal, since nt966x, which would write decimal, accepts no post of a program, and that a process that waits has cleared its event.
`ParsesWhatIsWritten` is the arithmetic: four digits, taken off by division, make up the number again.

`ProgramsUseParts`, `ProgramsUseSerial` and `ProgramsUseControl`: every behaviour of `Programs` is one of each part's own specification (each step of the
composition is a step of one part and a stutter of the others). `ProgramsDeliver`, `ProgramsKeepStream`, `ProgramsKeepSettings` and `ProgramsKeepFiles` carry the
theorems about the parts over to it, so every safety property of the run `programs` is proved of the specification that it checks.

### Left to TLC

Every safety property of a passing run is proved. Liveness (`EveryElementDelivered`, `WriteReturns`, `BoundedReadReturns`, `EveryDeadlineMet`,
`DeathNoticed`, `BlockedPostReturns`, `ReadReturns`) is out of the prover's reach and is model-checked only. `NoFalseAlarm` is proved for one feeder; with several
that keep dying and coming back, the one that has fed may be starved of the semaphore, and it is false.

## 5. Findings

1. **`watchdog_wrap`** (`sample_consumer.c:651`). The watcher decrements an `unsigned char` past 0. If the feeder is dead it reports this in five
   rounds, then finds 255 and reports nothing for 250 seconds. If the feeder was never started it reports once.
2. **`watchdog_restart`** (`sample_consumer.c:642`). A watcher that is started again sets the semaphore to 1 even if the feeder holds it. Both are
   then in the critical section, and the feeder's V raises the semaphore to a value that excludes nobody.
3. **`watchdog_interrupt`** (`sample_consumer.c:608`, `649`). A failed P is logged and otherwise ignored.
4. **`timer_readd_pending`** (`timer_event.c:205`). Adding an event that is pending changes its deadline in place and leaves its position. The heap is
   then out of order, and `minheap_erase` of the last element may move the erased element up instead of removing it: the
   event stays in the heap with its flag cleared, and another one is dropped. If such an event comes due, the loop in
   `timeout_process` finds it at the top for ever.
5. **`make_dirs_unslashed`** (`vpk_ifilesys.c:118`). `vpk_mkdir_mult("a/b")` makes `a` only and returns 0, although lines 112-116 append the missing slash and
   `vpk_filesys.h:59` promises the whole path. `sample_filesys.c:175` passes "tmp", for which nothing is made.

## 6. Hazards

`PROJECT.json` lists the main ones at their lines with the properties that cover them. A hazard without a property is undefined behaviour that
the interface leaves to the caller (destroying a queue that a thread is blocked on, using a timer from two threads), something
the models abstract (memory, symbolic links), or a behaviour that the properties except. The latter are worth knowing, since the properties are stated so as to hold of the
code as it is. The models have them all, and some are at odds with a comment:

- a persistent event with a timeout of 0 is removed by its first activation (`timer_event.c:315`), although `vpk_timer.h:35` says that it "won't get removed automatically";
- on nt966x every `vpk_eventq_post` fails (`nt966x_eventq.c:268`);
- `vpk_serial_write` stops half-way when the device takes the bytes in pieces (`x86_serial.c:412`), and `vpk_serial_read` loses what it has read when
  `select` is interrupted (`x86_serial.c:356`);
- a set returns 0 whether or not it has been stored (`x86_nvtuctrl.c:124`, `136`); after a client died while it wrote the settings, or the disk was full, every later set does
  nothing and returns 0;
- `-gpsinfo` and `-getdevinfo` copy from a null pointer when their file is missing (`x86_nvtuctrl.c:177`, `215`);
- `mysystem` takes only a negative status for a failure (`vpk_libc.c:195`): what a command has written before it failed or was killed is returned as that of a success, although
  line 160 promises -1;
- ten times the timeout wraps in an `unsigned int` (`vpk_libc.c:100`): from 429496730 seconds on a command is killed long before its time;
- an output longer than the buffer is cut, and the number of bytes returned does not tell (`vpk_libc.c:206`);
- `vpk_system_exval` may report a failure for a command that succeeded, because another caller has removed its file (`vpk_libc.c:211`), and a
  failed fork leaves the signals shut out (`vpk_libc.c:120`);
- `vpk_mmap_create` with an offset and a size beyond the end has a `length` that has not been read (`vpk_mmap.c:68`); with -1 ("total file", `vpk_mmap.h:21`) and an offset the sum wraps,
  -1 becomes the `length`, and `malloc` is asked for 0 bytes;
- a file of 2^31 bytes or more is mapped in part or not at all where `long` is wider than `int` (`vpk_mmap.c:64`);
- `vpk_eventq_recv` gives 0 on x86, where `vpk_event.h:64` says that it is the length of the message;
- `http_download` keeps an error page other than that of 404, returns 0 for it and resumes behind it (`sample_download.c:281`).

## 7. Plan

What is left, in this order:

1. **vpk_event_assign of a pending event**, as an action of `TimerEvent`.
2. **Algorithms**: `selection_sort` and `vpk_bsearch` against their definitions over small inputs; the search's loop invariant proved, and with
   `RankInduction` the sort.

## 8. Not modelled

- `vpk_tqueue_destroy`: freeing what other threads use is undefined; the caller must stop them first.
- Allocation failure (`minheap_reserve`, `calloc`), and the sizes and offsets in bytes.
- A timer used from two threads: the places for locks are empty comments, so this is a data race.
- The text of the replies of the device control, and `nt966x_nvtuctrl.c`, which hands commands to a library of the firmware.
- What a shell command starts in its turn: `SystemEx` kills the shell only, and a command that outlives it may go on writing. Symbolic links and permissions. A remote file that changes. Two sessions
  on one serial port.
- `vpk_object.c`, `vpk_session.c` beyond the registration, the platforms' tables: no behaviour of their own. `vpk_logger.c`, `vpk_util.c` beyond
  `vpk_hex_to_int`: formatting and output. `vpk_md5.c`: third-party arithmetic. `vpk_enumerate` and the path strings of `vpk_ifilesys.c`.
- The samples that only call into the library or into third-party ones (strings, JSON, SQLite, sockets, MD5).
- `src/mips`, `src/x86`, `src/nvt`, `src/solution`, `vpk_list.h`: vendored libraries and headers (SQLite, curl, zlog, the configuration of the firmware) and build files. They
  are most of the lines in the repository.
