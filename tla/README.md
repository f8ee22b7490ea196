# A verification model of camera-8127-gvss

The repository is the result server of a camera: an image-processing algorithm,
a process of its own, announces results over a System V message queue and stores
them in shared memory; the server copies each result for a PLC (TCP port 8900)
and for a client program (TCP port 9800). `src/src` is the application,
`src/interface` the library (`OSA_*`) it is built on. The repository has no tests
and no documentation to speak of (`src/README.md` is a title), so the code and
its comments are the reference.

Everything here is TLA+: one module per component, modules that compose them, TLC
configurations for small instances, and TLAPS proofs. `PROJECT.json` lists
components, runs, hazards, theorems, and for every definition the lines it models.

    tlc -workers 2 -config GvssSafety.cfg MCGvssSystem.tla     # one run
    tlapm GvssProofs.tla                                       # the proofs; also
                                                               # GvssResultProofs, GvssSessionProofs,
                                                               # OsaQueProofs, OsaExchangeProofs,
                                                               # OsaLibProofs, ErrLogProofs

## 1. Inventory

### The application (`src/src`)

| component | state | operations | correct when |
|---|---|---|---|
| shared object `AlgObj` (`main.h`, `main.c:33-184`) | two target flags under the semaphore `hndl`; a free and a full queue of `MAX_QUE_NUM` frames per target; queue and shared-memory ids | `SetEnv`, `AppClient_On/Off/Start/Stop/Quit` | no frame is lost or in two places; no result is queued for a target that is off |
| main thread (`main.c:187-317`) | `msgbuf`, `pData`, the frame in its hand, `eCount`, `isQuit` | receive, read shared memory, copy for PLC and client, reply; leave the loop | it copies what was announced, answers every request, and ends |
| PLC server (`gvssApp.c`), client server (`gvssClientApp.c`) | quit flag, `isQuit`, connection, the frame in hand, the formatted message | accept, on, poll the full queue, format, give the frame back, send (the PLC answers), off, close | results in order, at most once, over all sessions; sessions drain; a ctrl-c ends the process |
| connection (`gvssProtocol.c`, `osa_socket.c`) | two descriptors per server | init, accept, send, recv, state, close, exit | no use of a closed descriptor, whole messages |
| result formats (`gvss_type.h`, `gvss_dataFormat`) | none | block lists into messages of fixed size | stays inside the buffer, sizes agree |
| result log (`log.c`) | open file, names, sizes, a semaphore | open, write, rotate, flush, exit | limits kept, nothing overwritten, no file used after it is closed, what was written leaves stdio's buffer, nobody waits for ever |
| log daemon (`log_deamon.c`) | `gLogDeamonQuit`, hours | flush every half hour, run a script every few hours | ends when told; runs when due |
| requests to save (`gvssApp.c:155`, `main.c:234`) | `algSave`, `saveCnt` | set by the PLC's thread, counted down by the main thread | a request gets its results |
| remote debug (`remote_debug_msg_drv.c`) | a socket, a semaphore | `Remote_printf` (no caller) | |

### The library (`src/interface/src`)

| component | state | operations | correct when |
|---|---|---|---|
| `osa_que.c` | ring, two indices, count, mutex, two condition variables | create, put, get (wait or not) | a FIFO; no wakeup lost |
| `osa_sem.c` | count, maximum, mutex, condition variable | wait, signal | never above the maximum; no signal lost; guards exclude |
| `osa_event.c` | 32 flags, mutex, condition variable | set (AND/OR), retrieve (AND/OR, consume, timeout) | what is reported is what is set and enough for the request; waiters are woken; a consumer takes what it asked for |
| `osa_buf.c` | buffers in an empty and a full queue | get, put, switch | each buffer in one place |
| `osa_msgq.c`, `osa_mbx.c`, `osa_tsk.c` | two queues per task, messages and parameters on the heap | send, broadcast, wait, answer, flush | no leak, no double free; each call gets its answers |
| `osa_pipe.c` | kernel pipe, message and byte counts | create, write, read, delete | counts agree with the pipe, descriptors 0 to 2 are avoided |
| `osa_list.c` | a global list, semaphore | insert, walk, remove, delete | elements in order, none lost or reached after it was freed |
| `osa_msg.c`, `osa_shmem.c` | System V ids | send, receive, read, write | (thin wrappers) |
| `osa_thr.c`, `osa_mutex.c` | pthread objects | create, join, delete | (thin wrappers) |
| `osa_socket.c`, `osa_eth_*.c` | sockets | send and receive loops, options | whole messages |
| `osa_file.c`, `osa_prf.c` | none, counters | chunked read and write; sums of times | the size asked for, failures reported |
| `osa.c`, `osa_serial.c`, `osa_i2c.c` | devices | signals, time, `/dev/mem`, `ioctl` | (I/O) |

### How they interact, and what is hard

- Algorithm and main thread: messages by type (`MSG1` to the application, `MSG3`
  to the algorithm) and a shared memory the algorithm writes and the main thread
  reads. Nothing but the reply protects a slot.
- Main thread and server threads: the frame queues (locked one operation at a
  time) and the target flags (under `hndl`, which the main thread holds from its
  test to its last put). A server gives a frame back before it sends from its copy.
- Frames stay queued when a session ends, and go to the next session's peer.
- Peers connect, vanish and stall at any moment; `send` and `recv` then fail or wait.
- SIGINT runs one handler per process, although each server thread installs its
  own; it interrupts `accept` and `msgrcv`.
- The process ends by a round trip: a server's `DELETE` to the algorithm, its echo
  to the main thread, the daemon's flag, three joins.
- Condition variables: one signal, several waiters, late arrivals that overtake a
  woken thread, wakeups without a signal.

- Descriptors are numbers the whole process shares: a closed one is soon another
  thread's, and the server threads keep numbers they have closed.
- SO_ERROR is cleared by whoever reads it, an orderly close sets none, and a send on
  a dead connection brings SIGPIPE, which nobody handles.
- The error log belongs to four threads: the main thread writes it, the daemon
  flushes it, two server threads take down its semaphore when they leave. A wait for a
  semaphore that was never made (`log_init` failed, which nobody looks at) never ends,
  one for a destroyed semaphore may never end, and behind the main thread's wait stand
  the algorithm's answer and the end of the process.

`PROJECT.json` lists the hazards at their lines, each with the properties that would
catch it going wrong or the reason why none does.

## 2. The modules

    BoundedFifo     what a queue promises
    OsaQue          the ring with its condition variables; implements BoundedFifo
    OsaSem          the semaphore, alone and used as a guard
    OsaEvent        the event flags
    OsaBuf          the buffer exchange, on the queues OsaQue implements
    OsaMbx          tasks and mailboxes, on the queues OsaQue implements
    OsaPipe         the pipe's descriptors, and its count beside the kernel's pipe
    OsaList         the global list, over addresses that come back
    OsaFile         whole files, chunk by chunk

    AlgObj          the shared object: frames, flags, messages, shared memory
    ProcMsg         the main thread                         (EXTENDS AlgObj)
    ServerThreads   both server threads                     (EXTENDS AlgObj)
    GvssSystem      all of it, with the algorithm process, SIGINT, the daemon and
                    the waits for the log's semaphore
    ResultChannel   what the application promises one peer
    GvssSession     the server threads' network side: descriptors, TCP, SIGPIPE
    PlcMessage      the message to the PLC, word by word
    ErrLog          the error log, the requests for it, the daemon, the leavers
    CronSchedule    when the daemon runs its script
    GvssProofs         theorems about the application's frames and flags
    GvssResultProofs   ... that follow single results
    GvssSessionProofs  ... about connections and descriptors
    ErrLogProofs       ... about the error log
    OsaQueProofs       ... about the ring
    OsaExchangeProofs  ... about what threads hand each other: buffers, event
                       flags, mailboxes
    OsaLibProofs       ... about the small parts: semaphore, cron, message to the
                       PLC, pipe, list, files
    QueueLemmas        what these proofs need of sequences
    MC*             what TLC needs: symmetry sets and named constants

**One step.** In the library modules an action is a critical section: from the lock,
or the return of `pthread_cond_wait`, to the unlock or the next wait. In the
application an action is what a thread does between two calls another thread or
process can observe. `AppClient_On` and `AppClient_Off` are two steps, one that takes
the semaphore `hndl` (`AppClient_Enter`) and one that sets the flag and gives it back; the
main thread's section has a step for every queue operation. `GvssSystem` uses the queues
as bounded sequences: `OsaQue` is shown to be one (`FifoSpec`), and `OsaSem` to
exclude (`Guarded`).

**Names** are the code's. `msgPc` and `srvPc` say where a thread stands; `msgFrame`
and `srvFrame` are `pEmptyFrame` and `pFullFrame` while the thread owns the frame;
`quit` is `gGvssQuit` and `gGvssClientQuit`, `srvQuit` the local `isQuit`. The two
server threads have one shape, so one set of actions takes the target as a
parameter; only the PLC's thread has the step `recv`. (The
client's thread puts the PLC's flag behind the last block, and would send zeros for a result
larger than `Gvss_Result_Str`, `gvssClientApp.c:104-115`: contents, which are left out, and
a size that `pData` has no room for, which is taken not to be announced.) An operator whose comment
begins with "Variant of" is a wrong version of its neighbour, listed under
"mutants"; no specification uses it.

**Data.** A result is its number in the order of production; a slot is the offset
of a result in the shared memory, and sizes are numbers just large enough to pass
or fail the size test of `main.c:252`. In `GvssSystem` the contents of the messages are
left out; what `gvss_dataFormat` puts where is in `PlcMessage`, and what the byte the
PLC answers with sets off (`algSave`) is in `ErrLog`.

**The message to the PLC.** The variable `info` is a `GvsstoPlc` of 314 bytes
(`gvssApp.h:19-24`), and `memset` (`gvssApp.c:126`) clears these. `gvss_dataFormat` writes
position and distance at bytes 320 to 327 (`:57`, `:64-65`), behind it, and `send` (`:140`)
takes 400 bytes from where it begins. This is so for every result, with any number of
blocks. `PlcMessage` has the 400 bytes as words and tells the variable's own (`InfoWords`)
from those behind it (`Behind`): the latter hold anything at first, keep what they have
over a `memset`, and may be written to by others between the formatting and the send
(`Takes`). What the others suffer is not in the model, for it depends on the stack.

**Two views of a server thread.** `ServerThreads` has frames and queues and lets the
network do anything; `GvssSession` has descriptors, the peer's side of TCP and the parts
`send` takes, and lets a frame be there or not. The steps of a session are the same in
both. In `GvssSession` `peer` is what the other end did ("fin": closed its side,
"silent": vanished without a word), `soError` what the kernel holds for `getsockopt`,
`table` the process's descriptors, which the log's files share; a descriptor that was
closed and given to somebody else is just an entry the number now means.

**The log.** `ErrLog` has the file's life in `mainPc` ("write": in `logfile_write`,
"fwrite", "closing" and "closed" around `fclose` and the pointer), the daemon's in
`deamonPc`, and of a server thread only its end (`log_exit`). `file` is what stdio has
handed to the kernel, `buffered` what it still has; `fflush` does no more than that, and
when the kernel puts it on the device is not modelled. Whether a result is written at all
depends in the code on a variable that is never set (`log.c:389`): `SkipWrite` is always
possible. `algSave` is tested in one step and cleared in a later one, since nothing keeps
the PLC's thread from setting it in between.

Two things can become of the log's semaphore. `log_init` may fail, which nobody looks at
(`main.c:96`): it then stays as zeros, no signal raises it, and a wait for it never ends.
And `log_exit` destroys its mutex and condition, under whoever waits for it; a wait that
stands or comes then may end, alone or with others, or never: the model allows both
(`CanEnter` lets it go on, no fairness makes it). `GvssSystem` has the same two waits
without the file: the main thread's after a save that fills a file (`CloseErrLog`) and the
daemon's in every turn (`DaemonFlush`), with `logHndl` as "ready", "none" or "deleted". The
properties of what must happen name these waits (`ProcHangs`, `DaemonHangs`, `SaveHangs`,
`DeamonHangs`) as the only ones that may last for ever.

**The pipe and the list.** A count that is changed without a lock is read in one step and
written in another (`LoadCount`, `StoreCount`). An address is given out again after it was
freed; a pointer that outlived its element is in `stale`, and when one is followed the
behaviour ends (`followed`), for nothing can be said of what comes then. Creating a pipe is
one step with its net effect on the descriptors: nobody else opens any meanwhile, and a
`close` of a pipe's own descriptor does not fail, so of the error paths only those behind
`malloc` and `pipe` are there (`CreateFails`).

**The mailboxes.** `OSA_msgqSendMsg` allocates its message before it waits for room; the
model does both at the put (`SendNext`), for until then nobody but the blocked sender has
the address, and it neither gives up nor frees it.

**The environment** (marked external in "map"). The algorithm is modelled from the
messages `main.c` expects and sends: it starts on START, stores a result in a slot
no unanswered message announces, and echoes DELETE before it ends. The network may
do anything at any time: accept, refuse, break, fail.

## 3. The runs

Bounds are named constants: `MaxResults`, `MaxSessions` (for each target) and
`MaxSignals` limit how often the environment acts, `MaxErrors` is the code's 3,
smaller.

| run | bounds | shows |
|---|---|---|
| osa_que | 3 threads, ring of 2, 2 values | `RingConsistent` (indices, count and contents never drift apart), `NoLostWakeup`; the ring implements `BoundedFifo`, every reply included; `ReadersServed`: values and sleeping readers do not stay together |
| osa_lib | see below | the small parts, each by itself; `active` says which |
| osa_buf_event | 2 writers, 2 readers, 5 buffers, stamps up to 2; 2 threads, 2 flags | `BuffersOnce`, `ReaderUndisturbed`; by itself, with every operation and timeout, `RetrievedWhole`: what is reported is all that is set, asked for or not, and enough for the request, and a consumer leaves none of it to others; `AloneServed`: setting the flags a lone waiter wants wakes it |
| osa_event_together, osa_event_report, osa_event_mask | 2 threads; 1 thread; 1 thread | three comments of `osa_event.h` the code does not keep (below) |
| gvss_safety | 2 frames, a slot that fits and one that does not, 1 result, 1 session of the client, 2 SIGINTs | types; `FramesAccounted` (the size test's leak is the only one); `MessagesBounded`: `msgsnd` never waits |
| gvss_delivery | 2 frames, 2 results, 2 sessions of the PLC | `InOrderAtMostOnce` over sessions, `AnnouncedResult`, `FrameOwnedOnce`, `QuietWhenOff`; `Channels`: each peer's part implements `ResultChannel` |
| gvss_liveness | 1 frame, 1 result, 1 session of the PLC, with the log and without | `RequestsAnswered`, `SessionDrains`, `ShutdownCompletes`, each but for the log's waits |
| gvss_ctrl_c | 1 SIGINT | a ctrl-c need not end anything (below) |
| session | both threads, 1 session each, 6 descriptors, messages of 2 parts, 1 SIGINT; the peers of one thread at a time go away | `MessagesWhole`, `KilledOnlyInWindow` (SIGPIPE only between a test and its send), `DescriptorsKept` (`LeavesNothingOpen`, and `ClosesItsOwn`: which foreign descriptors a thread can close, and when only) |
| err_log | 2 files of 2 units, records of 1 and 2 (and one refused), 2 old files, 2 minutes, a request of 2 results, 2 leavers | `LogFits`, `FlushesOpenFile`, `NothingOverwritten`, `RequestKept`; `LogGoesOn` (`WrittenIsFlushed`, `SaveReturns`, `StopIsSeen`: while its semaphore exists the log keeps nobody waiting) |

The run `osa_lib` puts eight small models into one: their variables stand beside each
other and in each behaviour only one part moves (`MCOsaLib`; `MCOsaBufEvent` does the same
with two). Nothing is shared, so its properties are those of the parts:

| part | bounds | shows |
|---|---|---|
| `OsaSem` | 4 threads, maximum 2, initial value 3 | used as a guard (until a thread waits inside or signals outside, `misused`) it excludes (`Guarded`) and a free guard with waiters is taken (`GuardTaken`) |
| `CronSchedule` | all hours of the day | `CronKeepsUp`: four hours never pass without the script, across midnight too |
| `PlcMessage` | results of 0 to 3, 49 to 51, 64 and 65 blocks (`Claims`), one after another; others write to all that lies behind `info`, to nothing or to a half of the position (`Takes`) | `MessageReadable`: for up to 50 blocks whoever reads the message by its own numbers finds each block, all within `info`; the position and the distance are there or what was written over them |
| `OsaPipe` | 1 writer, 2 readers, 2 messages, every set of open descriptors below 3, 1 interrupted read | `PipePlaced`; `CountServes` (`CountExact` and `ReadFindsMessage`): each true until two calls change the count at once, or two readers trust the same message |
| `OsaList` | 2 threads, 3 addresses, 2 elements | `ListKept` (`ListSound` and `KeepsOrder`): true until a freed element is followed |
| `OsaFile` | `Int32Limit` 8 (2^31 in the code), chunks of 2 and 3, files up to 8 | `FilesAsReported` (`ReadAsAsked` and `WrittenAsReported`) |
| `OsaMbx` | 3 tasks, 1 call each, queues of 1 | `HeapOwned` (no message block and no argument block is freed twice, or used after), `AnswersExpected`; `CallsReturn`, `FailureReported` |
| `GvssSession` | the client's thread alone, 2 sessions | `GonePeerNoticed`: with keepalive a session whose peer left ends, though this thread never receives |

**Why the bounds are enough.** A ring of two slots has every position of the indices,
and three threads are one that waits, one that signals and one that overtakes; four
make the semaphore's maximum of two matter. Two frames are the least with an order
in the full queue; two results over two sessions are the least where a stale frame
meets the next session. One thread has sessions in each run, the client's in `gvss_safety`,
the PLC's in `gvss_delivery` and `gvss_liveness`; the other comes and goes without a peer.
The two share the semaphore, the message queue and the main thread, not their frames, and
a thread without a peer uses all of these too: it switches its target on, may get frames,
switches it off and leaves. They run the same code but for the PLC's answer. (In
`gvss_ctrl_c` both have a peer; the proofs are for any number of sessions of both.) One
result is enough, in `gvss_liveness`, to wait for an answer, a frame, a session's end and
the log. `LogInits` says what may
become of `log_init`: only `gvss_liveness` has both outcomes, for frames and messages do
not depend on it. A slot whose size test passes
exactly at the limit and one beyond it are the two sides of the test; that one result
is enough for `FramesAccounted` is what its proof says (section 4). Five buffers for
four threads are one to spare, for a switch needs one nobody holds; two stamps
tell a buffer that was written to from one that was not. In `OsaMbx` task a sends to b
and c, and b, from its handler too, to c: the least with a broadcast, nested calls and a
shared receiver; a queue of one is full as soon as it is used; the addresses are as few
as are live at once, so that a freed one is allocated again.

In `session` six descriptors are stdin, the log's file, and a server socket and a
connection for each thread: none is left over, so a number that was closed comes back at
once. `fickle` names the one thread whose peer goes away: what the threads share is the
table, and two connections that break independently add nothing that one does not. In
`err_log` the directory is full from the start until the script removes a file, a file
is full after one record or two, and the second minute is the one in which a name may
be new. Sizes that exceed what a result can have are one value, since they are all refused. In
`OsaFile` the largest sizes are those an Int32 cannot hold, and a size of 3 is one the read
loop steps over.

**Deadlock.** It is checked where the system may not stop. The application ends, or
waits in `accept` and `msgrcv` for peers and for an algorithm that may never come;
the tasks of `OsaMbx` stop when they have made their calls. Those configurations
say `CHECK_DEADLOCK FALSE`, and the liveness runs say what must not stay. (The three small
violation runs of `OsaEvent` end at their counterexample.)

**Fairness.** Weak fairness of a thread's own steps is what a scheduler gives a
thread that can run; strong fairness is used where a thread waits for a semaphore that
others take and give back again and again. `RequestSpec`, the specification of
`gvss_liveness`, assumes it of the main thread, of the algorithm and of a server thread that
is inside `AppClient_On` or `AppClient_Off`, where nothing keeps it; else the server threads
and the peers may do what they like, so `RequestsAnswered` does not depend on them. A wait
for the log's semaphore is assumed to end only while the semaphore exists (`logHndl =
"ready"` in `GvssSystem`, `~semDeleted` in `ErrLog`).
`SessionDrains` and `ShutdownCompletes` have as premise, in the formula itself, the
fairness of the server threads, the daemon and the joins, and `PeerFairness`: a `send`
or `recv` that has begun on an open connection ends, which keepalive
(`gvssProtocol.c:56`) sees to. `FairSpec`, all of these together, is the
specification of `gvss_ctrl_c`. Nothing is
assumed about connections coming or breaking, about SIGINT or new results. In
`OsaQue` and `OsaSem`, and in `OsaEvent` for the run `osa_event_together`, the woken
threads are fair: they get the mutex and run. In `OsaSem` a thread inside the guarded
section comes out too. In `OsaMbx` a task does what it must (`Continue`): it
handles its messages and goes on with its call; no two of its tasks wait for each
other. Were they to, both would wait for ever (`osa_mbx.c:66-79`); the code promises
nothing there, so it is a hazard and not a finding.

### Where code and comments disagree

- `gvss_ctrl_c` (`osa.c:19`, "insure a clean shutdown if user types ctrl-c"): the
  second server thread's handler replaces the first's, and each session works on a
  copy of its flag; with both peers connected a ctrl-c need not end anything.
- `osa_event_together` (`osa_event.h:77-78`, "Tasks waiting on this event will wake
  up"): one waiter is signalled, whatever it waits for.
- `osa_event_report` (`osa_event.h:101`): a timed wait that finds its events stores
  nothing and returns `OSA_EFAIL`.
- `osa_event_mask` (`osa_event.h:24-28`, `:38-42`, "All (active) events in the mask will be
  consumed"): a call that consumes clears every flag (`osa_event.c:309`), also those another
  thread waits for. All of them are reported, too, to a caller that asked for some
  (`:233`, `:266`), which is what `RetrievedWhole` says.

What the properties make precise without contradicting a comment: a result at an
offset such that offset and size exceed `MAX_RESULT_SIZE` costs its target a frame for good
(`lost` in `FramesAccounted`), and frames left by one session go to the next peer.

Others are in the properties of the log and the session, which say what the code does
rather than what one might wish: a request to save that arrives between the main thread's
test and its clearing is lost (`RequestKept`); a daemon that starts after it was told to
stop runs on (`StopIsSeen`, `ShutdownCompletes`); without its file `log_init` leaves a
semaphore that blocks both the main thread, and with it the answers to the algorithm, and
the daemon, and with it the end of the process (`RequestsAnswered`, `ShutdownCompletes`,
`LogGoesOn`); every message to the PLC is built and sent beyond the end of its variable
(`MessageReadable`); a file may be
flushed closed after a server thread took down the semaphore (`FlushesOpenFile`);
a thread that left by SIGINT closes numbers that may be another's (`ClosesItsOwn`). No
comment claims the contrary. (`SaveReturns`, `StopIsSeen` and `WrittenIsFlushed` are parts of
`LogGoesOn`, `ClosesItsOwn` of `DescriptorsKept`.)

## 4. What is proved

Each theorem is for all values of its module's constants under the module's named
assumptions, which the runs evaluate:

- `GvssProofs`, `GvssResultProofs`: any number of frames, slots, sessions, results and
  signals; `NumFrames` is positive and `Slots` a finite set of offsets.
- `GvssSessionProofs`: any descriptors, sessions, parts of a message, signals and threads
  that open files, but no server threads besides the code's two (`SessionAssumption`). It
  is needed: the handler of SIGINT tells only the thread that installed it last, and with
  a third thread `DescriptorsKept` is false, as TLC shows.
- `OsaQueProofs`: any finite set of threads, any values, any positive length.
- `OsaExchangeProofs`: any threads, buffers and flags; any finite set of tasks, any
  addresses (other than NULL) and any positive length of the queues.
- `OsaLibProofs`: any finite set of threads, maximum and initial value; any hours; any
  blocks a message may carry; any pipe users and capacity; any threads and finite set of
  addresses of the list; any `Int32Limit` and chunks.
- `ErrLogProofs`: any limits, record sizes, files of earlier runs (no younger than the
  start), clock and leaving threads.

| theorem | statement | argument |
|---|---|---|
| `TypeCorrect` | `Spec => []TypeOK` | `TypeOK` is inductive: it says also that a thread which handles a frame has one and that a RESULT message names a slot. One lemma for each thread and one for the rest |
| `FramesKept` | `Spec => []FramesAccounted` | inductive together with `TypeOK`: each action moves a frame between two terms of `FrameTotal` or none |
| `PutsNeverWait` | `Spec => []PutsFindRoom` | follows from `FramesAccounted` (lemma `HandLeavesRoom`): the frame in the thread's hand is not in the queue, so the queue has at most `NumFrames - 1` |
| `OffMeansQuiet` | `Spec => QuietWhenOff` | from an invariant of its own, `SemGuards`: the semaphore is taken exactly while the main thread is between its wait and its signal, and the target it puts for is on |
| `AnnouncedIsCopied` | `Spec => []AnnouncedResult` | from an invariant of its own, `ResultInv`: a slot is named by one message at most, wherever that is (`ResultsApart`: in the queue to the application, dealt with, or answered), its slot is busy until the answer is read, and until the message is taken the slot holds the result it announces (`ResultsStored`) |
| `FramesOwned` | `Spec => []FrameOwnedOnce` | inductive as `FramesApart`, which says with sets what the counting of `FrameOwnedOnce` says; every action moves a frame from a queue to a hand or back (lemma `Moved`), and that the put finds room is `HandLeavesRoom` again |
| `ResultsInOrder` | `Spec => []InOrderAtMostOnce` | from `OrderInv`: to each target, what was sent, what is in hand, what is queued and what is still to come lie one before the other (`Ordered`), and the messages announce rising results. A step moves a result one place on, drops it or announces a later one (lemmas `NextMoves`, `ComingKept`, `MovesOn`); that a frame's content stays what it was is `FramesOwned`, that it is the announced result `AnnouncedIsCopied` |
| `ChannelsImplemented` | `Spec => Channels` | refinement, from the same: the put of the main thread is `Publish`, the get of a server thread `Take`, the end of its send `Deliver` or `Drop`, all else a stutter |
| `QueueStaysShort` | `Spec => []MessagesBounded` | from `ResultInv`, which bounds the results in the queues by the slots (lemma `LengthSplit`), and `CmdsBounded`: the commands queued and those that may still be sent, by the main thread at its start, in reply and at its end, by each server thread at its end, are four at first, and no step raises their number |
| `QueTypeCorrect`, `RingKept` | `Spec => []TypeOK`, `Spec => []RingConsistent` (ring) | inductive together; the remainder by the length is needed only below twice the length, where it is one subtraction (lemma `Wrap`), and three lemmas about it carry the arithmetic of both operations |
| `WakeupsKept` | `Spec => []NoLostWakeup` (ring) | inductive: a signal that leaves somebody waiting has woken one thread more (`SignalWakes`), and takes at most the caller from those woken for the other condition (`SignalSpares`) |
| `QueIsFifo` | `Spec => FifoSpec` | refinement: the slots from the read index on are a sequence, a put appends to it, a get takes its head, and all else is a stutter or a refusal |
| `BuffersKept`, `PutsNeverBlock` | `Spec => []BuffersOnce`, `Spec => []PutsFindRoom` (buffers) | from one invariant, `BufInv`: queues without repetition, hands and queues have nothing in common, and every buffer is in one of them. A queue that lacks the buffer in somebody's hand has room (lemma `RoomForMissing`) |
| `MbxOwnsHeap` | `MbxSpec => []HeapOwned` | from `MbxInv`. That a message block is in one queue or one handler's hands, and a freed one nowhere, is `MailInv` (`BoxesDistinct`, `MessagesApart`). The argument blocks need more, for the messages of a broadcast share one: `PrmInv` says that something is shared only while a call that points to it lasts (`SharedPrm`), and that then every message that points to it is one this call waits for (`SendersPrm`). So a message nobody waits for has its block to itself, and freeing it frees no other's (lemma `LastPointer`) |
| `MbxAnswersExpected` | `MbxSpec => []AnswersExpected` | with `AnswerInv`: a message that waits for an answer is one its sender's call still counts (`SenderWaits`), and what is in an answer queue was such a message (`AnswersOwn`); so a call that ends leaves no answer behind, and two loops never see what they are there for: the one that waits for the right answer (`osa_mbx.c:66`) gets it first, and `OSA_mbxFlush` finds no answer to free |
| `ReadersUndisturbed` | `Spec => ReaderUndisturbed` | from the same: a writer fills what is in its hand, and that is in no queue and no other hand |
| `EventTypeCorrect`, `ReportsWhole`, `LoneWaiterServed` | `Flags # {} /\ Spec => []TypeOK`, `... => RetrievedWhole`, `... => AloneServed` | a reply is given only after a test under the mutex, and is the flags that the test saw; only a reply that consumes clears them in that step; a flag comes only with `EventSet`, which signals one waiter, so the only one |
| `SemTypeCorrect`, `SemWakeupsKept` | `Spec => []TypeOK`, `Spec => []NoLostWakeup` (semaphore) | inductive, as for the ring |
| `LogTypeCorrect`, `RequestsKept` | `Spec => []TypeOK`, `Spec => RequestKept` (log) | inductive in two halves, flags and numbers; the numbers include that the results saved of a request are as many as the counter says or one less |
| `FlushMeetsOpenFile` | `Spec => []FlushesOpenFile` | inductive with `Excluded`: until it is deleted the semaphore keeps the main thread's close and the daemon's flush apart, and a closed file is only seen inside the former |
| `LogKeepsLimits` | `Spec => []LogFits` | `LogFits` is not inductive: `Counted` adds that `curerrFileSize` is at least what the open file holds, in the kernel's hands and in stdio's, and below the limit unless the file is being closed. One lemma (`FlushCounted`) for both ways of writing out |
| `NoLaterOverwrite` | `Spec => NothingOverwritten` | `NamesInOrder`: after the first open no file has a later name than the last one opened, so a name that differs from it, on a clock that does not go back, is new |
| `SemGuards` | `Spec => []Guarded` | `Guarded` is not inductive: a thread that waits could be inside already and be counted once for two units. `GuardInv` adds that, until somebody misuses the guard, those who wait are outside |
| `PeersGetWhole` | `Spec => []MessagesWhole` (session) | from `SendsInTurn`: at the top of the loop the first part of a message is due unless the thread leaves, and during a send the part that follows those the peer has. So what comes after a message that broke off would need a thread that sends again after a failed send, and `isQuit` keeps it from that |
| `KillsOnlyInWindow` | `Spec => []KilledOnlyInWindow` | from `ErrorsKept`: until the thread tests, the error of a dead connection waits in the kernel, or the thread that read it is leaving. A send on a dead connection therefore began before it died |
| `DescriptorsStayOwned` | `Spec => DescriptorsKept` | from `EntriesKnown` (what is in the table is known to the thread it belongs to) and, until a signal comes, `NumbersValid`: a thread with a server socket has valid numbers (`HasServerSocket`), one without closes only number 0, which it never opened and which is nobody else's then (`HasNoServerSocket`, `StdinSafe`) |
| `CronInTime` | `CronSpec => []CronKeepsUp` | `CronInv`: the hour is the old hour plus the hours that have passed, modulo 24. Before midnight the unsigned difference is that number, after it far larger (`CheckInTime`) |
| `PlcReadsResult` | `PlcSpec => []MessageReadable` | arithmetic of the offsets: where each word of the data is put, and that the last is within the variable, so that what others write behind it touches no block; position and distance are what was put there unless a write of others is later |
| `PipeOffReserved` | `PipeSpec => []PipePlaced` | `FdsInv`: what was open before, what was leaked and the pipe's own have nothing in common. `pipe` takes the lowest free numbers; that there are such is the least number principle (lemmas `LeastNumber`, `LowestFree`), and with the first two taken those of the second are beyond 2 |
| `PipeCountServes` | `PipeSpec => []CountServes` | `CountInv`: until two calls change it at once, the count and the puts not counted yet (and those a signal cut short) make up what is in the pipe and the gets not counted yet (`Balanced`); `OneReader` adds that a lone reader goes by a count above zero |
| `ListStaysSound` | `ListSpec => ListKept` | from `ChainOK`: some sequence without repetition of the allocated elements is linked by `next` from the head on. What following the pointers gives is then that sequence (lemma `FromLinked`; where two walks would differ first, they do not), and appending to it or cutting one out of it is what the two writes of the code do (`LinkedLonger`, `LinkedCut`). `StartsAtHead` is why `OSA_ListRemoveElem` may read the head before it waits: elements are added at the end, so what it read is still the head, or was NULL, or is stale |
| `FilesReported` | `FileSpec => FilesAsReported` | `FileInv`: what was read is whole pieces and less than was asked for, what remains to be written and what was written is the size. The read's last piece may fit or not, which is about multiples of the piece (lemmas `OneMoreChunk`, `ChunksApart`) |

Some of what is proved is in no run: the types of the ring, of the semaphore, of the
event flags and of the log, the semaphore's `NoLostWakeup` and `PutsFindRoom` of the
application and of the buffers. TLC would only
repeat it for small instances.

Only model-checked: all liveness (`ReadersServed`, `RequestsAnswered`, `SessionDrains`,
`ShutdownCompletes`, `CallsReturn`, `FailureReported`, `LogGoesOn`, `GuardTaken`,
`GonePeerNoticed`), for the prover has neither fairness nor `ENABLED`. Induction over data
is not available to it as a rule either; where a proof needs one, for one set of numbers,
the least counterexample does as well (`LeastNumber`, used for the pipe's descriptors and
for the walk along the list).

## 5. Not modelled, and the plan

Left out for good: device I/O (`osa_serial.c`, `osa_i2c.c`, `/dev/mem`), wrappers
(`osa_mutex.c`, `osa_thr.c`), deletion of library objects while threads use them, and what
has no caller and no state worth a model: `remote_debug_msg_drv.c`, `osa_eth_*.c`, the UDP and
multicast functions of `osa_socket.c`, `osa_prf.c`, `log_printf` and the plain log file
(its code is compiled out).

Left out for want of a reference: a restart that finds the System V queue of the last run
(what is in it depends on the algorithm process, which is not in the repository), and what
memory behind a fixed buffer holds when the algorithm claims more blocks than there are
(`gvssApp.c:72`, `gvssClientApp.c:113`).

Every safety property of the passing runs is proved; what is left to TLC is liveness.
