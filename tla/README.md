# A TLA+ development for rpchat

rpchat is a chat server in C: one main thread watches sockets with an
edge-triggered epoll instance and turns every event into a task; the workers of
a thread pool run the tasks, which are all calls of one function, the connection
state machine `rpchat_task_conn_proc_event`.  A task that cannot be handled in
the present state of its connection puts itself back into the queue.

Paths below are relative to the repository's root.

## 1. The system

| Part | State | Operations | Hard because |
|---|---|---|---|
| Thread pool `lib/rplib/src/rplib_tpool.c` | task queue, two mutexes, two condition variables, counters of busy and alive threads, termination flag | create, start, enqueue, worker loop, wait, destroy | tests and waits in different critical sections, flag set without the mutex, one unlocked read, failing `pthread_create` and allocations |
| State machine `src/rpchat_process_event.c` | `conn_status`, `pending_jobs`, `last_active`, username of each connection | INBOUND, OUTBOUND, HEARTBEAT tasks; register, send, status; broadcast; error; close | tasks of one connection run on several workers in any order, requeue themselves, are counted after they are queued, and free the object they work on |
| Event loop `src/rpchat_basic_chat.c` | events of the present batch | dispatch, accept, audit, signals, shutdown | races with the workers over epoll, descriptors, the connection list |
| Networking `src/rpchat_networking.c` | descriptors | wait, accept, close, send, recv, signalfd, interval timer | descriptor reuse, SIGPIPE, EINTR, EMFILE |
| Connection list `src/components/rpchat_conn_queue.c`, objects `rpchat_conn_info.c` | linked list with a mutex | find by name, list users, destroy; enqueue a task | the list is walked while tasks are made for its members |
| Utilities `src/rpchat_basic_chat_util.c` | none | epoll on/off, opcode decoding | result codes that collide |
| Linked list `lib/rplib/src/rplib_ll_queue.c` | nodes and pointers | enqueue, remove, destroy | singly linked: removing needs a search; loops whose bounds change |
| Strings `src/components/rpchat_string.c` | length and array | filter | terminators counted in the length, arrays without one |
| Process `src/main.c`, `src/rpchat_file_io.c`, set-up in `rpchat_networking.c` and `rpchat_basic_chat.c` | descriptors, allocations | set-up, clean-up | every call may fail, several labels to go to |
| Client `scripts/client.py` | `client_state` | main thread: input, SEND; inbound thread: STATUS, DELIVER | two accesses of the state outside its lock |

Interaction: the main thread and the workers share the task queue (the pool's
mutex), the connection list (`mutex_conn_ll`), the objects (`mutex_conn`, only
ever *tried*), `pending_jobs` (atomic) and the kernel's epoll set.  Correctness
means: no task, message or readable byte is forgotten; every connection follows the
documented diagram; a connection's object
outlives its tasks; the state machine answers each SEND once and waits for each
acknowledgement; silent clients go; shutdown ends.  The complete list of what
can go wrong, line by line, with the properties about it, is `hazards` in
`PROJECT.json`.

## 2. Modules

```
TaskService            what a pool promises (abstract)
   ^ refined by
ThreadPool             rplib_tpool.c, thread by thread
   ThreadPoolProofs       safety theorems, ThreadPool => TaskService
   MCThreadPool           for TLC
ConnProtocol           README.md's diagram of one connection (abstract), and
   ^                      what the code departs from it
   | refined by
ServerState            shared state of the server, epoll, task queue as a service
   ProcessEvent           workers: rpchat_process_event.c
   EventLoop              main thread: rpchat_basic_chat.c, rpchat_networking.c
     ChatServer             both, plus clients, clock, signals; properties
       MCChatServer           for TLC
       ServerProofs           types, objects and list
         ServerProtocol         the two mutexes
           ServerCounts           tasks: pending_jobs, STATUS, DELIVER
             ServerPromises         ChatServer => ConnProtocol with its departures, edges of epoll
               ClientProofs           (and Client) the server with client.py
       Client                 with scripts/client.py instead of any client
         MCClient               for TLC
LLQueue                rplib_ll_queue.c, pointer by pointer
   ConnQueue (and Strings)  rpchat_conn_queue.c, names and texts
     ConnQueueProofs          shape of the list, lengths and contents of texts
     MCConnQueue              for TLC
Startup                main.c and everything around the event loop
   StartupProofs          what is held where
```

### ThreadPool

Variables carry the names of `rplib_tpool_t`'s fields; `pc[t]` is a worker's
place in `rplib_tpool_thread_do`, `owner` the creating thread's.  A critical
section of `mutex_thrd_count` in a worker, and of `mutex_task_queue` in
`rplib_tpool_enqueue_task`, takes no other lock and is one step.  `wait` is
`WaitLock, WaitBusy, WaitSize` (the two tests of line 256 are two reads) and
`WaitReturns`; `destroy` is `Destroy, Terminate, Broadcast, Join`: the flag and
the broadcast are separate, neither is under the mutex.  `accepted` and `done`
are ghosts.  Constants select an immediate or graceful destroy and whether
`pthread_create`, allocations and spurious wakeups misbehave.  A thread that was
never created has a zeroed `pthread_t`; joining it is the state `crashed`.

### ServerState, ProcessEvent, EventLoop, ChatServer

A client and the object of its connection are one element of `Conns`.  `th[t]`
holds a thread's program counter and locals: the task it runs, the task it
is counting, the list node it is at.  A step ends where another thread can see a
difference.  In particular `rpchat_conn_info_enqueue_task` is two steps when it
is called for a connection the thread does not hold: queue, then `CountJob`.
`mem[c]` is the object's life: `live`, `dead` (mutex destroyed), `freed`; a
thread whose next step dereferences a freed object can only take `Undefined`.

The task queue is a sequence here: the service that `ThreadPool` implements
(`TaskService`, proved).  `EventLoop!Shutdown` waits for an empty queue and idle
workers because of `ThreadPool!WaitSafe`, and nothing obliges it to happen even then,
because `rplib_tpool_destroy` may not return (`tp_destroy_hangs`); for the same reason the test of
`b_terminate` at the requeue label never finds it set in a graceful shutdown.

epoll, sockets and TCP are external: a socket in the set gives one event when it
is or becomes readable; ADD of a member fails without effect; a closed descriptor
leaves the set; accept returns the lowest number that is free (`FreeFd`); DEL acts on
whichever socket has the number at that time.  A peer
that has gone answers the first send with a reset, the next raises SIGPIPE.

Messages are kinds: `REGISTER`, `UNKNOWN` (unknown opcode with a name),
`SEND`, `REFUSED` (a SEND or STATUS whose rest is incomplete, too long or
empty), `STATUS_GOOD`, `STATUS_BAD`, `OTHER` (DELIVER, or a REGISTER or
unknown opcode without a proper name).  Bytes that a refused message leaves in the socket are
covered by a client that sends anything next.  Of a name the model keeps what the
duplicate check looks at: the name and its length.  `idle[c]` is
`now - last_active` in audit intervals, cut off above the timeout.  `crossed[c]` is a
ghost: how often the wait of `c` in PENDING_STATUS ended with a message that was not
its STATUS, or `c` sent a STATUS that nobody had asked for.

Under `"nomem"` every allocation of `ProcessEvent` and `EventLoop` may fail: the
buffer of a task (`BufferFails`), a STATUS, a DELIVER of one's own or of a
broadcast, the arguments of an INBOUND or HEARTBEAT task, a list node for a new
connection, its entry in epoll, the buffer of the events.  Only a node of the task queue is left to
`ThreadPool`, where its failure is seen to end the service.

### ConnProtocol

The diagram "Connection States" of the repository's README as a specification of
one connection: its state, whether it has a name and is open, whether the client
waits for a STATUS, and how many DELIVERs it has not acknowledged; `unread` and
`jobs` are what it looks at.  Each transition says what goes over the socket.
`Diagram` is what the document says, no more.  The code does more, and each such
transition is one of `Departures`, with the line it contradicts:

| Departure | Document | Code |
|---|---|---|
| `OweUnregistered` | `README.md:106`: not a REGISTER, so ERR | a SEND in PRE_REGISTER is taken and answered |
| `AnnounceEarly` | `README.md:105-106`, `117` | a broadcast takes a connection from PRE_REGISTER to SEND_MSG |
| `EndWait` | `README.md:149`: not a STATUS, so ERR | a SEND or a refused message ends PENDING_STATUS |
| `ClosingEarly` | `README.md:155-157`: after all pending jobs | ERR becomes CLOSING at once |

`FollowsDiagram` (for every connection `Diagram` only) is refuted (section 4).
`DepartsAsListed` (`Diagram` or one of the departures, nothing else) is checked and
proved: the table is complete.

### LLQueue, Strings, ConnQueue

`LLQueue` has `size`, `p_front`, `p_rear`, the `p_next_node` of every node and
the set of allocated nodes.  An operation is one step (its caller holds a mutex),
except for the loops of `rplib_ll_remove_node` and `rplib_ll_queue_destroy`, one
step for each iteration.  `order` is a ghost, the nodes in the order they were added.
`ConnQueue` puts names in the nodes and models what registration and SEND make of
texts: a string is the sequence of the characters its `len` counts; a character is one
of two letters, a comma, a blank, NUL, or "other".  `snprintf` is external, with its
returned length, its truncation and a negative room.  The array of a name that was
never set holds garbage.  The loop of `rpchat_string_sanitize` is a recursive function
(`Copied`), which the prover can unfold; `FilterIsSelectSeq` compares it with `SelectSeq`
whenever TLC starts.

### Client

`client[c]` is `client_state` and the places of both threads; `outbox[c]` is what
the server has sent and the client has not read, filled by the steps of the workers
that send.  Critical sections of `conn_lock` are steps; the send at line 139 and the
assignment at line 164, which are outside of it, are steps of their own.

Under `"shortread"` a `recv` of the client may return part of a message.  A STATUS read
in part is lost (`client.py:218-220`).  Its rest is a code, a length and a text, none of
which is an opcode the client knows (the only text is printable), so reading
finds the next message.  A DELIVER read in part is answered with code 1
(`client.py:192-194`, `301`), and its rest, which has lengths in it, may look like
anything: from then on (`astray`) the client may do at any time what `Misread` says,
become READY, swallow a message, send code 1 again.  Nothing more is needed, because
the server reads nothing behind the first STATUS of code 1: the connection is in ERR.

### Startup

One step for each call of the set-up and the clean-up that can fail or that releases
something.  `have[r]` is what has become of a descriptor or allocation.  What
the server does while it is up is one action, `Serve`.

## 3. Runs that pass

| Run | Instance | Shows |
|---|---|---|
| `tp_safety` | 3 threads, 3 tasks, graceful, creation may fail, spurious wakeups | types, `CountersExact`, `WaitSafe`, `NoRaceOnSize`, `NoTaskLost`, `DestroyComplete`, `ImplementsService` |
| `tp_live` | 3 threads, 3 tasks, allocation may fail, fair | `EveryTaskRuns` |
| `cs_one_client` | 1 client sending any message, 2 workers, timer, hangup, failing send and accept | types, `PendingExact`, `StatusOwed`, `SocketClosedOnce`, `NoLostEdge`, `DepartsAsListed` |
| `cs_messages` | 2 clients, 1 worker, REGISTER and SEND, failing send, SIGINT, EINTR, descriptors reused, fair | `StatusOwed`, `DeliverConserved`, `WaitForStatus`, `DepartsAsListed`, `ListeningKept`, `DrainEndsOrWaits` |
| `cs_nomem` | 2 clients register, 1 worker, audits, failing allocations | `PendingExact`, `DeliverConserved`, `SendMsgHasJob`, `WaitForStatus`, `WalkSafe` |
| `cs_live` | 1 client, 1 worker, timer, hangup, failing send, refused DELIVERs, fair | `SilentClientsLeave` |
| `conn_queue` | 4 nodes, up to 3 in the list, arrays of 8 characters, texts up to 8 | list: `LLTypeOK`, `ListOK`, `SearchOK`, `RemoveEnds`; texts: `FitsUnlessFull`, `MessageClean`, `UserListComplete` |
| `client` | 1 client with its 2 threads, 1 worker, REGISTER and 2 lines, timer, hangup, short reads | types, `PromptMeansAnswered`, `AckComing` |
| `startup` | 4 threads, every set of options, every failure | `ReleasesOnlyHeld`, `FullyUp`, `ReleasedInOrder`, `NothingLeft` |

What the less obvious properties say:

* `WaitSafe`, `NoRaceOnSize`: `rplib_tpool_wait` reads `size` without the
  queue's mutex.  It is still right: the read comes after `num_threads_busy = 0`
  under `mutex_thrd_count`, and a worker counts itself busy (which needs that
  mutex) before it may touch the queue.
* `PendingExact`: `pending_jobs` is the number of tasks queued or taken and not
  started, minus those queued and not yet counted.  It may be -1, and this is
  exactly the gap that `cs_use_after_free` falls into.
* `StatusOwed`, `DeliverConserved`, `SendMsgHasJob`: self-requeueing loses no task,
  makes none twice, and no state waits for a task that does not exist.
* `NoLostEdge`: for edge-triggered sockets, a byte in a connection that reads has
  an event, a task or a coming re-add.  It holds with one client; a second one refutes
  it (section 4).
* `ListeningKept`: what holds with any number of clients.  A connection in a reading
  state that is listened to stays so, step by step, and three things only can end it:
  its descriptor is removed from epoll for another connection with the same number,
  its event is in a batch of which the rest is dropped, or its task or its place in epoll cannot
  be allocated.
* `DepartsAsListed`: every step of a worker or of the main thread is, for every
  connection, a transition of the diagram, one of the four departures, or leaves it
  alone.  In particular only a STATUS that was sent ends a client's wait, ERR is left
  for CLOSING only, and a name is given once.
* `WaitForStatus`: the server has one DELIVER at a client and waits, with one more for
  each wait that a message of the client's own has ended (`crossed`).
* `WalkSafe`: no connection is freed while a thread walks the list with
  `mutex_conn_ll`.
* `SilentClientsLeave`: includes the connection that a failed send left in ERR
  with no task: the next audit's HEARTBEAT finds it.
* `DrainEndsOrWaits`: in a shutdown no socket event is read any more; still the pool
  comes to have no task, unless it is for ever busy with a DELIVER behind an
  unacknowledged one or with a broadcast at a failed connection.  Both happen
  (`DrainCompletes`, `BroadcastEnds` in section 4).
* `ListOK`: `p_front`, `p_next_node` and `p_rear` spell out `order`, and `size` is its
  length.  `SearchOK`: a search is in front of its target.
* `MessageClean`: what arrives of a message after its three filters is its printable
  characters and blanks and one terminator, no more.
* `FitsUnlessFull`: a name or a message exceeds its array by one terminator at most, and
  only if the client sent as many characters as the array has and all pass the filter;
  then it does (`StringsFit` in section 4).
* `UserListComplete`: the text of `list_users` is the names in order, with separators,
  up to the end of the array.
* `PromptMeansAnswered`: `client_state` has the right value whenever it matters,
  although it is set after the send; a client that has read part of a DELIVER for the
  whole is excepted.  `AckComing`: the DELIVERs the server waits for are those that the
  client has still to read (same exception), and PENDING_STATUS never waits for
  nothing: there is a DELIVER to be answered or an answer of code 0 or 1 on its way.
* `NothingLeft`: whichever step after `rpchat_begin_networking` fails, the creation of the
  pool included (`reached`, a ghost, says how far the server came).  The one thing that
  may be left is a log descriptor that `rpchat_open_log_location` lost before.  A failure
  inside `rpchat_begin_networking` leaves its descriptors to the end of the process.

**Bounds.** `MaxTasks`: three tasks on three workers give queueing, running and
submitting at once.  `MaxMsgs`: one or two messages of a client plus all
acknowledgements.  `MaxBeats` (HEARTBEATs of one connection outstanding when the
next audit begins) is 1: the interval is 10 s.  `TIMEOUT` is 1 interval
for 60 s.  Two workers show every race of two tasks of a connection; with a
third only the number of collisions grows.  Symmetry is over workers and is used
in safety runs only.  `AuditsFirst` (`cs_nomem`): the audits come before the
first message; they have met all the messages in `cs_one_client`.  `conn_queue`: three
nodes give a front, a middle and a rear, a fourth node an address that is free while
they are there; `INT_MAX` is 4, so that the list meets it; two of the texts have the 8
characters of the arrays, one of them all printable, so that arrays are filled and overrun.  `client`: two lines are needed for a
STATUS of the first line to meet the second one.  `cs_messages`: one client
sends two messages and the other none but acknowledgements, which is enough for two
DELIVERs at one client and for a SEND that crosses one; a descriptor is reused when
the second client comes after the first has failed.

**Deadlock** is not checked: a server with silent clients, and a pool whose owner
neither submits nor destroys, rightly rest, and a process that has exited does nothing more.

**Fairness.** Weak fairness for each thread's own steps (the operating system
runs runnable threads; a mutex is eventually handed over), for the return of a
running task, and for the interval timer.  None for clients, SIGINT, spurious
wakeups, what the owner submits, or `Shutdown`, the return of `rplib_tpool_destroy`
(the main thread's other steps are `EventThread`).  In `ConnQueue` only the loop of a removal
(`RemoveLoop`) is fair.  `SilentClientsLeave` is checked with one
worker: with two there is a weakly fair schedule in which a task's `trylock`
collides for ever and keeps refreshing `last_active`.

## 4. Disagreements between code and documents

Three runs each check one statement of the documents or comments and violate it;
`findings` in `PROJECT.json` quotes the statement.

| Run | The code |
|---|---|
| `tp_destroy_hangs` | flag and broadcast fall between a worker's test and its wait: join hangs |
| `cs_use_after_free` | a connection is freed between queueing and counting its HEARTBEAT |
| `cs_send_unacknowledged` | a SEND that crosses a DELIVER is broadcast and never acknowledged |

More statements the model refutes.  They are defined at the end of `ChatServer`
(`NoTaskLost`: in `ThreadPool`) and of the modules named; each is violated on the instance given, written
as changes to `cs_live.cfg` (`SPECIFICATION Spec` for the invariants) or
`tp_live.cfg`.

| Statement | Instance | The code |
|---|---|---|
| `NoTaskLost` (`rplib_tpool.h:68`) | `AllocMayFail = TRUE`, `Spec` | a failed enqueue returns 0 = `RPLIB_SUCCESS` (`rplib_tpool.c:112`), with the mutex locked |
| `FollowsDiagram` (`README.md:106`) | `Env = {}`; `{"SEND"}` | a SEND before REGISTER takes PRE_REGISTER to SEND_STAT (`rpchat_process_event.c:609`, `442`); the other three departures are in section 2, ConnProtocol |
| `DrainCompletes` (`README.md:91-92`) | clients a, b; `TwoFromFirstOnly`; `Env = {"sigint"}`; `{"REGISTER", "SEND"}`; compliant | after SIGINT a DELIVER waits for an acknowledgement nobody reads (`rpchat_basic_chat.c:95`, `rpchat_process_event.c:505`) |
| `NoLostEdge` (`README.md:61-62`) | clients a, b; `TwoLengths`; `Env = {"hangup"}`; `{"REGISTER"}`; compliant | the descriptor is closed before it is removed from epoll; by then a new connection may have it (`rpchat_networking.c:234`) |
| `StringsFit` (`rpchat_string.c:21`, `README.md:27`) | `conn_queue.cfg` | a text of `RPCHAT_MAX_STR_LENGTH` characters is accepted (`rpchat_process_event.c:653`, `738`), and its terminator is written behind the array (`rpchat_string.c:47`), where `rpchat_string_t` has a byte of padding |
| `CompliantClientsStay` (`README.md:153`) | `Env = {}`; `{"REGISTER"}`; compliant; `TwoEach` | the socket is added to epoll late (`rpchat_process_event.c:496`), one acknowledgement is reported twice, the second task reads nothing and sets ERR |
| `BroadcastEnds` (`rpchat_process_event.c:799`) | clients a, b; `Env = {}` | `continue` without advancing (`:803`): endless loop with `mutex_conn_ll` |
| `UniqueNames` (`chat_server.md:20`) | clients a, b; `EqualNames`; `Env = {}`; `{"REGISTER"}` | the check looks at the length of the front connection's name only (`rpchat_conn_queue.c:97-110`), outside the critical section of the assignment |
| `RegisterFirst` (`README.md:106`) | `Env = {}`; `{"SEND"}` | SEND before REGISTER is accepted (`rpchat_process_event.c:609`) |
| `RegisteredByRegister` (`README.md:106`) | `Env = {}`; `{"UNKNOWN"}` | an unknown opcode is a REGISTER (`rpchat_basic_chat_util.c:56`) |
| `DeliverToRegistered` (`chat_server.md:16`) | clients a, b; `OneFromFirst`; `Env = {}`; `{"REGISTER"}` | a broadcast passes over the sender only (`rpchat_process_event.c:795`) |
| `MessagesReadWhole` (`chat_server.md:11`) | `Env = {"statusmsg"}`; `{"REGISTER"}`; compliant | the string of a STATUS is left in the socket (`rpchat_process_event.c:835`) |
| `ExitsOnSigInt` (`README.md:92`) | `Env = {"eintr"}` | EINTR is a planned exit (`rpchat_networking.c:180`) |
| `SendFailureIsHandled` (`README.md:139`) | `Env = {"hangup"}`; `{"REGISTER"}`; compliant | send without `MSG_NOSIGNAL` (`rpchat_networking.c:274`) |
| `NoLostEdge` (`README.md:62`) | clients a, b; `Env = {"emfile"}`; `{"REGISTER"}`; compliant | a failing accept drops the rest of the batch (`rpchat_basic_chat.c:149`) |
| `PendingTimesOut` (`README.md:174`) | clients a, b; `OneFromFirst`; `TIMEOUT = 0`; `Env = {"timer"}`; `{"SEND"}` | requeueing counts as activity (`rpchat_process_event.c:389`) |
| `WalkSafe` (`rpchat_basic_chat.c:254`) | clients a, b; `Env = {"emfile", "hangup"}`; `{"REGISTER"}` | a failed accept unlocks the mutex a worker holds (`rpchat_basic_chat.c:233`) |
| `StatusOwed`, `NoLostEdge`, `SilentClientsLeave`, `ExitsOnSigInt` | `"nomem"` added | a STATUS that cannot be allocated leaves SEND_STAT for ever, in which the connection's own DELIVER requeues itself and counts as activity; a task without a buffer is dropped without adding the socket again; a failed allocation is a planned exit (`rpchat_basic_chat.c:160`) |
| `DestroyFreesAll` (`LLQueue`; `rplib_ll_queue.h:71`) | `conn_queue.cfg` | the bound of the loop shrinks (`rplib_ll_queue.c:182`) |
| `ListStaysInArray` (`ConnQueue`) | `conn_queue.cfg` | a negative third argument of `snprintf` (`rpchat_conn_queue.c:142`) |
| `UserGetsPrompt` (`Client`; `client.py:122`) | `client.cfg`, `ClientFairSpec`, `Env = {}` | the STATUS is handled before PENDING_STATUS is set (`client.py:139-141`); or the server swallows the SEND, see `cs_send_unacknowledged` |
| `ShutdownKept` (`Client`; `client.py:162`) | `client.cfg`, `Env = {"timer"}` | SHUTDOWN, set without the lock, is overwritten by PENDING_STATUS (`client.py:164`, `141`) |
| `ExitCodeTells` (`Startup`; `main.c:100`) | `startup.cfg` | a failed bind, socket or epoll instance exits with 0 (`rpchat_networking.c:42-73`) |
| `PortHonoured` (`Startup`; `README.md:16`) | `startup.cfg` | `p` is not in the option string of getopt (`main.c:45`) |
| `ServesWithThreads` (`Startup`; `README.md:81`) | `startup.cfg` | the result of `rplib_tpool_start` is not looked at (`rpchat_basic_chat.c:46`) |
| `LogClosed` (`Startup`; `rpchat_file_io.h:18`) | `startup.cfg` | when `dup2` fails the open descriptor is overwritten with the error code (`rpchat_file_io.c:30-33`) |
| `NoCrash` (`Startup`) | `startup.cfg` | unchecked allocations in `rplib_tpool_initialize`; threads that were never created are joined |

## 5. Proofs

Every theorem holds for all values of the constants that satisfy the named
assumptions, which TLC evaluates on each run; none of them bounds anything.
Four have a hypothesis about the environment besides; section 4 has an instance for
each of those that shows the code to need it (for `PoolDestroyComplete`, that of
`NoTaskLost`).

| Module | Theorems | Assumptions and hypotheses |
|---|---|---|
| `ThreadPoolProofs` | `PoolTypes`, `PoolCounters`, `PoolWaitSafe`, `PoolNoRace`, `PoolImplementsService`; `PoolNoTaskLost`, `PoolDestroyComplete` | `PoolAssumption`; the last two: allocations succeed |
| `ConnQueueProofs` | `ListShape`, `SearchInFront`, `ListType`; `MessagesAreClean`, `StringsFitUnlessFull` | `QueueAssumption`, `StringAssumption`, `InputAssumption` (texts no longer than the array, which the code tests) |
| `StartupProofs` | `StartReleases`, `StartFullyUp`, `StartOrder`, `StartNothingLeft` | `ThreadAssumption` |
| `ServerProofs` | `ServerTypes` | `ServerAssumption` (finite sets of clients and workers) and `ClientAssumption`, as in all that follow |
| `ServerProtocol` | `OwnersHold`, `SocketsClosedOnce`; `WalksAreSafe` | the last: no `"emfile"` |
| `ServerCounts` | `PendingIsExact`, `DeliversConserved`, `SendMsgHasOne`; `StatusIsOwed` | the last: no `"nomem"` |
| `ServerPromises` | `DeparturesAreListed`, `WaitsForStatus`, `ListeningIsKept` | none besides |
| `ClientProofs` | `ClientIsAllowed`, `ClientTypes`, `PromptsAfterAnswer`, `AcksAreComing` | `UserAssumption` |

**The pool.**  `ThreadPoolProofs` proves `Spec => []IInv`.  The safety invariants are not
inductive: `WaitSafe` needs to know where workers can be when the owner is past
its wait.  `IInv` adds to the types and `CountersExact`: sleepers are exactly the
workers in `pthread_cond_wait` (`SleepersWait`); the owner holds
`mutex_thrd_count` while it tests (`WaitHoldsCount`); at the size test no worker
is counted as busy (`IdleAtSize`, by `CountersExact` and the cardinality of the
busy set); when the flag may be set and where the loop index is (`TerminateWhen`,
`LoopInRange`); joined workers are gone (`JoinedGone`).  A second invariant, `TInv`, says
where tasks are: known, queued once, run by one worker, in one place.  With it each step
is a step of `TaskService` or a stutter under `pending <- p_queue_tasks,
running <- Running, finished <- done, closed <- b_terminate`.

**List and texts.**  `LLInv`, the conjunction of the three invariants of the list, is
inductive as it stands, but none of them is alone: that a search
ends with the right predecessor (`ListOK` after `SearchFound`) needs that it was in
front of its target, which needs the shape of the list.  The work is in `WithoutIs` and
`WithoutElements`, what the ghost sequence is after an element has been taken
out of it.  `ConnQueueStep` shows that a step of the connection queue is a step of the
list or leaves it alone, which carries the theorems over.  What the filter copies is proved
by a least counterexample over the loop's index: never more than was read, less if a
character was dropped (`FilterBounds`), and all if every character passes
(`CopiedPrefix`).  Hence a text whose terminator was counted still fits after the next
filter (`SanitizeFits`), and the next filter changes nothing (`SanitizeAgain`).  A text
that is too long after a filter was, before it, full and made of characters that pass.

**The process.**  `StartInv` is a table: for each label of the set-up and the clean-up what
is held there.  `NothingLeft` and `ReleasedInOrder` only look at the end; the table is
what makes them inductive.

**The server.**  The proofs build on each other.

1. `BaseInv`: types; the locals that fit each label (`WorkerShape`, `MainShape`); whoever
   is named by a task, a thread or the list has an object (`InUse`), and an object that is
   not freed is linked (`LinkedWhileUsed`), without which a walk might follow the successor
   of a node that is not in the list.
2. `Owners`: a worker from trylock to unlock has `mutex_conn`; therefore `StatusAt`: it
   finds `conn_status` as it left it, and CLOSING is for good.  `SocketClosedOnce` and
   `WalkInv` (who walks has `mutex_conn_ll`, and is at a linked node) follow.
3. `PendingInv` and `OutboxInv` count tasks.  Lemmas say what one append, one removal, or
   the change of one thread's locals does to a count; each action is one or two of those.
   `OutboxInv`: for a connection that has not failed the DELIVERs due are the ones not
   sent, there is one STATUS task in SEND_STAT and none elsewhere, and SEND_MSG has a
   DELIVER.
4. `DeparturesAreListed` is the step simulation of `ConnProtocol` under 1 to 3: it needs
   `OutboxInv` because a STATUS must not be sent in SEND_MSG, and `SocketClosedOnce`
   because the socket must be open at each transition but the last.  `WaitInv` adds the
   acknowledgement in the inbox to the one owed, and bounds both by `crossed`.
   `ListeningIsKept` is an action property: `Heard` says who looks after a socket
   that is not in the epoll set (the batch, an INBOUND task, or a worker about to add
   it), and each action keeps it or is one of the three causes; `ArmedOpen` is the
   invariant it needs, that only open sockets are in the set.
5. The client is one of `ChatServer`'s environments (`ClientIsAllowed`), so 1 to 4 hold
   with it.  `PromptInv` follows one request around: in the inbox, with a worker, a STATUS
   due, a STATUS not read; in one of these places and once.  `AckInv`: what the server
   is owed is what the client has not read; as long as the client is not `astray`; in
   PENDING_STATUS a DELIVER is owed or a STATUS is in the inbox, `astray` or not.

**Only model-checked.**  Liveness (`EveryTaskRuns`, `SilentClientsLeave`,
`DrainEndsOrWaits`, `RemoveEnds`), which the prover does not cover, and
`UserListComplete`: the text of `list_users` is a fold of `snprintf` over the list, and
what a fold computes for a list of any length needs an induction over operators that the
prover's library cannot instantiate.

## 6. Mutants

Each property of a passing run is paired with a definition, next to the one
it replaces, that changes the code as a plausible bug would (a missing signal, a
dropped guard, a task lost on requeue, a socket not added again) and
breaks the property.  They are marked "Mutant" and used by nothing else.

## 7. Plan

Done: the pool with its abstract service and proofs; state machine, event loop,
environment and their composition, with failing allocations; the abstract
protocol of a connection and its refinement; the client; the linked list; names and
texts; the process around the server; theorems for every safety property of the runs
but `UserListComplete`.

Next: `UserListComplete`, with the walk of `rpchat_conn_queue_list_users` written as a
recursive function like the loop of the filter.

## 8. Not modelled

* `rplib_common.c` and `.h`: return codes, which appear where they are used, and debug
  macros;
* `rplib_ll_queue_dequeue` of a list whose front was never set: the asserts there
  are guards;
* what is printed, by the server and on the client's screen;
* build files and the bundled test outputs.
