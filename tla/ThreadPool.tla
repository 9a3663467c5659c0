----------------------------- MODULE ThreadPool -----------------------------
(***************************************************************************)
(* The thread pool of rplib (rplib_tpool.c): NumThreads workers take tasks *)
(* from one FIFO queue; the owner (the server's main thread) starts the    *)
(* pool, submits tasks and destroys it.                                    *)
(*                                                                         *)
(* Every lock, unlock, wait and signal that another thread can observe is  *)
(* a step of its own.  A critical section of mutex_thrd_count in a worker  *)
(* touches two counters and takes no other lock, so it is one step, enabled*)
(* while the mutex is free; the same holds of rplib_tpool_enqueue_task and *)
(* mutex_task_queue.  mutex_task_queue is kept by a worker over several    *)
(* steps, mutex_thrd_count by the owner inside rplib_tpool_wait.           *)
(***************************************************************************)
EXTENDS Integers, Sequences, FiniteSets

CONSTANTS NumThreads,     \* num_threads of rplib_tpool_create
          MaxTasks,       \* bound: tasks submitted in one behaviour
          Immediate,      \* b_shutdown_immediate of rplib_tpool_destroy
          CreateMayFail,  \* pthread_create may fail in rplib_tpool_start
          AllocMayFail,   \* rplib_ll_queue_enqueue may return NULL
          Spurious        \* pthread_cond_wait may return without a signal

(* rplib_tpool_initialize asserts num_threads > 0.                         *)
ASSUME PoolAssumption ==
  /\ NumThreads \in Nat \ {0}
  /\ MaxTasks \in Nat
  /\ Immediate \in BOOLEAN
  /\ CreateMayFail \in BOOLEAN
  /\ AllocMayFail \in BOOLEAN
  /\ Spurious \in BOOLEAN

Threads == 1 .. NumThreads
Nobody  == 0                   \* owner of a free mutex
Owner   == NumThreads + 1      \* the thread that created the pool
Tasks   == 1 .. MaxTasks

RPLIB_SUCCESS == 0

VARIABLES
  mutex_task_queue,   \* the thread that holds it, or Nobody
  mutex_thrd_count,   \* the thread that holds it, or Nobody
  cond_task_queue,    \* workers blocked in pthread_cond_wait
  cond_threads_idle,  \* the owner is blocked in pthread_cond_wait
  num_threads_busy,
  num_threads_alive,
  b_terminate,
  p_queue_tasks,      \* the task queue, front first
  pc,                 \* pc[t]: where worker t is in rplib_tpool_thread_do
  p_arg,              \* p_arg[t]: the task worker t runs, 0 if none
  owner,              \* where the owner is
  loop_index,         \* loop variable of rplib_tpool_start and _destroy
  submitted,          \* calls of rplib_tpool_enqueue_task that returned
  accepted,           \* ghost: the tasks for which it returned RPLIB_SUCCESS
  done                \* ghost: the tasks that were run to their end

sync  == <<mutex_task_queue, mutex_thrd_count, cond_task_queue, cond_threads_idle>>
count == <<num_threads_busy, num_threads_alive>>
jobs  == <<submitted, accepted, done>>
main  == <<owner, loop_index>>
vars  == <<sync, count, b_terminate, p_queue_tasks, pc, p_arg, main, jobs>>

WorkerPC == {"uncreated", "start", "loop", "lockq", "check", "unbusy", "wait",
             "waiting", "relock", "rebusy", "run", "done", "exit", "gone"}
OwnerPC  == {"starting", "serving", "wait", "busy", "size", "blocked",
             "terminate", "broadcast", "join", "destroyed", "crashed"}

(* rplib_tpool_create and rplib_tpool_initialize.                          *)
Init ==
  /\ mutex_task_queue = Nobody
  /\ mutex_thrd_count = Nobody
  /\ cond_task_queue = {}
  /\ cond_threads_idle = FALSE
  /\ num_threads_busy = 0
  /\ num_threads_alive = 0
  /\ b_terminate = FALSE
  /\ p_queue_tasks = << >>
  /\ pc = [t \in Threads |-> "uncreated"]
  /\ p_arg = [t \in Threads |-> 0]
  /\ owner = "starting"
  /\ loop_index = 0
  /\ submitted = 0
  /\ accepted = {}
  /\ done = {}

Goto(t, from, to) == pc[t] = from /\ pc' = [pc EXCEPT ![t] = to]
-----------------------------------------------------------------------------
(* rplib_tpool_enqueue_task, called by a thread that holds neither mutex.  *)

(* Mutant: a new task wakes nobody.                                        *)
SignalNobody == UNCHANGED <<cond_task_queue, pc>>

(* pthread_cond_signal: at most one waiter is made runnable.               *)
Signal ==
  IF cond_task_queue = {}
  THEN UNCHANGED <<cond_task_queue, pc>>
  ELSE \E w \in cond_task_queue :
         /\ cond_task_queue' = cond_task_queue \ {w}
         /\ pc' = [pc EXCEPT ![w] = "relock"]

(* Mutant: the new task goes to the front of the queue.                    *)
EnqueueTaskFront ==
  /\ mutex_task_queue = Nobody
  /\ submitted < MaxTasks
  /\ submitted' = submitted + 1
  /\ accepted' = accepted \cup {submitted + 1}
  /\ p_queue_tasks' = <<submitted + 1>> \o p_queue_tasks
  /\ Signal
  /\ UNCHANGED <<mutex_task_queue, mutex_thrd_count, cond_threads_idle, count,
                 b_terminate, p_arg, main, done>>

EnqueueTask ==
  /\ mutex_task_queue = Nobody
  /\ submitted < MaxTasks
  /\ submitted' = submitted + 1
  /\ accepted' = accepted \cup {submitted + 1}
  /\ p_queue_tasks' = Append(p_queue_tasks, submitted + 1)
  /\ Signal
  /\ UNCHANGED <<mutex_task_queue, mutex_thrd_count, cond_threads_idle, count,
                 b_terminate, p_arg, main, done>>

(* The queue cannot allocate a node: res is the 0 of the failed comparison *)
(* and the call returns it, with the mutex still locked.                   *)
EnqueueTaskFails(caller) ==
  /\ AllocMayFail
  /\ mutex_task_queue = Nobody
  /\ submitted < MaxTasks
  /\ submitted' = submitted + 1
  /\ mutex_task_queue' = caller
  /\ LET res == 0 IN
       accepted' = IF res = RPLIB_SUCCESS THEN accepted \cup {submitted + 1} ELSE accepted
  /\ UNCHANGED <<mutex_thrd_count, cond_task_queue, cond_threads_idle, count,
                 b_terminate, p_queue_tasks, pc, p_arg, main, done>>
-----------------------------------------------------------------------------
(* rplib_tpool_thread_do, one worker.                                      *)

Start(t) ==
  /\ Goto(t, "start", "loop")
  /\ mutex_thrd_count = Nobody
  /\ num_threads_alive' = num_threads_alive + 1
  /\ UNCHANGED <<sync, num_threads_busy, b_terminate, p_queue_tasks, p_arg, main, jobs>>

Busy(t) ==
  /\ Goto(t, "loop", "lockq")
  /\ mutex_thrd_count = Nobody
  /\ num_threads_busy' = num_threads_busy + 1
  /\ UNCHANGED <<sync, num_threads_alive, b_terminate, p_queue_tasks, p_arg, main, jobs>>

LockQueue(t) ==
  /\ Goto(t, "lockq", "check")
  /\ mutex_task_queue = Nobody
  /\ mutex_task_queue' = t
  /\ UNCHANGED <<mutex_thrd_count, cond_task_queue, cond_threads_idle, count,
                 b_terminate, p_queue_tasks, p_arg, main, jobs>>

(* The queue is empty and nobody terminates the pool: the worker will wait.*)
NoTask(t) ==
  /\ Goto(t, "check", "unbusy")
  /\ p_queue_tasks = << >>
  /\ ~b_terminate
  /\ UNCHANGED <<sync, count, b_terminate, p_queue_tasks, p_arg, main, jobs>>

NotBusy(t) ==
  /\ Goto(t, "unbusy", "wait")
  /\ mutex_thrd_count = Nobody
  /\ num_threads_busy' = num_threads_busy - 1
  /\ UNCHANGED <<sync, num_threads_alive, b_terminate, p_queue_tasks, p_arg, main, jobs>>

(* pthread_cond_wait releases the mutex and blocks in one step, ...        *)
CondWait(t) ==
  /\ Goto(t, "wait", "waiting")
  /\ mutex_task_queue' = Nobody
  /\ cond_task_queue' = cond_task_queue \cup {t}
  /\ UNCHANGED <<mutex_thrd_count, cond_threads_idle, count, b_terminate,
                 p_queue_tasks, p_arg, main, jobs>>

(* ... may return without a signal, ...                                    *)
SpuriousWakeup(t) ==
  /\ Spurious
  /\ Goto(t, "waiting", "relock")
  /\ cond_task_queue' = cond_task_queue \ {t}
  /\ UNCHANGED <<mutex_task_queue, mutex_thrd_count, cond_threads_idle, count,
                 b_terminate, p_queue_tasks, p_arg, main, jobs>>

(* ... and returns with the mutex locked again.                            *)
Relock(t) ==
  /\ Goto(t, "relock", "rebusy")
  /\ mutex_task_queue = Nobody
  /\ mutex_task_queue' = t
  /\ UNCHANGED <<mutex_thrd_count, cond_task_queue, cond_threads_idle, count,
                 b_terminate, p_queue_tasks, p_arg, main, jobs>>

(* Mutant: a woken worker does not count itself as busy again.             *)
BusyAgainUncounted(t) ==
  /\ Goto(t, "rebusy", "check")
  /\ UNCHANGED <<sync, count, b_terminate, p_queue_tasks, p_arg, main, jobs>>

BusyAgain(t) ==
  /\ Goto(t, "rebusy", "check")
  /\ mutex_thrd_count = Nobody
  /\ num_threads_busy' = num_threads_busy + 1
  /\ UNCHANGED <<sync, num_threads_alive, b_terminate, p_queue_tasks, p_arg, main, jobs>>

(* Mutant: the task that is removed from the queue is not the one that is  *)
(* run.                                                                    *)
TakeTaskWrongNode(t) ==
  /\ Goto(t, "check", "run")
  /\ p_queue_tasks # << >>
  /\ ~b_terminate
  /\ p_arg' = [p_arg EXCEPT ![t] = Head(p_queue_tasks)]
  /\ p_queue_tasks' = SubSeq(p_queue_tasks, 1, Len(p_queue_tasks) - 1)
  /\ mutex_task_queue' = Nobody
  /\ UNCHANGED <<mutex_thrd_count, cond_task_queue, cond_threads_idle, count,
                 b_terminate, main, jobs>>

(* The pool is being destroyed: the worker leaves, whatever is queued.     *)
Leave(t) ==
  /\ Goto(t, "check", "exit")
  /\ b_terminate
  /\ mutex_task_queue' = Nobody
  /\ UNCHANGED <<mutex_thrd_count, cond_task_queue, cond_threads_idle, count,
                 b_terminate, p_queue_tasks, p_arg, main, jobs>>

TakeTask(t) ==
  /\ Goto(t, "check", "run")
  /\ p_queue_tasks # << >>
  /\ ~b_terminate
  /\ p_arg' = [p_arg EXCEPT ![t] = Head(p_queue_tasks)]
  /\ p_queue_tasks' = Tail(p_queue_tasks)
  /\ mutex_task_queue' = Nobody
  /\ UNCHANGED <<mutex_thrd_count, cond_task_queue, cond_threads_idle, count,
                 b_terminate, main, jobs>>

(* A running task may submit others; then it returns.                      *)
TaskEnqueues(t)      == pc[t] = "run" /\ EnqueueTask
TaskEnqueueFails(t)  == pc[t] = "run" /\ EnqueueTaskFails(t)

RunTask(t) ==
  /\ Goto(t, "run", "done")
  /\ done' = done \cup {p_arg[t]}
  /\ p_arg' = [p_arg EXCEPT ![t] = 0]
  /\ UNCHANGED <<sync, count, b_terminate, p_queue_tasks, main, submitted, accepted>>

(* The last busy worker signals cond_threads_idle.                         *)
TaskDone(t) ==
  /\ Goto(t, "done", "loop")
  /\ mutex_thrd_count = Nobody
  /\ num_threads_busy' = num_threads_busy - 1
  /\ cond_threads_idle' = (cond_threads_idle /\ num_threads_busy' # 0)
  /\ UNCHANGED <<mutex_task_queue, mutex_thrd_count, cond_task_queue,
                 num_threads_alive, b_terminate, p_queue_tasks, p_arg, main, jobs>>

(* Mutant: a worker leaves and stays counted as busy.                      *)
ExitStillBusy(t) ==
  /\ Goto(t, "exit", "gone")
  /\ mutex_thrd_count = Nobody
  /\ num_threads_alive' = num_threads_alive - 1
  /\ UNCHANGED <<sync, num_threads_busy, b_terminate, p_queue_tasks, p_arg, main, jobs>>

Exit(t) ==
  /\ Goto(t, "exit", "gone")
  /\ mutex_thrd_count = Nobody
  /\ num_threads_busy' = num_threads_busy - 1
  /\ num_threads_alive' = num_threads_alive - 1
  /\ UNCHANGED <<sync, b_terminate, p_queue_tasks, p_arg, main, jobs>>

WorkerStep(t) ==
  \/ Start(t) \/ Busy(t) \/ LockQueue(t)
  \/ NoTask(t) \/ NotBusy(t) \/ CondWait(t) \/ Relock(t) \/ BusyAgain(t)
  \/ Leave(t) \/ TakeTask(t) \/ RunTask(t) \/ TaskDone(t) \/ Exit(t)

Worker(t) ==
  \/ WorkerStep(t)
  \/ SpuriousWakeup(t)
  \/ TaskEnqueues(t)
  \/ TaskEnqueueFails(t)
-----------------------------------------------------------------------------
(* The owner: rplib_tpool_start, submissions, rplib_tpool_destroy.         *)

CreateThread ==
  /\ owner = "starting"
  /\ loop_index < NumThreads
  /\ loop_index' = loop_index + 1
  /\ Goto(loop_index + 1, "uncreated", "start")
  /\ owner' = IF loop_index' = NumThreads THEN "serving" ELSE "starting"
  /\ UNCHANGED <<sync, count, b_terminate, p_queue_tasks, p_arg, jobs>>

(* rplib_tpool_start gives up; the server ignores what it returns.         *)
CreateThreadFails ==
  /\ CreateMayFail
  /\ owner = "starting"
  /\ owner' = "serving"
  /\ UNCHANGED <<sync, count, b_terminate, p_queue_tasks, pc, p_arg, loop_index, jobs>>

OwnerEnqueues     == owner = "serving" /\ EnqueueTask
OwnerEnqueueFails == owner = "serving" /\ EnqueueTaskFails(Owner)

Destroy ==
  /\ owner = "serving"
  /\ owner' = IF Immediate THEN "terminate" ELSE "wait"
  /\ UNCHANGED <<sync, count, b_terminate, p_queue_tasks, pc, p_arg, loop_index, jobs>>

(* rplib_tpool_wait: first num_threads_busy, and only when it is zero the  *)
(* size of the queue, read under mutex_thrd_count alone.                   *)
WaitLock ==
  /\ owner = "wait"
  /\ mutex_thrd_count = Nobody
  /\ mutex_thrd_count' = Owner
  /\ owner' = "busy"
  /\ UNCHANGED <<mutex_task_queue, cond_task_queue, cond_threads_idle, count,
                 b_terminate, p_queue_tasks, pc, p_arg, loop_index, jobs>>

Block ==
  /\ mutex_thrd_count' = Nobody
  /\ cond_threads_idle' = TRUE
  /\ owner' = "blocked"

WaitBusy ==
  /\ owner = "busy"
  /\ IF num_threads_busy # 0
     THEN Block
     ELSE owner' = "size" /\ UNCHANGED <<mutex_thrd_count, cond_threads_idle>>
  /\ UNCHANGED <<mutex_task_queue, cond_task_queue, count, b_terminate,
                 p_queue_tasks, pc, p_arg, loop_index, jobs>>

(* Mutant: the wait looks at num_threads_busy only.                        *)
WaitIgnoresSize ==
  /\ owner = "size"
  /\ mutex_thrd_count' = Nobody
  /\ owner' = "terminate"
  /\ UNCHANGED <<mutex_task_queue, cond_task_queue, cond_threads_idle, count,
                 b_terminate, p_queue_tasks, pc, p_arg, loop_index, jobs>>

WaitSize ==
  /\ owner = "size"
  /\ IF Len(p_queue_tasks) # 0
     THEN Block
     ELSE /\ mutex_thrd_count' = Nobody
          /\ owner' = "terminate"
          /\ UNCHANGED cond_threads_idle
  /\ UNCHANGED <<mutex_task_queue, cond_task_queue, count, b_terminate,
                 p_queue_tasks, pc, p_arg, loop_index, jobs>>

(* Mutant: a wait that returns is trusted, num_threads_busy is not tested  *)
(* again.                                                                  *)
WaitTrusted ==
  /\ owner = "blocked"
  /\ ~cond_threads_idle
  /\ mutex_thrd_count = Nobody
  /\ mutex_thrd_count' = Owner
  /\ owner' = "size"
  /\ UNCHANGED <<mutex_task_queue, cond_task_queue, cond_threads_idle, count,
                 b_terminate, p_queue_tasks, pc, p_arg, loop_index, jobs>>

(* A signalled wait returns with the mutex, back to the loop's test.       *)
WaitReturns ==
  /\ owner = "blocked"
  /\ ~cond_threads_idle
  /\ mutex_thrd_count = Nobody
  /\ mutex_thrd_count' = Owner
  /\ owner' = "busy"
  /\ UNCHANGED <<mutex_task_queue, cond_task_queue, cond_threads_idle, count,
                 b_terminate, p_queue_tasks, pc, p_arg, loop_index, jobs>>

WaitSpurious ==
  /\ Spurious
  /\ cond_threads_idle
  /\ cond_threads_idle' = FALSE
  /\ UNCHANGED <<mutex_task_queue, mutex_thrd_count, cond_task_queue, count,
                 b_terminate, p_queue_tasks, pc, p_arg, main, jobs>>

(* The flag is set and the waiters are woken without mutex_task_queue.     *)
Terminate ==
  /\ owner = "terminate"
  /\ b_terminate' = TRUE
  /\ owner' = "broadcast"
  /\ UNCHANGED <<sync, count, p_queue_tasks, pc, p_arg, loop_index, jobs>>

Broadcast ==
  /\ owner = "broadcast"
  /\ pc' = [t \in Threads |-> IF t \in cond_task_queue THEN "relock" ELSE pc[t]]
  /\ cond_task_queue' = {}
  /\ owner' = "join"
  /\ loop_index' = 0
  /\ UNCHANGED <<mutex_task_queue, mutex_thrd_count, cond_threads_idle, count,
                 b_terminate, p_queue_tasks, p_arg, jobs>>

(* Mutant: the pool is freed without waiting for its threads.              *)
JoinNobody ==
  /\ owner = "join"
  /\ loop_index' = loop_index + 1
  /\ owner' = IF loop_index' = NumThreads THEN "destroyed" ELSE "join"
  /\ UNCHANGED <<sync, count, b_terminate, p_queue_tasks, pc, p_arg, jobs>>

(* The pool is freed after the last pthread_join.  A thread that was never *)
(* created has a zeroed pthread_t, which pthread_join dereferences.        *)
Join ==
  /\ owner = "join"
  /\ pc[loop_index + 1] \in {"gone", "uncreated"}
  /\ loop_index' = loop_index + 1
  /\ owner' = IF pc[loop_index + 1] = "uncreated" THEN "crashed"
              ELSE IF loop_index' = NumThreads THEN "destroyed" ELSE "join"
  /\ UNCHANGED <<sync, count, b_terminate, p_queue_tasks, pc, p_arg, jobs>>

OwnerStep ==
  \/ CreateThread \/ WaitLock \/ WaitBusy \/ WaitSize \/ WaitReturns
  \/ Terminate \/ Broadcast \/ Join

OwnerNext ==
  \/ OwnerStep
  \/ CreateThreadFails \/ OwnerEnqueues \/ OwnerEnqueueFails \/ Destroy
  \/ WaitSpurious

Next == OwnerNext \/ \E t \in Threads : Worker(t)

Spec == Init /\ [][Next]_vars

(* A thread that can take a step of the pool's code eventually takes it,   *)
(* and a task that runs eventually returns.  When the owner submits or     *)
(* destroys, whether a task submits another, and spurious wakeups are the  *)
(* environment's choice and get no fairness.                               *)
Fairness == WF_vars(OwnerStep) /\ \A t \in Threads : WF_vars(WorkerStep(t))

FairSpec == Spec /\ Fairness
-----------------------------------------------------------------------------
(* Properties.                                                             *)

TypeOK ==
  /\ mutex_task_queue \in {Nobody, Owner} \cup Threads
  /\ mutex_thrd_count \in {Nobody, Owner}
  /\ cond_task_queue \subseteq Threads
  /\ cond_threads_idle \in BOOLEAN
  /\ num_threads_busy \in Nat
  /\ num_threads_alive \in Nat
  /\ b_terminate \in BOOLEAN
  /\ p_queue_tasks \in Seq(Nat)
  /\ pc \in [Threads -> WorkerPC]
  /\ p_arg \in [Threads -> Nat]
  /\ owner \in OwnerPC
  /\ loop_index \in 0 .. NumThreads
  /\ submitted \in 0 .. MaxTasks
  /\ accepted \subseteq Tasks
  /\ done \subseteq Nat

BusyPC   == {"lockq", "check", "unbusy", "run", "done", "exit"}
AlivePC  == WorkerPC \ {"uncreated", "start", "gone"}
BusySet  == {t \in Threads : pc[t] \in BusyPC}
AliveSet == {t \in Threads : pc[t] \in AlivePC}

(* The two unsigned counters, kept by increments and decrements at six     *)
(* places of the worker loop, are exact: a worker is counted as busy from  *)
(* an increment to the next decrement, never twice, and no decrement wraps *)
(* below zero.                                                             *)
CountersExact ==
  /\ num_threads_busy = Cardinality(BusySet)
  /\ num_threads_alive = Cardinality(AliveSet)

Running == {p_arg[t] : t \in {u \in Threads : pc[u] = "run"}}
Queued  == {p_queue_tasks[i] : i \in DOMAIN p_queue_tasks}

(* rplib_tpool_wait tests two things in two steps, the second without the  *)
(* queue's mutex.  When a graceful rplib_tpool_destroy goes past it there  *)
(* is no queued task and no running one, and there will be none: nothing   *)
(* is dropped by the termination flag or freed under a running task.       *)
PastWait == owner \in {"terminate", "broadcast", "join", "destroyed", "crashed"}
WaitSafe ==
  ~Immediate /\ PastWait =>
    p_queue_tasks = << >> /\ \A t \in Threads : pc[t] # "run"

(* While rplib_tpool_wait reads the size of the queue without its mutex,   *)
(* no thread is at a point where it can change the queue: no data race.    *)
NoRaceOnSize ==
  owner = "size" => \A t \in Threads : pc[t] \notin {"check", "run"}

(* Every task whose submission was reported as RPLIB_SUCCESS is queued, is *)
(* running or was run ("RPLIB_SUCCESS on success", rplib_tpool.h).         *)
NoTaskLost == accepted \subseteq Queued \cup Running \cup done

(* When the pool is freed no worker is left that could touch it, and after *)
(* a graceful destroy every accepted task was run.                         *)
DestroyComplete ==
  owner = "destroyed" =>
    /\ \A t \in Threads : pc[t] = "gone"
    /\ num_threads_alive = 0
    /\ ~Immediate => accepted \subseteq done

(* The detailed pool implements the abstract service.                      *)
Service == INSTANCE TaskService WITH
             pending  <- p_queue_tasks,
             running  <- Running,
             finished <- done,
             closed   <- b_terminate

ImplementsService == Service!Spec

(* No signal is lost between a worker's test of the queue and its wait: an *)
(* accepted task is eventually run to its end.  The one exception is what  *)
(* a failed allocation leaves: mutex_task_queue is held by a thread that   *)
(* is not in a critical section of it, and so for ever.                    *)
QueueAbandoned ==
  \/ mutex_task_queue = Owner
  \/ \E t \in Threads : /\ mutex_task_queue = t
                        /\ pc[t] \in {"run", "done", "loop", "lockq"}
EveryTaskRuns == \A k \in Tasks : (k \in accepted) ~> (k \in done \/ QueueAbandoned)

(* "if not urgent, wait for tasks to complete" and "set termination flag   *)
(* and tell all threads to wake up" (rplib_tpool.c:66, :72): a graceful    *)
(* rplib_tpool_destroy comes to its end.                                   *)
DestroyReturns == (owner = "wait") ~> (owner = "destroyed")
=============================================================================
