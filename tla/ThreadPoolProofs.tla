-------------------------- MODULE ThreadPoolProofs --------------------------
(***************************************************************************)
(* Proofs about ThreadPool, for any number of threads and tasks.           *)
(*                                                                         *)
(* The inductive invariant joins what the counters count to what keeps the *)
(* counters still while rplib_tpool_wait looks at them: the owner holds    *)
(* mutex_thrd_count exactly between the lock and the end of its two tests, *)
(* and a worker that is not counted as busy can only become busy, and only *)
(* then reach the queue, through that mutex.                               *)
(***************************************************************************)
EXTENDS ThreadPool, TLAPS, FiniteSetTheorems

(* The workers whose program counter p is in P.                            *)
Where(p, P) == {t \in Threads : p[t] \in P}

(* TypeOK without the two counters, whose range follows from CountersExact.*)
TypeRest ==
  /\ mutex_task_queue \in {Nobody, Owner} \cup Threads
  /\ mutex_thrd_count \in {Nobody, Owner}
  /\ cond_task_queue \subseteq Threads
  /\ cond_threads_idle \in BOOLEAN
  /\ b_terminate \in BOOLEAN
  /\ p_queue_tasks \in Seq(Nat)
  /\ pc \in [Threads -> WorkerPC]
  /\ p_arg \in [Threads -> Nat]
  /\ owner \in OwnerPC
  /\ loop_index \in 0 .. NumThreads
  /\ submitted \in 0 .. MaxTasks
  /\ accepted \subseteq Tasks
  /\ done \subseteq Nat

(* The loops of rplib_tpool_start and _destroy stay inside p_thread_buf.   *)
LoopInRange == owner \in {"starting", "join"} => loop_index < NumThreads

(* Only a worker inside pthread_cond_wait is signalled.                    *)
SleepersWait == \A t \in cond_task_queue : pc[t] = "waiting"

(* The owner holds mutex_thrd_count while it tests its two conditions.     *)
WaitHoldsCount == (mutex_thrd_count = Owner) <=> (owner \in {"busy", "size"})

(* Between the tests no worker is, or becomes, busy.                       *)
IdleAtSize == owner = "size" => BusySet = {}

(* The flag is set by rplib_tpool_destroy and stays set.                   *)
TerminateWhen ==
  b_terminate <=> owner \in {"broadcast", "join", "destroyed", "crashed"}

(* The threads that were joined have returned.                             *)
JoinedGone ==
  /\ owner = "join" => \A t \in 1 .. loop_index : pc[t] = "gone"
  /\ owner = "destroyed" => \A t \in Threads : pc[t] = "gone"

IInv ==
  /\ TypeRest
  /\ CountersExact
  /\ LoopInRange
  /\ SleepersWait
  /\ WaitHoldsCount
  /\ IdleAtSize
  /\ TerminateWhen
  /\ JoinedGone
  /\ WaitSafe
-----------------------------------------------------------------------------
(* A set of workers is finite, so the counters count.                      *)
LEMMA WhereFinite ==
  ASSUME NEW p, NEW P
  PROVE  IsFiniteSet(Where(p, P)) /\ Cardinality(Where(p, P)) \in Nat
<1>1. IsFiniteSet(Threads)
  BY PoolAssumption, FS_Interval DEF Threads
<1>2. Where(p, P) \in SUBSET Threads
  BY DEF Where
<1>3. IsFiniteSet(Where(p, P))
  BY <1>1, <1>2, FS_Subset
<1> QED
  BY <1>3, FS_CardinalityType

(* One worker steps into the places that are counted: one more.            *)
LEMMA WhereGains ==
  ASSUME NEW p \in [Threads -> WorkerPC], NEW P, NEW t \in Threads, NEW x,
         p[t] \notin P, x \in P
  PROVE  Cardinality(Where([p EXCEPT ![t] = x], P)) = Cardinality(Where(p, P)) + 1
<1>1. Where([p EXCEPT ![t] = x], P) = Where(p, P) \cup {t}
  BY DEF Where
<1>2. t \notin Where(p, P)
  BY DEF Where
<1> QED
  BY <1>1, <1>2, WhereFinite, FS_AddElement

(* One worker steps out of them: one less.                                 *)
LEMMA WhereLoses ==
  ASSUME NEW p \in [Threads -> WorkerPC], NEW P, NEW t \in Threads, NEW x,
         p[t] \in P, x \notin P
  PROVE  Cardinality(Where([p EXCEPT ![t] = x], P)) = Cardinality(Where(p, P)) - 1
<1>1. Where([p EXCEPT ![t] = x], P) = Where(p, P) \ {t}
  BY DEF Where
<1>2. t \in Where(p, P)
  BY DEF Where
<1> QED
  BY <1>1, <1>2, WhereFinite, FS_RemoveElement

(* A step from inside to inside, or from outside to outside: the same.     *)
LEMMA WhereKeeps ==
  ASSUME NEW p \in [Threads -> WorkerPC], NEW P, NEW t \in Threads, NEW x,
         p[t] \in P <=> x \in P
  PROVE  Where([p EXCEPT ![t] = x], P) = Where(p, P)
  BY DEF Where

(* The counters and the sets they count, as Where.                         *)
LEMMA CountersWhere ==
  /\ CountersExact <=> /\ num_threads_busy = Cardinality(Where(pc, BusyPC))
                       /\ num_threads_alive = Cardinality(Where(pc, AlivePC))
  /\ CountersExact' <=> /\ num_threads_busy' = Cardinality(Where(pc', BusyPC))
                        /\ num_threads_alive' = Cardinality(Where(pc', AlivePC))
<1>1. BusySet = Where(pc, BusyPC) /\ AliveSet = Where(pc, AlivePC)
  BY DEF BusySet, AliveSet, Where
<1>2. BusySet' = Where(pc', BusyPC) /\ AliveSet' = Where(pc', AlivePC)
  BY DEF BusySet, AliveSet, Where
<1> QED
  BY <1>1, <1>2 DEF CountersExact
-----------------------------------------------------------------------------
(* The counters.  A step that moves a worker between two places that are   *)
(* both counted, or both not, and leaves the counters alone.               *)
LEMMA PcKeepsCounters ==
  ASSUME TypeRest, CountersExact, NEW t \in Threads, NEW to,
         pc' = [pc EXCEPT ![t] = to],
         pc[t] \in BusyPC <=> to \in BusyPC,
         pc[t] \in AlivePC <=> to \in AlivePC,
         UNCHANGED count
  PROVE  CountersExact'
<1>1. pc \in [Threads -> WorkerPC]
  BY DEF TypeRest
<1>2. Where(pc', BusyPC) = Where(pc, BusyPC)
  BY <1>1, WhereKeeps
<1>3. Where(pc', AlivePC) = Where(pc, AlivePC)
  BY <1>1, WhereKeeps
<1> QED
  BY <1>2, <1>3, CountersWhere DEF count

(* A new task wakes a waiting worker or nobody.                            *)
LEMMA SignalKeepsCounters ==
  ASSUME TypeRest, CountersExact, SleepersWait, Signal, UNCHANGED count
  PROVE  CountersExact'
<1>1. CASE cond_task_queue = {}
  BY <1>1, CountersWhere DEF Signal, count
<1>2. CASE cond_task_queue # {}
  <2>1. PICK w \in cond_task_queue : pc' = [pc EXCEPT ![w] = "relock"]
    BY <1>2 DEF Signal
  <2>2. w \in Threads /\ pc[w] = "waiting"
    BY DEF TypeRest, SleepersWait
  <2> QED
    BY <2>1, <2>2, PcKeepsCounters DEF BusyPC, AlivePC, WorkerPC
<1> QED
  BY <1>1, <1>2

(* rplib_tpool_thread_do keeps the counters exact.                         *)
LEMMA WorkerCounters ==
  ASSUME TypeRest, CountersExact, NEW t \in Threads,
         WorkerStep(t) \/ SpuriousWakeup(t)
  PROVE  CountersExact'
<1>0. pc \in [Threads -> WorkerPC]
  BY DEF TypeRest
<1>1. CASE Start(t)
  <2>1. PICK to \in {"loop"} :
          pc[t] \in {"start"} /\ pc' = [pc EXCEPT ![t] = to]
    BY <1>1 DEF Start, Goto
  <2>2. /\ pc[t] \notin BusyPC /\ to \notin BusyPC
        /\ pc[t] \notin AlivePC /\ to \in AlivePC
    BY <2>1 DEF BusyPC, AlivePC, WorkerPC
  <2>3. Where(pc', BusyPC) = Where(pc, BusyPC)
    BY <1>0, <2>1, <2>2, WhereKeeps
  <2>4. Cardinality(Where(pc', AlivePC)) = Cardinality(Where(pc, AlivePC)) + 1
    BY <1>0, <2>1, <2>2, WhereGains
  <2> QED
    BY <1>1, <2>3, <2>4, CountersWhere DEF Start
<1>2. CASE Busy(t) \/ BusyAgain(t)
  <2>1. PICK to \in {"lockq", "check"} :
          pc[t] \in {"loop", "rebusy"} /\ pc' = [pc EXCEPT ![t] = to]
    BY <1>2 DEF Busy, BusyAgain, Goto
  <2>2. /\ pc[t] \notin BusyPC /\ to \in BusyPC
        /\ pc[t] \in AlivePC /\ to \in AlivePC
    BY <2>1 DEF BusyPC, AlivePC, WorkerPC
  <2>3. Cardinality(Where(pc', BusyPC)) = Cardinality(Where(pc, BusyPC)) + 1
    BY <1>0, <2>1, <2>2, WhereGains
  <2>4. Where(pc', AlivePC) = Where(pc, AlivePC)
    BY <1>0, <2>1, <2>2, WhereKeeps
  <2> QED
    BY <1>2, <2>3, <2>4, CountersWhere DEF Busy, BusyAgain
<1>3. CASE NotBusy(t) \/ TaskDone(t)
  <2>1. PICK to \in {"wait", "loop"} :
          pc[t] \in {"unbusy", "done"} /\ pc' = [pc EXCEPT ![t] = to]
    BY <1>3 DEF NotBusy, TaskDone, Goto
  <2>2. /\ pc[t] \in BusyPC /\ to \notin BusyPC
        /\ pc[t] \in AlivePC /\ to \in AlivePC
    BY <2>1 DEF BusyPC, AlivePC, WorkerPC
  <2>3. Cardinality(Where(pc', BusyPC)) = Cardinality(Where(pc, BusyPC)) - 1
    BY <1>0, <2>1, <2>2, WhereLoses
  <2>4. Where(pc', AlivePC) = Where(pc, AlivePC)
    BY <1>0, <2>1, <2>2, WhereKeeps
  <2> QED
    BY <1>3, <2>3, <2>4, CountersWhere DEF NotBusy, TaskDone
<1>4. CASE Exit(t)
  <2>1. PICK to \in {"gone"} :
          pc[t] \in {"exit"} /\ pc' = [pc EXCEPT ![t] = to]
    BY <1>4 DEF Exit, Goto
  <2>2. /\ pc[t] \in BusyPC /\ to \notin BusyPC
        /\ pc[t] \in AlivePC /\ to \notin AlivePC
    BY <2>1 DEF BusyPC, AlivePC, WorkerPC
  <2>3. Cardinality(Where(pc', BusyPC)) = Cardinality(Where(pc, BusyPC)) - 1
    BY <1>0, <2>1, <2>2, WhereLoses
  <2>4. Cardinality(Where(pc', AlivePC)) = Cardinality(Where(pc, AlivePC)) - 1
    BY <1>0, <2>1, <2>2, WhereLoses
  <2> QED
    BY <1>4, <2>3, <2>4, CountersWhere DEF Exit
<1>5. CASE LockQueue(t) \/ NoTask(t) \/ Leave(t) \/ TakeTask(t) \/ RunTask(t)
  <2>1. PICK to \in {"check", "unbusy", "exit", "run", "done"} :
          /\ pc[t] \in {"lockq", "check", "run"}
          /\ pc' = [pc EXCEPT ![t] = to]
          /\ UNCHANGED count
    BY <1>5 DEF LockQueue, NoTask, Leave, TakeTask, RunTask, Goto, count
  <2> QED
    BY <2>1, PcKeepsCounters DEF BusyPC, AlivePC, WorkerPC
<1>6. CASE CondWait(t) \/ SpuriousWakeup(t) \/ Relock(t)
  <2>1. PICK to \in {"waiting", "relock", "rebusy"} :
          /\ pc[t] \in {"wait", "waiting", "relock"}
          /\ pc' = [pc EXCEPT ![t] = to]
          /\ UNCHANGED count
    BY <1>6 DEF CondWait, SpuriousWakeup, Relock, Goto, count
  <2> QED
    BY <2>1, PcKeepsCounters DEF BusyPC, AlivePC, WorkerPC
<1> QED
  BY <1>1, <1>2, <1>3, <1>4, <1>5, <1>6 DEF WorkerStep

(* So does everything the owner does, and a task that submits another one. *)
LEMMA OtherCounters ==
  ASSUME TypeRest, CountersExact, SleepersWait, LoopInRange,
         OwnerNext \/ \E t \in Threads : TaskEnqueues(t) \/ TaskEnqueueFails(t)
  PROVE  CountersExact'
<1>1. CASE CreateThread
  <2>1. loop_index + 1 \in Threads
    BY <1>1, PoolAssumption DEF TypeRest, CreateThread, Threads
  <2>2. /\ pc[loop_index + 1] = "uncreated"
        /\ pc' = [pc EXCEPT ![loop_index + 1] = "start"]
        /\ UNCHANGED count
    BY <1>1 DEF CreateThread, Goto
  <2> QED
    BY <2>1, <2>2, PcKeepsCounters DEF BusyPC, AlivePC
<1>2. CASE Broadcast
  <2>1. /\ pc' = [t \in Threads |-> IF t \in cond_task_queue THEN "relock" ELSE pc[t]]
        /\ UNCHANGED count
    BY <1>2 DEF Broadcast
  <2>2. \A t \in Threads : pc'[t] # pc[t] => pc[t] = "waiting" /\ pc'[t] = "relock"
    BY <2>1 DEF SleepersWait
  <2>3. Where(pc', BusyPC) = Where(pc, BusyPC)
    <3>1. \A t \in Threads : pc'[t] \in BusyPC <=> pc[t] \in BusyPC
      BY <2>2 DEF BusyPC
    <3> QED
      BY <3>1 DEF Where
  <2>4. Where(pc', AlivePC) = Where(pc, AlivePC)
    <3>1. \A t \in Threads : pc'[t] \in AlivePC <=> pc[t] \in AlivePC
      BY <2>2 DEF AlivePC, WorkerPC
    <3> QED
      BY <3>1 DEF Where
  <2> QED
    BY <2>1, <2>3, <2>4, CountersWhere DEF count
<1>3. CASE EnqueueTask
  BY <1>3, SignalKeepsCounters DEF EnqueueTask
<1>4. CASE UNCHANGED <<pc, count>>
  BY <1>4, CountersWhere DEF count
<1>5. ASSUME NEW c, EnqueueTaskFails(c) PROVE UNCHANGED <<pc, count>>
  BY <1>5 DEF EnqueueTaskFails
<1>6. CASE \/ CreateThreadFails \/ Destroy \/ WaitLock \/ WaitBusy \/ WaitSize
           \/ WaitReturns \/ WaitSpurious \/ Terminate \/ Join
  <2>1. UNCHANGED <<pc, count>>
    BY <1>6 DEF CreateThreadFails, Destroy, WaitLock, WaitBusy, WaitSize,
                WaitReturns, WaitSpurious, Terminate, Join
  <2> QED
    BY <2>1, <1>4
<1> QED
  BY <1>1, <1>2, <1>3, <1>4, <1>5, <1>6
  DEF OwnerNext, OwnerStep, OwnerEnqueues, OwnerEnqueueFails, TaskEnqueues, TaskEnqueueFails
-----------------------------------------------------------------------------
(* The types of the other variables.                                       *)
LEMMA TypeStep ==
  ASSUME TypeRest, LoopInRange, Next
  PROVE  TypeRest'
<1> USE PoolAssumption DEF TypeRest, Threads, Nobody, Owner, Tasks, sync, jobs, main
<1>1. CASE EnqueueTask
  <2>1. cond_task_queue' \subseteq Threads /\ pc' \in [Threads -> WorkerPC]
    BY <1>1 DEF EnqueueTask, Signal, WorkerPC
  <2>2. p_queue_tasks' \in Seq(Nat)
    BY <1>1 DEF EnqueueTask
  <2> QED
    BY <1>1, <2>1, <2>2 DEF EnqueueTask
<1>2. ASSUME NEW c \in Threads \cup {Owner}, EnqueueTaskFails(c)
      PROVE  TypeRest'
  BY <1>2 DEF EnqueueTaskFails, RPLIB_SUCCESS
<1>3. ASSUME NEW t \in Threads, WorkerStep(t) \/ SpuriousWakeup(t)
      PROVE  TypeRest'
  <2>1. CASE Start(t)
    BY <1>3, <2>1 DEF Start, Goto, WorkerPC
  <2>2. CASE Busy(t)
    BY <1>3, <2>2 DEF Busy, Goto, WorkerPC
  <2>3. CASE LockQueue(t)
    BY <1>3, <2>3 DEF LockQueue, Goto, WorkerPC
  <2>4. CASE NoTask(t)
    BY <1>3, <2>4 DEF NoTask, Goto, WorkerPC
  <2>5. CASE NotBusy(t)
    BY <1>3, <2>5 DEF NotBusy, Goto, WorkerPC
  <2>6. CASE CondWait(t)
    BY <1>3, <2>6 DEF CondWait, Goto, WorkerPC
  <2>7. CASE Relock(t)
    BY <1>3, <2>7 DEF Relock, Goto, WorkerPC
  <2>8. CASE BusyAgain(t)
    BY <1>3, <2>8 DEF BusyAgain, Goto, WorkerPC
  <2>9. CASE Leave(t)
    BY <1>3, <2>9 DEF Leave, Goto, WorkerPC
  <2>10. CASE TakeTask(t)
    BY <1>3, <2>10 DEF TakeTask, Goto, WorkerPC
  <2>11. CASE RunTask(t)
    BY <1>3, <2>11 DEF RunTask, Goto, WorkerPC
  <2>12. CASE TaskDone(t)
    BY <1>3, <2>12 DEF TaskDone, Goto, WorkerPC
  <2>13. CASE Exit(t)
    BY <1>3, <2>13 DEF Exit, Goto, WorkerPC
  <2>14. CASE SpuriousWakeup(t)
    BY <1>3, <2>14 DEF SpuriousWakeup, Goto, WorkerPC
  <2> QED
    BY <1>3, <2>1, <2>2, <2>3, <2>4, <2>5, <2>6, <2>7, <2>8, <2>9, <2>10, <2>11, <2>12, <2>13, <2>14 DEF WorkerStep
<1>4. CASE CreateThread
  BY <1>4 DEF CreateThread, Goto, WorkerPC, OwnerPC
<1>5. CASE CreateThreadFails
  BY <1>5 DEF CreateThreadFails, OwnerPC
<1>6. CASE Destroy
  BY <1>6 DEF Destroy, OwnerPC
<1>7. CASE WaitLock
  BY <1>7 DEF WaitLock, OwnerPC
<1>8. CASE WaitBusy
  BY <1>8 DEF WaitBusy, Block, OwnerPC
<1>9. CASE WaitSize
  BY <1>9 DEF WaitSize, Block, OwnerPC
<1>10. CASE WaitReturns
  BY <1>10 DEF WaitReturns, OwnerPC
<1>11. CASE WaitSpurious
  BY <1>11 DEF WaitSpurious, OwnerPC
<1>12. CASE Terminate
  BY <1>12 DEF Terminate, OwnerPC
<1>13. CASE Broadcast
  BY <1>13 DEF Broadcast, WorkerPC, OwnerPC
<1>14. CASE Join
  BY <1>14 DEF Join, LoopInRange, OwnerPC
<1> QED
  BY <1>1, <1>2, <1>3, <1>4, <1>5, <1>6, <1>7, <1>8, <1>9, <1>10, <1>11, <1>12, <1>13, <1>14
  DEF Next, OwnerNext, OwnerStep, OwnerEnqueues, OwnerEnqueueFails, Worker,
      TaskEnqueues, TaskEnqueueFails
-----------------------------------------------------------------------------
(* The steps of the pool, sorted by who takes them.                        *)
OwnerMoves ==
  \/ CreateThread \/ CreateThreadFails \/ Destroy \/ WaitLock \/ WaitBusy
  \/ WaitSize \/ WaitReturns \/ WaitSpurious \/ Terminate \/ Broadcast \/ Join

Submits ==
  \/ owner = "serving" /\ (EnqueueTask \/ EnqueueTaskFails(Owner))
  \/ \E t \in Threads : pc[t] = "run" /\ (EnqueueTask \/ EnqueueTaskFails(t))

(* Every step of the pool is one of them.                                  *)
LEMMA NextCases ==
  ASSUME Next
  PROVE  \/ OwnerMoves
         \/ Submits
         \/ \E t \in Threads : WorkerStep(t) \/ SpuriousWakeup(t)
  BY DEF Next, OwnerNext, OwnerStep, OwnerMoves, Submits, OwnerEnqueues,
         OwnerEnqueueFails, Worker, TaskEnqueues, TaskEnqueueFails

(* The workers and the submissions do not touch the owner's control.       *)
LEMMA OwnerControl ==
  ASSUME Submits \/ \E t \in Threads : WorkerStep(t) \/ SpuriousWakeup(t)
  PROVE  UNCHANGED <<owner, loop_index, mutex_thrd_count, b_terminate>>
<1>1. CASE Submits
  BY <1>1 DEF Submits, EnqueueTask, EnqueueTaskFails, main
<1>2. ASSUME NEW t \in Threads, WorkerStep(t) \/ SpuriousWakeup(t)
      PROVE  UNCHANGED <<owner, loop_index, mutex_thrd_count, b_terminate>>
  BY <1>2 DEF WorkerStep, Start, Busy, LockQueue, NoTask, NotBusy, CondWait,
     Relock, BusyAgain, Leave, TakeTask, RunTask, TaskDone, Exit,
     SpuriousWakeup, sync, main
<1> QED
  BY <1>1, <1>2

(* What the owner's program counter says of its loops, its mutex, its flag.*)
LEMMA ControlStep ==
  ASSUME TypeRest, LoopInRange, WaitHoldsCount, TerminateWhen, Next
  PROVE  (LoopInRange /\ WaitHoldsCount /\ TerminateWhen)'
<1> USE PoolAssumption
    DEF TypeRest, LoopInRange, WaitHoldsCount, TerminateWhen, Owner, Nobody
<1>1. CASE CreateThread
  BY <1>1 DEF CreateThread, sync, main
<1>2. CASE CreateThreadFails
  BY <1>2 DEF CreateThreadFails, sync, main
<1>3. CASE Destroy
  BY <1>3 DEF Destroy, sync, main
<1>4. CASE WaitLock
  BY <1>4 DEF WaitLock, sync, main
<1>5. CASE WaitBusy
  BY <1>5 DEF WaitBusy, Block, sync, main
<1>6. CASE WaitSize
  BY <1>6 DEF WaitSize, Block, sync, main
<1>7. CASE WaitReturns
  BY <1>7 DEF WaitReturns, sync, main
<1>8. CASE WaitSpurious
  BY <1>8 DEF WaitSpurious, sync, main
<1>9. CASE Terminate
  BY <1>9 DEF Terminate, sync, main
<1>10. CASE Broadcast
  BY <1>10 DEF Broadcast, sync, main
<1>11. CASE Join
  BY <1>11 DEF Join, sync, main
<1>12. CASE UNCHANGED <<owner, loop_index, mutex_thrd_count, b_terminate>>
  BY <1>12
<1> QED
  BY NextCases, OwnerControl, <1>1, <1>2, <1>3, <1>4, <1>5, <1>6, <1>7, <1>8, <1>9, <1>10, <1>11, <1>12 DEF OwnerMoves

(* A signal reaches only workers inside pthread_cond_wait.                 *)
LEMMA SleepStep ==
  ASSUME TypeRest, LoopInRange, SleepersWait, Next
  PROVE  SleepersWait'
<1> USE DEF TypeRest, SleepersWait
<1>1. CASE EnqueueTask
  BY <1>1 DEF EnqueueTask, Signal
<1>2. CASE UNCHANGED <<cond_task_queue, pc>>
  BY <1>2
<1>3. ASSUME NEW t \in Threads, SpuriousWakeup(t) \/ CondWait(t)
      PROVE  SleepersWait'
  BY <1>3 DEF SpuriousWakeup, CondWait, Goto
<1>4. ASSUME NEW t \in Threads, WorkerStep(t), ~CondWait(t)
      PROVE  SleepersWait'
  <2>1. UNCHANGED cond_task_queue /\ pc[t] # "waiting"
    BY <1>4 DEF WorkerStep, Start, Busy, LockQueue, NoTask, NotBusy, Relock,
       BusyAgain, Leave, TakeTask, RunTask, TaskDone, Exit, Goto, sync
  <2>2. \E to : pc' = [pc EXCEPT ![t] = to]
    BY <1>4 DEF WorkerStep, Start, Busy, LockQueue, NoTask, NotBusy, Relock,
       BusyAgain, Leave, TakeTask, RunTask, TaskDone, Exit, Goto
  <2> QED
    BY <2>1, <2>2
<1>5. CASE CreateThread
  BY <1>5 DEF CreateThread, Goto, sync
<1>6. CASE Broadcast
  BY <1>6 DEF Broadcast
<1>7. CASE OwnerMoves /\ ~CreateThread /\ ~Broadcast
  BY <1>7, <1>2 DEF OwnerMoves, CreateThreadFails, Destroy, WaitLock, WaitBusy,
     WaitSize, WaitReturns, WaitSpurious, Terminate, Join, Block, sync
<1>8. ASSUME NEW c, EnqueueTaskFails(c) PROVE SleepersWait'
  BY <1>8, <1>2 DEF EnqueueTaskFails
<1> QED
  BY NextCases, <1>1, <1>3, <1>4, <1>5, <1>6, <1>7, <1>8 DEF Submits

(* Between its two tests the owner holds mutex_thrd_count, without which   *)
(* no worker becomes busy.                                                 *)
LEMMA IdleStep ==
  ASSUME TypeRest, CountersExact, LoopInRange, SleepersWait, WaitHoldsCount,
         IdleAtSize, Next
  PROVE  IdleAtSize'
<1> USE DEF IdleAtSize, BusySet
<1>1. CASE WaitBusy
  <2>1. owner' = "size" => num_threads_busy = 0 /\ pc' = pc
    BY <1>1 DEF WaitBusy, Block
  <2>2. num_threads_busy = 0 => BusySet = {}
    BY WhereFinite, CountersWhere, FS_EmptySet DEF Where
  <2> QED
    BY <2>1, <2>2
<1>2. CASE OwnerMoves /\ ~WaitBusy
  BY <1>2 DEF OwnerMoves, CreateThread, CreateThreadFails, Destroy, WaitLock,
     WaitSize, WaitReturns, WaitSpurious, Terminate, Broadcast, Join, Block, main
<1>3. CASE EnqueueTask
  <2>1. \A t \in Threads : pc'[t] # pc[t] => pc'[t] = "relock"
    BY <1>3 DEF EnqueueTask, Signal, TypeRest
  <2> QED
    BY <1>3, <2>1 DEF EnqueueTask, main, BusyPC
<1>4. ASSUME NEW c, EnqueueTaskFails(c) PROVE IdleAtSize'
  BY <1>4 DEF EnqueueTaskFails, main
<1>5. ASSUME NEW t \in Threads, WorkerStep(t) \/ SpuriousWakeup(t), owner = "size"
      PROVE  BusySet' = {}
  <2>1. mutex_thrd_count # Nobody
    BY <1>5, PoolAssumption DEF WaitHoldsCount, Owner, Nobody
  <2>2. pc[t] \notin BusyPC
    BY <1>5
  <2>3. CondWait(t) \/ SpuriousWakeup(t) \/ Relock(t)
    BY <1>5, <2>1, <2>2 DEF WorkerStep, Start, Busy, LockQueue, NoTask, NotBusy,
       BusyAgain, Leave, TakeTask, RunTask, TaskDone, Exit, Goto, BusyPC
  <2>4. PICK to \in {"waiting", "relock", "rebusy"} : pc' = [pc EXCEPT ![t] = to]
    BY <2>3 DEF CondWait, SpuriousWakeup, Relock, Goto
  <2> QED
    BY <1>5, <2>4 DEF TypeRest, BusyPC
<1> QED
  BY NextCases, OwnerControl, <1>1, <1>2, <1>3, <1>4, <1>5 DEF Submits

(* A thread that has returned stays so, and the owner counts only those.   *)
LEMMA JoinStep ==
  ASSUME TypeRest, LoopInRange, SleepersWait, JoinedGone, Next
  PROVE  JoinedGone'
<1> USE PoolAssumption DEF JoinedGone
<1>1. CASE Join
  <2>1. /\ owner = "join" /\ pc' = pc /\ loop_index' = loop_index + 1
        /\ loop_index \in 0 .. NumThreads
    BY <1>1 DEF Join, TypeRest
  <2>2. CASE pc[loop_index + 1] = "uncreated"
    <3>1. owner' = "crashed"
      BY <1>1, <2>2 DEF Join
    <3> QED
      BY <3>1
  <2>3. CASE pc[loop_index + 1] = "gone"
    <3>1. \A t \in 1 .. loop_index' : pc'[t] = "gone"
      BY <2>1, <2>3
    <3>2. loop_index' # NumThreads => owner' = "join"
      BY <1>1, <2>3 DEF Join
    <3>3. loop_index' = NumThreads => owner' = "destroyed"
      BY <1>1, <2>3 DEF Join
    <3> QED
      BY <3>1, <3>2, <3>3 DEF Threads
  <2> QED
    BY <1>1, <2>2, <2>3 DEF Join
<1>2. CASE OwnerMoves /\ ~Join
  BY <1>2 DEF OwnerMoves, CreateThread, CreateThreadFails, Destroy, WaitLock,
     WaitBusy, WaitSize, WaitReturns, WaitSpurious, Terminate, Broadcast, Block, main
<1>3. ASSUME Submits \/ \E t \in Threads : WorkerStep(t) \/ SpuriousWakeup(t)
      PROVE  \A u \in Threads : pc[u] = "gone" => pc'[u] = "gone"
  <2>1. CASE EnqueueTask
    BY <2>1 DEF EnqueueTask, Signal, SleepersWait, TypeRest
  <2>2. ASSUME NEW c, EnqueueTaskFails(c)
        PROVE  \A u \in Threads : pc[u] = "gone" => pc'[u] = "gone"
    BY <2>2 DEF EnqueueTaskFails
  <2>3. ASSUME NEW t \in Threads, WorkerStep(t) \/ SpuriousWakeup(t)
        PROVE  \A u \in Threads : pc[u] = "gone" => pc'[u] = "gone"
    BY <2>3 DEF WorkerStep, Start, Busy, LockQueue, NoTask, NotBusy, CondWait,
       Relock, BusyAgain, Leave, TakeTask, RunTask, TaskDone, Exit,
       SpuriousWakeup, Goto, TypeRest
  <2> QED
    BY <1>3, <2>1, <2>2, <2>3 DEF Submits
<1>4. CASE Submits \/ \E t \in Threads : WorkerStep(t) \/ SpuriousWakeup(t)
  <2>1. UNCHANGED <<owner, loop_index>>
    BY <1>4, OwnerControl
  <2>2. 1 .. loop_index \subseteq Threads
    BY DEF TypeRest, Threads
  <2> QED
    BY <1>3, <1>4, <2>1, <2>2
<1> QED
  BY NextCases, <1>1, <1>2, <1>4

(* After a graceful wait the queue is empty, so no worker finds a task, and*)
(* no task runs, so nobody submits one.                                    *)
LEMMA WaitSafeStep ==
  ASSUME TypeRest, LoopInRange, SleepersWait, IdleAtSize, WaitSafe, Next
  PROVE  WaitSafe'
<1> USE DEF WaitSafe, PastWait
<1>1. CASE WaitSize
  <2>1. owner = "size" /\ pc' = pc /\ p_queue_tasks' = p_queue_tasks
    BY <1>1 DEF WaitSize
  <2>2. \A t \in Threads : pc[t] # "run"
    BY <2>1 DEF IdleAtSize, BusySet, BusyPC
  <2>3. PastWait' => p_queue_tasks = << >>
    BY <1>1 DEF WaitSize, Block, TypeRest
  <2> QED
    BY <2>1, <2>2, <2>3
<1>2. CASE Broadcast
  BY <1>2 DEF Broadcast
<1>3. CASE OwnerMoves /\ ~WaitSize /\ ~Broadcast
  BY <1>3 DEF OwnerMoves, CreateThread, CreateThreadFails, Destroy, WaitLock,
     WaitBusy, WaitReturns, WaitSpurious, Terminate, Join, Block, main
<1>4. ASSUME ~Immediate, PastWait, Submits PROVE FALSE
  BY <1>4 DEF Submits
<1>5. ASSUME NEW t \in Threads, WorkerStep(t) \/ SpuriousWakeup(t),
             ~Immediate, PastWait
      PROVE  p_queue_tasks' = << >> /\ \A u \in Threads : pc'[u] # "run"
  BY <1>5 DEF WorkerStep, Start, Busy, LockQueue, NoTask, NotBusy, CondWait,
     Relock, BusyAgain, Leave, TakeTask, RunTask, TaskDone, Exit,
     SpuriousWakeup, Goto, TypeRest
<1> QED
  BY NextCases, OwnerControl, <1>1, <1>2, <1>3, <1>4, <1>5
-----------------------------------------------------------------------------
(* The invariant holds at the start, ...                                   *)
LEMMA InitIInv == Init => IInv
<1> SUFFICES ASSUME Init PROVE IInv
  OBVIOUS
<1>1. TypeRest
  <2>1. pc \in [Threads -> WorkerPC] /\ p_arg \in [Threads -> Nat]
    BY DEF Init, WorkerPC
  <2>2. loop_index \in 0 .. NumThreads /\ submitted \in 0 .. MaxTasks
    BY PoolAssumption DEF Init
  <2>3. p_queue_tasks \in Seq(Nat)
    BY DEF Init
  <2>4. cond_threads_idle \in BOOLEAN /\ b_terminate \in BOOLEAN
    BY DEF Init
  <2> QED
    BY <2>1, <2>2, <2>3, <2>4 DEF Init, TypeRest, OwnerPC
<1>2. CountersExact
  <2>1. BusySet = {} /\ AliveSet = {}
    BY DEF Init, BusySet, AliveSet, BusyPC, AlivePC
  <2> QED
    BY <2>1, FS_EmptySet DEF Init, CountersExact
<1>3. LoopInRange /\ SleepersWait /\ WaitHoldsCount /\ IdleAtSize
  BY PoolAssumption DEF Init, LoopInRange, SleepersWait, WaitHoldsCount,
     IdleAtSize, Owner, Nobody
<1>4. TerminateWhen /\ JoinedGone /\ WaitSafe
  BY DEF Init, TerminateWhen, JoinedGone, WaitSafe, PastWait
<1> QED
  BY <1>1, <1>2, <1>3, <1>4 DEF IInv

(* ... and every step keeps it.                                            *)
LEMMA StepIInv == IInv /\ [Next]_vars => IInv'
<1> SUFFICES ASSUME IInv, [Next]_vars PROVE IInv'
  OBVIOUS
<1> USE DEF IInv
<1>1. CASE Next
  <2>1. CountersExact'
    BY <1>1, NextCases, WorkerCounters, OtherCounters
    DEF OwnerMoves, Submits, OwnerNext, OwnerStep, TaskEnqueues, TaskEnqueueFails,
        OwnerEnqueues, OwnerEnqueueFails
  <2>2. TypeRest'
    BY <1>1, TypeStep
  <2>3. (LoopInRange /\ WaitHoldsCount /\ TerminateWhen)'
    BY <1>1, ControlStep
  <2>4. SleepersWait'
    BY <1>1, SleepStep
  <2>5. IdleAtSize'
    BY <1>1, IdleStep
  <2>6. JoinedGone'
    BY <1>1, JoinStep
  <2>7. WaitSafe'
    BY <1>1, WaitSafeStep
  <2> QED
    BY <2>1, <2>2, <2>3, <2>4, <2>5, <2>6, <2>7
<1>2. CASE UNCHANGED vars
  BY <1>2 DEF vars, sync, count, jobs, main, TypeRest, CountersExact, BusySet,
     AliveSet, LoopInRange, SleepersWait, WaitHoldsCount, IdleAtSize,
     TerminateWhen, JoinedGone, WaitSafe, PastWait
<1> QED
  BY <1>1, <1>2

(* The inductive invariant holds in every reachable state.                 *)
THEOREM Inductive == Spec => []IInv
  BY InitIInv, StepIInv, PTL DEF Spec

(* The pool's variables keep their types; the two size_t counters never    *)
(* wrap below zero.                                                        *)
THEOREM PoolTypes == Spec => []TypeOK
<1>1. IInv => TypeOK
  <2>1. IInv => num_threads_busy \in Nat /\ num_threads_alive \in Nat
    BY CountersWhere, WhereFinite DEF IInv
  <2> QED
    BY <2>1 DEF IInv, TypeRest, TypeOK
<1> QED
  BY <1>1, Inductive, PTL

(* num_threads_busy and num_threads_alive count the workers exactly,       *)
(* whatever the interleaving of their critical sections.                   *)
THEOREM PoolCounters == Spec => []CountersExact
<1>1. IInv => CountersExact
  BY DEF IInv
<1> QED
  BY <1>1, Inductive, PTL

(* A graceful rplib_tpool_destroy goes on only when no task is queued or   *)
(* running, and none comes after.                                          *)
THEOREM PoolWaitSafe == Spec => []WaitSafe
<1>1. IInv => WaitSafe
  BY DEF IInv
<1> QED
  BY <1>1, Inductive, PTL

(* The unprotected read of the queue's size in rplib_tpool_wait races with *)
(* nobody.                                                                 *)
THEOREM PoolNoRace == Spec => []NoRaceOnSize
<1>1. IInv => NoRaceOnSize
  BY DEF IInv, IdleAtSize, NoRaceOnSize, BusySet, BusyPC
<1> QED
  BY <1>1, Inductive, PTL
-----------------------------------------------------------------------------
(* ThreadPool implements TaskService, and loses no task.  Added to the     *)
(* invariant above is where a task may be: queued, running or done, one of *)
(* the three and once.                                                     *)


Elems(s)    == {s[i] : i \in DOMAIN s}
Distinct(s) == \A i, j \in DOMAIN s : s[i] = s[j] => i = j

(* Tasks are numbered in the order of their submission, ...                *)
KnownTasks == Queued \cup Running \cup done \subseteq 1 .. submitted

(* ... a task is queued once, ...                                          *)
QueuedOnce == Distinct(p_queue_tasks)

(* ... run by one worker, ...                                              *)
RunByOne ==
  \A t, u \in Threads :
    pc[t] = "run" /\ pc[u] = "run" /\ p_arg[t] = p_arg[u] => t = u

(* ... and in one of the three places.                                     *)
OnePlace == Queued \cap (Running \cup done) = {} /\ Running \cap done = {}

TInv == IInv /\ KnownTasks /\ QueuedOnce /\ RunByOne /\ OnePlace
-----------------------------------------------------------------------------
(* Append adds one element, at the end.                                    *)
LEMMA AppendElems ==
  ASSUME NEW s \in Seq(Nat), NEW e \in Nat
  PROVE  /\ Elems(Append(s, e)) = Elems(s) \cup {e}
         /\ Distinct(s) /\ e \notin Elems(s) => Distinct(Append(s, e))
<1>1. /\ DOMAIN Append(s, e) = 1 .. Len(s) + 1 /\ DOMAIN s = 1 .. Len(s)
      /\ Len(s) \in Nat
  OBVIOUS
<1>2. /\ \A i \in 1 .. Len(s) : Append(s, e)[i] = s[i]
      /\ Append(s, e)[Len(s) + 1] = e
  OBVIOUS
<1>3. Elems(Append(s, e)) = Elems(s) \cup {e}
  BY <1>1, <1>2 DEF Elems
<1>4. ASSUME Distinct(s), e \notin Elems(s) PROVE Distinct(Append(s, e))
  BY <1>1, <1>2, <1>4 DEF Elems, Distinct
<1> QED
  BY <1>3, <1>4

(* Tail removes the head and nothing else, if elements are distinct.       *)
LEMMA TailElems ==
  ASSUME NEW s \in Seq(Nat), s # << >>, Distinct(s)
  PROVE  /\ Elems(Tail(s)) = Elems(s) \ {Head(s)}
         /\ Head(s) \in Elems(s)
         /\ Distinct(Tail(s))
<1>1. /\ DOMAIN Tail(s) = 1 .. Len(s) - 1 /\ DOMAIN s = 1 .. Len(s)
      /\ Len(s) \in Nat \ {0} /\ Head(s) = s[1]
  OBVIOUS
<1>2. \A i \in 1 .. Len(s) - 1 : Tail(s)[i] = s[i + 1]
  OBVIOUS
<1>3. ASSUME NEW x PROVE x \in Elems(Tail(s)) <=> x \in Elems(s) \ {Head(s)}
  <2>1. x \in Elems(Tail(s)) => x \in Elems(s) \ {Head(s)}
    BY <1>1, <1>2 DEF Elems, Distinct
  <2>2. ASSUME x \in Elems(s), x # Head(s) PROVE x \in Elems(Tail(s))
    <3>1. PICK i \in 1 .. Len(s) : x = s[i] /\ i # 1
      BY <1>1, <2>2 DEF Elems
    <3>2. i - 1 \in 1 .. Len(s) - 1 /\ Tail(s)[i - 1] = x
      BY <1>1, <1>2, <3>1
    <3> QED
      BY <1>1, <3>2 DEF Elems
  <2> QED
    BY <2>1, <2>2
<1>4. Head(s) \in Elems(s)
  BY <1>1 DEF Elems
<1>5. Distinct(Tail(s))
  BY SMTT(20), <1>1, <1>2 DEF Distinct
<1> QED
  BY <1>3, <1>4, <1>5
-----------------------------------------------------------------------------
(* What the steps of the pool do to the tasks.                             *)

(* The tasks that run change only when a worker takes or finishes one.     *)
LEMMA RunningKeeps ==
  ASSUME \A t \in Threads : pc'[t] = "run" <=> pc[t] = "run", UNCHANGED p_arg
  PROVE  Running' = Running /\ (RunByOne => RunByOne')
  BY DEF Running, RunByOne

(* rplib_tpool_enqueue_task adds the next task at the end of the queue.    *)
LEMMA EnqueueEffect ==
  ASSUME IInv, EnqueueTask
  PROVE  /\ p_queue_tasks' = Append(p_queue_tasks, submitted + 1)
         /\ submitted + 1 \in Tasks
         /\ submitted' = submitted + 1
         /\ accepted' = accepted \cup {submitted + 1}
         /\ UNCHANGED <<done, b_terminate, p_arg>>
         /\ Running' = Running /\ (RunByOne => RunByOne')
<1>1. \A t \in Threads : pc'[t] = "run" <=> pc[t] = "run"
  BY DEF EnqueueTask, Signal, IInv, TypeRest, SleepersWait
<1>2. submitted + 1 \in Tasks
  BY PoolAssumption DEF EnqueueTask, IInv, TypeRest, Tasks
<1> QED
  BY <1>1, <1>2, RunningKeeps DEF EnqueueTask

(* A worker takes the oldest task.                                         *)
LEMMA TakeEffect ==
  ASSUME IInv, NEW t \in Threads, TakeTask(t)
  PROVE  /\ p_queue_tasks # << >> /\ p_queue_tasks' = Tail(p_queue_tasks)
         /\ Running' = Running \cup {Head(p_queue_tasks)}
         /\ ~b_terminate
         /\ UNCHANGED <<done, b_terminate, submitted, accepted>>
<1>1. /\ pc[t] = "check" /\ pc' = [pc EXCEPT ![t] = "run"]
      /\ p_arg' = [p_arg EXCEPT ![t] = Head(p_queue_tasks)]
  BY DEF TakeTask, Goto
<1>2. pc \in [Threads -> WorkerPC] /\ p_arg \in [Threads -> Nat]
  BY DEF IInv, TypeRest
<1>3. Running' = Running \cup {Head(p_queue_tasks)}
  BY <1>1, <1>2 DEF Running
<1> QED
  BY <1>3 DEF TakeTask, jobs

(* A task returns.                                                         *)
LEMMA RunEffect ==
  ASSUME IInv, RunByOne, NEW t \in Threads, RunTask(t)
  PROVE  /\ p_arg[t] \in Running
         /\ Running' = Running \ {p_arg[t]}
         /\ done' = done \cup {p_arg[t]}
         /\ UNCHANGED <<p_queue_tasks, b_terminate, submitted, accepted>>
         /\ RunByOne'
<1>1. /\ pc[t] = "run" /\ pc' = [pc EXCEPT ![t] = "done"]
      /\ p_arg' = [p_arg EXCEPT ![t] = 0]
  BY DEF RunTask, Goto
<1>2. pc \in [Threads -> WorkerPC] /\ p_arg \in [Threads -> Nat]
  BY DEF IInv, TypeRest
<1>3. p_arg[t] \in Running
  BY <1>1 DEF Running
<1>4. Running' = Running \ {p_arg[t]}
  BY <1>1, <1>2 DEF Running, RunByOne
<1>5. RunByOne'
  BY <1>1, <1>2 DEF RunByOne
<1> QED
  BY <1>3, <1>4, <1>5 DEF RunTask

(* The steps that move no task.                                            *)
Quiet ==
  \/ OwnerMoves /\ ~Terminate
  \/ \E c \in Threads \cup {Owner} : EnqueueTaskFails(c)
  \/ \E t \in Threads : /\ WorkerStep(t) \/ SpuriousWakeup(t)
                        /\ ~TakeTask(t) /\ ~RunTask(t)

(* They change neither the queue nor what runs, is done, or is terminated. *)
LEMMA QuietEffect ==
  ASSUME IInv, Quiet
  PROVE  /\ UNCHANGED <<p_queue_tasks, done, b_terminate, p_arg>>
         /\ Running' = Running /\ (RunByOne => RunByOne')
         /\ submitted' \in {submitted, submitted + 1}
         /\ ~AllocMayFail => UNCHANGED accepted
<1> USE DEF IInv, TypeRest
<1>1. CASE OwnerMoves /\ ~Terminate
  <2>1. UNCHANGED <<p_queue_tasks, done, b_terminate, p_arg, submitted, accepted>>
    BY <1>1 DEF OwnerMoves, CreateThread, CreateThreadFails, Destroy, WaitLock,
       WaitBusy, WaitSize, WaitReturns, WaitSpurious, Broadcast, Join, jobs
  <2>2. CASE Broadcast
    <3>1. \A t \in Threads : pc'[t] = "run" <=> pc[t] = "run"
      BY <2>2 DEF Broadcast, SleepersWait
    <3> QED
      BY <2>1, <3>1, RunningKeeps
  <2>3. CASE CreateThread
    <3>1. \A t \in Threads : pc'[t] = "run" <=> pc[t] = "run"
      BY <2>3 DEF CreateThread, Goto
    <3> QED
      BY <2>1, <3>1, RunningKeeps
  <2>4. CASE ~Broadcast /\ ~CreateThread
    <3>1. UNCHANGED pc
      BY <1>1, <2>4 DEF OwnerMoves, CreateThreadFails, Destroy, WaitLock,
         WaitBusy, WaitSize, WaitReturns, WaitSpurious, Join
    <3> QED
      BY <2>1, <3>1, RunningKeeps
  <2> QED
    BY <2>2, <2>3, <2>4
<1>2. ASSUME NEW c, EnqueueTaskFails(c)
      PROVE  /\ UNCHANGED <<p_queue_tasks, done, b_terminate, p_arg, pc>>
             /\ submitted' = submitted + 1
             /\ AllocMayFail
  BY <1>2 DEF EnqueueTaskFails
<1>3. ASSUME NEW t \in Threads, WorkerStep(t) \/ SpuriousWakeup(t),
             ~TakeTask(t), ~RunTask(t)
      PROVE  /\ UNCHANGED <<p_queue_tasks, done, b_terminate, p_arg, submitted, accepted>>
             /\ \A u \in Threads : pc'[u] = "run" <=> pc[u] = "run"
  <2>1. UNCHANGED <<p_queue_tasks, done, b_terminate, p_arg, submitted, accepted>>
    BY <1>3 DEF WorkerStep, Start, Busy, LockQueue, NoTask, NotBusy, CondWait,
       Relock, BusyAgain, Leave, TaskDone, Exit, SpuriousWakeup, jobs
  <2>2. PICK to \in WorkerPC \ {"run"} : pc[t] # "run" /\ pc' = [pc EXCEPT ![t] = to]
    BY <1>3 DEF WorkerStep, Start, Busy, LockQueue, NoTask, NotBusy, CondWait,
       Relock, BusyAgain, Leave, TaskDone, Exit, SpuriousWakeup, Goto, WorkerPC
  <2> QED
    BY <2>1, <2>2
<1>4. CASE \E c \in Threads \cup {Owner} : EnqueueTaskFails(c)
  BY <1>2, <1>4, RunningKeeps
<1>5. CASE \E t \in Threads : /\ WorkerStep(t) \/ SpuriousWakeup(t)
                             /\ ~TakeTask(t) /\ ~RunTask(t)
  BY <1>3, <1>5, RunningKeeps
<1> QED
  BY <1>1, <1>4, <1>5 DEF Quiet

(* Terminate sets the flag and moves no task.                              *)
LEMMA TerminateEffect ==
  ASSUME IInv, Terminate
  PROVE  /\ UNCHANGED <<p_queue_tasks, done, p_arg, submitted, accepted>>
         /\ Running' = Running /\ (RunByOne => RunByOne')
         /\ ~b_terminate /\ b_terminate'
         /\ Immediate \/ (p_queue_tasks = << >> /\ Running = {})
<1>1. Running' = Running /\ (RunByOne => RunByOne')
  BY RunningKeeps DEF Terminate
<1>2. ~Immediate => p_queue_tasks = << >> /\ Running = {}
  BY DEF Terminate, IInv, WaitSafe, PastWait, Running
<1>3. ~b_terminate
  BY DEF Terminate, IInv, TerminateWhen
<1> QED
  BY <1>1, <1>2, <1>3 DEF Terminate, jobs

(* Every step is one of these five kinds.                                  *)
LEMMA TaskCases ==
  ASSUME Next
  PROVE  \/ Terminate
         \/ EnqueueTask /\ (owner = "serving" \/ \E t \in Threads : pc[t] = "run")
         \/ \E t \in Threads : TakeTask(t)
         \/ \E t \in Threads : RunTask(t)
         \/ Quiet
  BY NextCases DEF Submits, Quiet
-----------------------------------------------------------------------------
(* The tasks' invariant is kept.                                           *)
LEMMA StepTInv == TInv /\ [Next]_vars => TInv'
<1> SUFFICES ASSUME TInv, [Next]_vars PROVE TInv'
  OBVIOUS
<1>0. IInv'
  BY StepIInv DEF TInv
<1>1. /\ IInv /\ KnownTasks /\ QueuedOnce /\ RunByOne /\ OnePlace
      /\ p_queue_tasks \in Seq(Nat) /\ submitted \in Nat
  BY PoolAssumption DEF TInv, IInv, TypeRest
<1>2. Queued = Elems(p_queue_tasks) /\ Queued' = Elems(p_queue_tasks')
  BY DEF Queued, Elems
<1>3. CASE EnqueueTask
  <2>1. submitted + 1 \notin Queued \cup Running \cup done
    BY <1>1 DEF KnownTasks
  <2>a. p_queue_tasks' = Append(p_queue_tasks, submitted + 1) /\ submitted + 1 \in Nat
    BY <1>1, <1>3, EnqueueEffect
  <2>2. Queued' = Queued \cup {submitted + 1} /\ QueuedOnce'
    BY <1>1, <1>2, <2>1, <2>a, AppendElems DEF QueuedOnce
  <2>3. KnownTasks'
    BY <1>1, <1>3, <2>2, EnqueueEffect DEF KnownTasks
  <2>4. OnePlace' /\ RunByOne'
    BY <1>1, <1>3, <2>1, <2>2, EnqueueEffect DEF OnePlace
  <2> QED
    BY <1>0, <2>2, <2>3, <2>4 DEF TInv
<1>4. ASSUME NEW t \in Threads, TakeTask(t) PROVE TInv'
  <2>1. /\ Queued' = Queued \ {Head(p_queue_tasks)} /\ QueuedOnce'
        /\ Head(p_queue_tasks) \in Queued
    BY <1>1, <1>2, <1>4, TakeEffect, TailElems DEF QueuedOnce
  <2>2. KnownTasks' /\ OnePlace'
    BY <1>1, <1>4, <2>1, TakeEffect DEF KnownTasks, OnePlace
  <2>3. RunByOne'
    <3>1. /\ pc' = [pc EXCEPT ![t] = "run"]
          /\ p_arg' = [p_arg EXCEPT ![t] = Head(p_queue_tasks)]
      BY <1>4 DEF TakeTask, Goto
    <3>2. pc \in [Threads -> WorkerPC] /\ p_arg \in [Threads -> Nat]
      BY <1>1 DEF IInv, TypeRest
    <3>3. \A u \in Threads : pc[u] = "run" => p_arg[u] # Head(p_queue_tasks)
      BY <1>1, <2>1 DEF OnePlace, Running
    <3> QED
      BY <1>1, <3>1, <3>2, <3>3 DEF RunByOne
  <2> QED
    BY <1>0, <2>1, <2>2, <2>3 DEF TInv
<1>5. ASSUME NEW t \in Threads, RunTask(t) PROVE TInv'
  <2>1. Queued' = Queued /\ QueuedOnce'
    BY <1>1, <1>2, <1>5, RunEffect DEF QueuedOnce
  <2>2. KnownTasks' /\ OnePlace' /\ RunByOne'
    BY <1>1, <1>5, <2>1, RunEffect DEF KnownTasks, OnePlace
  <2> QED
    BY <1>0, <2>1, <2>2 DEF TInv
<1>6. CASE Terminate \/ Quiet
  <2>1. /\ UNCHANGED <<p_queue_tasks, done>> /\ Running' = Running /\ RunByOne'
        /\ submitted' \in {submitted, submitted + 1}
    BY <1>1, <1>6, QuietEffect, TerminateEffect
  <2>2. Queued' = Queued /\ QueuedOnce'
    BY <1>1, <1>2, <2>1 DEF QueuedOnce
  <2>3. KnownTasks' /\ OnePlace'
    BY <1>1, <2>1, <2>2 DEF KnownTasks, OnePlace
  <2> QED
    BY <1>0, <2>1, <2>2, <2>3 DEF TInv
<1>7. CASE UNCHANGED vars
  BY <1>0, <1>1, <1>7 DEF vars, jobs, TInv, KnownTasks, QueuedOnce, RunByOne,
     OnePlace, Queued, Running
<1> QED
  BY <1>3, <1>4, <1>5, <1>6, <1>7, TaskCases

(* It holds in every reachable state.                                      *)
THEOREM TasksInductive == Spec => []TInv
<1>1. Init => TInv
  <2>1. Init => Queued = {} /\ Running = {} /\ Distinct(p_queue_tasks)
    BY DEF Init, Queued, Running, Distinct
  <2>2. Init => KnownTasks /\ QueuedOnce /\ RunByOne /\ OnePlace
    BY <2>1 DEF Init, KnownTasks, QueuedOnce, RunByOne, OnePlace
  <2> QED
    BY <2>2, InitIInv DEF TInv
<1> QED
  BY <1>1, StepTInv, PTL DEF Spec

(* Each step of the pool is a step of the abstract service, or leaves it   *)
(* alone: enqueueing is Submit, taking Begin, returning Finish, and the    *)
(* termination flag Close.                                                 *)
LEMMA ServiceStep == TInv /\ [Next]_vars => [Service!Next]_(Service!svars)
<1> SUFFICES ASSUME TInv, [Next]_vars PROVE [Service!Next]_(Service!svars)
  OBVIOUS
<1>1. /\ IInv /\ KnownTasks /\ QueuedOnce /\ RunByOne /\ OnePlace
      /\ p_queue_tasks \in Seq(Nat) /\ submitted \in Nat
  BY PoolAssumption DEF TInv, IInv, TypeRest
<1>2. CASE EnqueueTask /\ (owner = "serving" \/ \E t \in Threads : pc[t] = "run")
  <2>1. ~b_terminate \/ Running # {}
    BY <1>1, <1>2 DEF IInv, TerminateWhen, Running
  <2>2. submitted + 1 \in Tasks \ (Running \cup done)
    BY <1>1, <1>2, EnqueueEffect DEF KnownTasks
  <2>3. Service!Submit
    BY <1>1, <1>2, <2>1, <2>2, EnqueueEffect DEF Service!Submit
  <2> QED
    BY <2>3 DEF Service!Next
<1>3. ASSUME NEW t \in Threads, TakeTask(t) PROVE Service!Next
  <2>1. Head(p_queue_tasks) \notin Running \cup done
    <3>1. Head(p_queue_tasks) \in Queued
      BY <1>1, <1>3, TakeEffect, TailElems DEF QueuedOnce, Queued, Elems
    <3> QED
      BY <1>1, <3>1 DEF OnePlace
  <2>2. Service!Begin
    BY <1>1, <1>3, <2>1, TakeEffect DEF Service!Begin
  <2> QED
    BY <2>2 DEF Service!Next
<1>4. ASSUME NEW t \in Threads, RunTask(t) PROVE Service!Next
  <2>1. Service!Finish
    BY <1>1, <1>4, RunEffect DEF Service!Finish
  <2> QED
    BY <2>1 DEF Service!Next
<1>5. CASE Terminate
  <2>1. Service!Close
    BY <1>1, <1>5, TerminateEffect DEF Service!Close
  <2> QED
    BY <2>1 DEF Service!Next
<1>6. CASE Quiet
  BY <1>1, <1>6, QuietEffect DEF Service!svars
<1>7. CASE UNCHANGED vars
  BY <1>7 DEF vars, jobs, Running, Service!svars
<1> QED
  BY <1>2, <1>3, <1>4, <1>5, <1>6, <1>7, TaskCases

(* The thread pool, with its mutexes, condition variables and counters, is *)
(* a task service: first in first out, every task once, a graceful close   *)
(* only when nothing is left.                                              *)
THEOREM PoolImplementsService == Spec => ImplementsService
<1>1. Init => Service!Init
  BY DEF Init, Service!Init, Running
<1> QED
  BY <1>1, ServiceStep, TasksInductive, PTL DEF Spec, ImplementsService, Service!Spec
-----------------------------------------------------------------------------
(* While the queue can allocate, no submission that was reported as a      *)
(* success is lost by any interleaving.                                    *)
THEOREM PoolNoTaskLost == ASSUME ~AllocMayFail PROVE Spec => []NoTaskLost
<1>1. Init => NoTaskLost
  BY DEF Init, NoTaskLost
<1>2. TInv /\ NoTaskLost /\ [Next]_vars => NoTaskLost'
  <2> SUFFICES ASSUME TInv, NoTaskLost, [Next]_vars PROVE NoTaskLost'
    OBVIOUS
  <2>1. IInv /\ QueuedOnce /\ RunByOne /\ p_queue_tasks \in Seq(Nat) /\ submitted \in Nat
    BY PoolAssumption DEF TInv, IInv, TypeRest
  <2>2. Queued = Elems(p_queue_tasks) /\ Queued' = Elems(p_queue_tasks')
    BY DEF Queued, Elems
  <2>3. CASE EnqueueTask
    <3>a. p_queue_tasks' = Append(p_queue_tasks, submitted + 1) /\ submitted + 1 \in Nat
      BY <2>1, <2>3, EnqueueEffect
    <3>1. Queued' = Queued \cup {submitted + 1}
      BY <2>1, <2>2, <3>a, AppendElems
    <3> QED
      BY <2>1, <2>3, <3>1, EnqueueEffect DEF NoTaskLost
  <2>4. ASSUME NEW t \in Threads, TakeTask(t) PROVE NoTaskLost'
    <3>1. Queued' = Queued \ {Head(p_queue_tasks)}
      BY <2>1, <2>2, <2>4, TakeEffect, TailElems DEF QueuedOnce
    <3> QED
      BY <2>1, <2>4, <3>1, TakeEffect DEF NoTaskLost
  <2>5. ASSUME NEW t \in Threads, RunTask(t) PROVE NoTaskLost'
    BY <2>1, <2>2, <2>5, RunEffect DEF NoTaskLost
  <2>6. CASE Terminate
    BY <2>1, <2>2, <2>6, TerminateEffect DEF NoTaskLost
  <2>7. CASE Quiet
    BY <2>1, <2>2, <2>7, QuietEffect DEF NoTaskLost
  <2>8. CASE UNCHANGED vars
    BY <2>8 DEF vars, jobs, NoTaskLost, Queued, Running
  <2> QED
    BY <2>3, <2>4, <2>5, <2>6, <2>7, <2>8, TaskCases
<1> QED
  BY <1>1, <1>2, TasksInductive, PTL DEF Spec

(* When rplib_tpool_destroy frees the pool no thread is left to touch it,  *)
(* and after a graceful destroy every accepted task was run.               *)
THEOREM PoolDestroyComplete == ASSUME ~AllocMayFail PROVE Spec => []DestroyComplete
<1>1. IInv /\ NoTaskLost => DestroyComplete
  <2> SUFFICES ASSUME IInv, NoTaskLost, owner = "destroyed"
               PROVE  /\ \A t \in Threads : pc[t] = "gone"
                      /\ num_threads_alive = 0
                      /\ ~Immediate => accepted \subseteq done
    BY DEF DestroyComplete
  <2>1. \A t \in Threads : pc[t] = "gone"
    BY DEF IInv, JoinedGone
  <2>2. num_threads_alive = 0
    <3>1. AliveSet = {}
      BY <2>1 DEF AliveSet, AlivePC
    <3> QED
      BY <3>1, FS_EmptySet DEF IInv, CountersExact
  <2>3. ~Immediate => accepted \subseteq done
    <3>1. ASSUME ~Immediate PROVE Queued = {} /\ Running = {}
      BY <3>1 DEF IInv, WaitSafe, PastWait, Queued, Running
    <3> QED
      BY <3>1 DEF NoTaskLost
  <2> QED
    BY <2>1, <2>2, <2>3
<1> QED
  BY <1>1, Inductive, PoolNoTaskLost, PTL
=============================================================================
