---------------------------- MODULE ServerCounts ----------------------------
(***************************************************************************)
(* Proofs about ChatServer that count tasks: pending_jobs is what it       *)
(* should be (PendingExact), no DELIVER is lost or sent twice              *)
(* (DeliverConserved), a connection that owes a STATUS has one task for it *)
(* and no other has (StatusOwed), and SEND_MSG is never without a task     *)
(* that leaves it (SendMsgHasJob).                                         *)
(*                                                                         *)
(* A step appends one task to the queue, takes one from it, or changes the *)
(* locals of one thread; what that does to a number of tasks or threads is *)
(* stated once, in the first part.                                         *)
(***************************************************************************)
EXTENDS ServerProtocol

One(x, S) == IF x \in S THEN 1 ELSE 0

(* The elements of a sequence that are in a set; queued tasks of a set,    *)
(* threads whose locals are in a set.                                      *)
SeqCount(s, S) == Count({i \in DOMAIN s : s[i] \in S})
QueueCount(S)  == SeqCount(queue, S)
ThreadCount(L) == Count({t \in Threads : th[t] \in L})
-----------------------------------------------------------------------------
LEMMA CountChanged ==
  ASSUME NEW A, IsFiniteSet(A), NEW P \in SUBSET A, NEW N \in SUBSET A, NEW a \in A,
         \A x \in A \ {a} : x \in P <=> x \in N
  PROVE  /\ Cardinality(P) \in Nat /\ Cardinality(N) \in Nat
         /\ Cardinality(N) = Cardinality(P) - One(a, P) + One(a, N)
<1>1. IsFiniteSet(P) /\ IsFiniteSet(N)
  BY FS_Subset
<1>2. Cardinality(P) \in Nat /\ Cardinality(N) \in Nat
  BY <1>1, FS_CardinalityType
<1>3. P \ {a} = N \ {a}
  OBVIOUS
<1>4. Cardinality(P \ {a}) = IF a \in P THEN Cardinality(P) - 1 ELSE Cardinality(P)
  BY ONLY <1>1, FS_RemoveElement
<1>5. Cardinality(N \ {a}) = IF a \in N THEN Cardinality(N) - 1 ELSE Cardinality(N)
  BY ONLY <1>1, FS_RemoveElement
<1> QED  BY ONLY <1>2, <1>3, <1>4, <1>5 DEF One

LEMMA SeqCountType ==
  ASSUME NEW T, NEW s \in Seq(T), NEW S
  PROVE  SeqCount(s, S) \in Nat
<1>1. DOMAIN s = 1 .. Len(s) /\ Len(s) \in Nat
  OBVIOUS
<1>2. IsFiniteSet(1 .. Len(s))
  BY <1>1, FS_Interval
<1>3. {i \in DOMAIN s : s[i] \in S} \in SUBSET (1 .. Len(s))
  BY <1>1
<1> QED  BY <1>2, <1>3, FS_Subset, FS_CardinalityType DEF SeqCount, Count

LEMMA SeqCountAppend ==
  ASSUME NEW T, NEW s \in Seq(T), NEW S, NEW k \in T
  PROVE  SeqCount(Append(s, k), S) = SeqCount(s, S) + One(k, S)
<1> DEFINE r == Append(s, k)
           n == Len(s)
           P == {i \in DOMAIN s : s[i] \in S}
           N == {i \in DOMAIN r : r[i] \in S}
<1>1. /\ n \in Nat /\ DOMAIN s = 1 .. n /\ DOMAIN r = 1 .. n + 1
      /\ r[n + 1] = k /\ \A i \in 1 .. n : r[i] = s[i]
  OBVIOUS
<1>2. IsFiniteSet(1 .. n + 1)
  BY <1>1, FS_Interval
<1> HIDE DEF n, r
<1>3. /\ P \in SUBSET (1 .. n + 1) /\ N \in SUBSET (1 .. n + 1)
      /\ n + 1 \in 1 .. n + 1 /\ n + 1 \notin P
      /\ n + 1 \in N <=> k \in S
      /\ \A x \in (1 .. n + 1) \ {n + 1} : x \in P <=> x \in N
  BY <1>1
<1> DEFINE A == 1 .. n + 1
           a == n + 1
<1>a. /\ IsFiniteSet(A) /\ P \in SUBSET A /\ N \in SUBSET A /\ a \in A
      /\ \A x \in A \ {a} : x \in P <=> x \in N
  BY <1>2, <1>3
<1> HIDE DEF P, N, A, a
<1>b. Cardinality(P) \in Nat /\ Cardinality(N) = Cardinality(P) - One(a, P) + One(a, N)
  BY <1>a, CountChanged
<1>4. /\ Cardinality(P) \in Nat
      /\ Cardinality(N) = Cardinality(P) - One(n + 1, P) + One(n + 1, N)
  BY <1>b DEF a
<1>5. Cardinality(N) = Cardinality(P) + One(k, S)
  BY <1>3, <1>4 DEF One
<1> QED  BY <1>5 DEF SeqCount, Count, P, N, r

LEMMA SeqCountTail ==
  ASSUME NEW T, NEW s \in Seq(T), NEW S, s # << >>
  PROVE  SeqCount(Tail(s), S) = SeqCount(s, S) - One(Head(s), S)
<1> DEFINE r == Tail(s)
           n == Len(s)
           P == {i \in DOMAIN s : s[i] \in S}
           N == {i \in DOMAIN r : r[i] \in S}
           M == {i \in 2 .. n : s[i] \in S}
           f == [i \in N |-> i + 1]
<1>1. /\ n \in Nat \ {0} /\ DOMAIN s = 1 .. n /\ DOMAIN r = 1 .. n - 1
      /\ Head(s) = s[1] /\ \A i \in 1 .. n - 1 : r[i] = s[i + 1]
  OBVIOUS
<1>2. IsFiniteSet(1 .. n) /\ IsFiniteSet(1 .. n - 1)
  BY <1>1, FS_Interval
<1> HIDE DEF n, r
<1>3. /\ P \in SUBSET (1 .. n) /\ M \in SUBSET (1 .. n) /\ 1 \in 1 .. n /\ 1 \notin M
      /\ 1 \in P <=> Head(s) \in S
      /\ \A x \in (1 .. n) \ {1} : x \in P <=> x \in M
  BY <1>1
<1>4. N \in SUBSET (1 .. n - 1)
  BY <1>1
<1>5. f \in Bijection(N, M)
  <2>1. \A i \in N : i \in 1 .. n - 1 /\ s[i + 1] \in S
    BY <1>1
  <2>2. f \in [N -> M]
    BY <1>1, <2>1
  <2>3. \A i, j \in N : f[i] = f[j] => i = j
    BY <1>1, <2>1
  <2>4. \A j \in M : \E i \in N : f[i] = j
    <3> TAKE j \in M
    <3>1. j - 1 \in N /\ f[j - 1] = j
      BY <1>1
    <3> QED  BY <3>1
  <2>5. DOMAIN f = N
    OBVIOUS
  <2> HIDE DEF f, N, M
  <2> QED  BY <2>2, <2>3, <2>4, <2>5 DEF Bijection, Injection, IsInjective, Surjection
<1>6. IsFiniteSet(N)
  BY <1>2, <1>4, FS_Subset
<1> HIDE DEF P, N, M, f
<1>7. Cardinality(M) = Cardinality(N)
  BY <1>5, <1>6, FS_Bijection DEF ExistsBijection
<1>8. /\ Cardinality(P) \in Nat
      /\ Cardinality(M) = Cardinality(P) - One(1, P) + One(1, M)
  BY ONLY <1>2, <1>3, CountChanged
<1>9. Cardinality(N) = Cardinality(P) - One(Head(s), S)
  BY <1>3, <1>7, <1>8 DEF One
<1> QED  BY <1>9 DEF SeqCount, Count, P, N, r

LEMMA QueueCountType ==
  ASSUME QueueTyped, NEW S
  PROVE  QueueCount(S) \in Nat
  BY SeqCountType DEF QueueTyped, QueueCount

LEMMA QueueAppend ==
  ASSUME QueueTyped, NEW S, NEW k \in Tasks, queue' = Append(queue, k)
  PROVE  QueueCount(S)' = QueueCount(S) + One(k, S)
  BY SeqCountAppend DEF QueueTyped, QueueCount

LEMMA QueueTail ==
  ASSUME QueueTyped, NEW S, queue # << >>, queue' = Tail(queue)
  PROVE  QueueCount(S)' = QueueCount(S) - One(Head(queue), S)
  BY SeqCountTail DEF QueueTyped, QueueCount

LEMMA QueueSame ==
  ASSUME NEW S, UNCHANGED queue
  PROVE  QueueCount(S)' = QueueCount(S)
  BY DEF QueueCount

LEMMA FiniteThreads == IsFiniteSet(Threads)
  BY ServerAssumption, FS_AddElement DEF Threads

LEMMA ThreadCountType ==
  ASSUME NEW L
  PROVE  ThreadCount(L) \in Nat
<1>1. {t \in Threads : th[t] \in L} \in SUBSET Threads
  OBVIOUS
<1> QED  BY <1>1, FiniteThreads, FS_Subset, FS_CardinalityType DEF ThreadCount, Count

LEMMA ThreadChanged ==
  ASSUME NEW L, th \in [Threads -> Locals], NEW t \in Threads, th' = [th EXCEPT ![t] = th'[t]]
  PROVE  ThreadCount(L)' = ThreadCount(L) - One(th[t], L) + One(th'[t], L)
<1> DEFINE P == {u \in Threads : th[u] \in L}
           N == {u \in Threads : th'[u] \in L}
<1>1. P \in SUBSET Threads /\ N \in SUBSET Threads
  OBVIOUS
<1>2. \A u \in Threads \ {t} : u \in P <=> u \in N
  OBVIOUS
<1>3. (t \in P <=> th[t] \in L) /\ (t \in N <=> th'[t] \in L)
  OBVIOUS
<1> HIDE DEF P, N
<1>4. Cardinality(N) = Cardinality(P) - One(t, P) + One(t, N)
  BY <1>1, <1>2, FiniteThreads, CountChanged
<1>5. Cardinality(N) = Cardinality(P) - One(th[t], L) + One(th'[t], L)
  BY <1>3, <1>4 DEF One
<1> QED  BY <1>5 DEF ThreadCount, Count, P, N
-----------------------------------------------------------------------------
(* pending_jobs.                                                           *)

JobsOf(c)   == {k \in Tasks : k.conn = c}
Starting(c) == {l \in Locals : l.pc = "start" /\ l.task.conn = c}
Counting(c) == {l \in Locals : l.pc = "count" /\ l.out.conn = c}
PendingInv ==
  \A c \in Conns :
    pending[c] = QueueCount(JobsOf(c)) + ThreadCount(Starting(c)) - ThreadCount(Counting(c))

(* Only these come to or leave a place where a job is not counted.         *)
Accounts(t) ==
  RequeueTask(t) \/ CountJob(t) \/ TakeTask(t) \/ StartJob(t) \/ BroadcastDeliver(t)

LEMMA NoAccounts ==
  ASSUME BaseInv, NEW t \in Workers, Worker(t), ~Accounts(t)
  PROVE  {th[t].pc, th'[t].pc} \cap {"start", "count"} = {}
<1>a. th \in [Threads -> Locals] /\ t \in Threads
  BY DEF BaseInv, ThreadsOK, Threads
<1> USE <1>a DEF Locals, At, In
<1>1. CASE \/ RecvRegister(t) \/ RecvSend(t) \/ RecvStatus(t)
           \/ SetUsername(t) \/ Reply(t) \/ SendStatus(t) \/ SendDeliver(t) \/ ProcError(t)
           \/ ClosingNow(t) \/ DestroyMutex(t) \/ TryLock(t) \/ DestroyUnlock(t)
           \/ BroadcastLock(t)
  BY <1>1 DEF RecvRegister, RecvSend, RecvStatus, SetUsername,
     Reply, SendStatus, SendDeliver, ProcError, ClosingNow, DestroyMutex, Goto, TryLock,
     DestroyUnlock, BroadcastLock, Receives, Reading, Sending
<1>2. CASE \/ HeartbeatOk(t) \/ BufferFails(t) \/ Rearm(t) \/ Replied(t) \/ SendFails(t)
           \/ ClosingLater(t) \/ Unlink(t)
  BY <1>2 DEF HeartbeatOk, BufferFails, Rearm, Replied, SendFails, Sending,
     ClosingLater, Unlink, Cleanup, IdleWorker, Local
<1>3. CASE \/ TryLockFails(t) \/ RecvNothing(t) \/ RecvBad(t) \/ StartSendMsg(t)
           \/ Postpone(t) \/ CloseEpollDel(t)
  <2>1. RequeueNoUnlock(t) \/ RequeueFreed(t)
    BY <1>3 DEF TryLockFails, RecvNothing, RecvBad, StartSendMsg, Postpone, CloseEpollDel,
       Fail, Requeue
  <2>2. th[t].pc \in {"lock", "proc", "del"}
    BY <1>3 DEF TryLockFails, RecvNothing, RecvBad, StartSendMsg, Postpone, CloseEpollDel,
       Receives, Reading
  <2> QED  BY <2>1, <2>2 DEF RequeueNoUnlock, RequeueFreed, Local
<1>4. CASE FindUser(t)
  <2>1. RequeueNoUnlock(t) \/ Goto(t, "name")
    BY <1>4 DEF FindUser, Fail, Requeue
  <2> QED  BY <1>4, <2>1 DEF FindUser, RequeueNoUnlock, Local, Goto
<1>5. CASE HeartbeatTimeout(t) \/ SigPipe(t) \/ BroadcastSkip(t)
  BY <1>5 DEF HeartbeatTimeout, SigPipe, BroadcastSkip, vars, Sending
<1>6. CASE BroadcastNoMemory(t)
  BY <1>6 DEF BroadcastNoMemory
<1>7. CASE BroadcastDone(t)
  <2>1. Goto(t, "reply") \/ Goto(t, "arm") \/ Goto(t, "destroy")
    BY <1>7 DEF BroadcastDone
  <2> QED  BY <1>7, <2>1 DEF BroadcastDone, Goto
<1> QED  BY <1>1, <1>2, <1>3, <1>4, <1>5, <1>6, <1>7 DEF Worker, Accounts

LEMMA WorkerQueue ==
  ASSUME NEW t \in Workers, Worker(t), ~Accounts(t), ~SetUsername(t), ~Reply(t)
  PROVE  UNCHANGED <<queue, pending>>
  BY DEF Worker, Accounts, TryLock, BufferFails, TryLockFails, HeartbeatOk, HeartbeatTimeout,
     RecvNothing, RecvRegister, RecvSend, RecvBad, RecvStatus, Rearm, FindUser, BroadcastLock,
     BroadcastNoMemory, BroadcastSkip, BroadcastDone, Replied, StartSendMsg,
     SendStatus, SendDeliver, SendFails, SigPipe, Postpone, ProcError, CloseEpollDel,
     ClosingLater, ClosingNow, DestroyUnlock, DestroyMutex, Unlink, Fail, conn, vars

LEMMA MainQueue ==
  ASSUME BaseInv, MainThread, ~AuditNext, ~CountJob(Main), \A c \in Conns : ~HandleEvent(c)
  PROVE  /\ UNCHANGED <<queue, pending>>
         /\ {th[Main].pc, th'[Main].pc} \cap {"start", "count"} = {}
<1>1. th \in [Threads -> Locals] /\ Main \in Threads
  BY DEF BaseInv, ThreadsOK, Threads
<1> QED
  BY <1>1 DEF MainThread, EventThread, EpollWait, EpollInterrupted, HandleNewConnection, ConnectionNoMemory,
     ConnectionUnwatched, EventNoMemory, AcceptFails, HandleSigInt, HandleSigAlrm, AuditNoMemory,
     AuditDone, Shutdown, conn, MainIs, At, Waiting, Goto, Locals

(* A thread that queues a task and has yet to count it.                    *)
LEMMA QueuedUncounted ==
  ASSUME BaseInv, NEW t \in Threads, NEW k \in Tasks, NEW c \in Conns,
         queue' = Append(queue, k),
         th' = [th EXCEPT ![t] = th'[t]], th'[t] \in Locals,
         th[t].pc \notin {"start", "count"}, th'[t].pc = "count", th'[t].out = k,
         pending' = pending,
         pending[c] = QueueCount(JobsOf(c)) + ThreadCount(Starting(c)) - ThreadCount(Counting(c))
  PROVE  pending'[c] = (QueueCount(JobsOf(c)) + ThreadCount(Starting(c)) - ThreadCount(Counting(c)))'
<1>1. QueueCount(JobsOf(c))' = QueueCount(JobsOf(c)) + One(k, JobsOf(c))
  BY QueueAppend DEF BaseInv
<1>2. /\ ThreadCount(Starting(c))'
           = ThreadCount(Starting(c)) - One(th[t], Starting(c)) + One(th'[t], Starting(c))
      /\ ThreadCount(Counting(c))'
           = ThreadCount(Counting(c)) - One(th[t], Counting(c)) + One(th'[t], Counting(c))
  BY ThreadChanged DEF BaseInv, ThreadsOK
<1>3. /\ th[t] \notin Starting(c) /\ th'[t] \notin Starting(c) /\ th[t] \notin Counting(c)
      /\ th'[t] \in Counting(c) <=> k \in JobsOf(c)
  BY DEF Starting, Counting, JobsOf
<1>4. /\ QueueCount(JobsOf(c)) \in Nat
      /\ ThreadCount(Starting(c)) \in Nat /\ ThreadCount(Counting(c)) \in Nat
  BY QueueCountType, ThreadCountType DEF BaseInv
<1> QED  BY <1>1, <1>2, <1>3, <1>4 DEF One

LEMMA PendingStep ==
  ASSUME BaseInv, PendingInv, [Next]_vars
  PROVE  PendingInv'
<1> SUFFICES ASSUME NEW c \in Conns
             PROVE  pending'[c] = (QueueCount(JobsOf(c)) + ThreadCount(Starting(c))
                                     - ThreadCount(Counting(c)))'
  BY DEF PendingInv
<1> DEFINE J == JobsOf(c)
           S == Starting(c)
           N == Counting(c)
           Goal == pending'[c] = QueueCount(J)' + ThreadCount(S)' - ThreadCount(N)'
<1>a. pending[c] = QueueCount(J) + ThreadCount(S) - ThreadCount(N)
  BY DEF PendingInv
<1>b. QueueCount(J) \in Nat /\ ThreadCount(S) \in Nat /\ ThreadCount(N) \in Nat
  BY QueueCountType, ThreadCountType DEF BaseInv
<1>c. pending \in [Conns -> Int] /\ th \in [Threads -> Locals] /\ Workers \subseteq Threads
      /\ Main \in Threads /\ QueueTyped
  BY DEF BaseInv, ConnTyped, ThreadsOK, Threads
<1>d. ASSUME NEW t \in Threads, th' = [th EXCEPT ![t] = th'[t]]
      PROVE  /\ ThreadCount(S)' = ThreadCount(S) - One(th[t], S) + One(th'[t], S)
             /\ ThreadCount(N)' = ThreadCount(N) - One(th[t], N) + One(th'[t], N)
  BY <1>c, <1>d, ThreadChanged
<1>1. ASSUME NEW t \in Workers, RequeueTask(t) PROVE Goal
  <2>1. th[t].out \in Tasks /\ th[t].pc = "requeue"
    BY <1>1 DEF RequeueTask, At, BaseInv, ThreadsOK, WorkerShape
  <2>2. /\ th'[t].pc = "count" /\ th'[t].out = th[t].out
        /\ queue' = Append(queue, th[t].out) /\ pending' = pending
    BY <1>c, <1>1 DEF RequeueTask, Goto, EnqueueTask, conn, Locals
  <2>3. th' = [th EXCEPT ![t] = th'[t]] /\ th'[t] \in Locals
    BY <1>1, WorkerLocal DEF Worker
  <2> QED  BY <1>a, <1>c, <2>1, <2>2, <2>3, QueuedUncounted
<1>2. ASSUME NEW t \in Workers, BroadcastDeliver(t) PROVE Goal
  <2>1. th[t].cur \in Conns /\ th[t].pc = "next"
    BY <1>2 DEF BroadcastDeliver, At, BaseInv, ThreadsOK, Threads, Locals
  <2>2. /\ th'[t].pc = "count" /\ th'[t].out = Deliver(th[t].cur)
        /\ queue' = Append(queue, Deliver(th[t].cur)) /\ pending' = pending
    BY <1>c, <1>2 DEF BroadcastDeliver, EnqueueTask, conn, Locals
  <2>3. th' = [th EXCEPT ![t] = th'[t]] /\ th'[t] \in Locals
    BY <1>2, WorkerLocal DEF Worker
  <2>4. Deliver(th[t].cur) \in Tasks
    BY <2>1, TasksMade
  <2> QED  BY <1>a, <1>c, <2>1, <2>2, <2>3, <2>4, QueuedUncounted
<1>3. ASSUME NEW d \in Conns, HandleEvent(d) PROVE Goal
  <2>1. th[Main].pc = "events" /\ Inbound(d) \in Tasks
    BY <1>3, TasksMade DEF HandleEvent, MainIs, At
  <2>2. /\ th'[Main].pc = "count" /\ th'[Main].out = Inbound(d)
        /\ queue' = Append(queue, Inbound(d)) /\ pending' = pending
    BY <1>c, <1>3 DEF HandleEvent, EnqueueTask, conn, Local
  <2>3. th' = [th EXCEPT ![Main] = th'[Main]] /\ th'[Main] \in Locals
    BY <1>3, MainLocal DEF MainThread, EventThread
  <2> QED  BY <1>a, <1>c, <2>1, <2>2, <2>3, QueuedUncounted
<1>4. ASSUME AuditNext PROVE Goal
  <2>1. th[Main].cur \in Conns /\ th[Main].pc = "audit"
    BY <1>4 DEF AuditNext, MainIs, At, BaseInv, ThreadsOK, Threads, Locals
  <2>2. /\ th'[Main].pc = "count" /\ th'[Main].out = Heartbeat(th[Main].cur)
        /\ queue' = Append(queue, Heartbeat(th[Main].cur)) /\ pending' = pending
    BY <1>c, <1>4 DEF AuditNext, EnqueueTask, conn, Local
  <2>3. th' = [th EXCEPT ![Main] = th'[Main]] /\ th'[Main] \in Locals
    BY <1>4, MainLocal DEF MainThread, EventThread
  <2>4. Heartbeat(th[Main].cur) \in Tasks
    BY <2>1, TasksMade
  <2> QED  BY <1>a, <1>c, <2>1, <2>2, <2>3, <2>4, QueuedUncounted
<1>5. ASSUME NEW t \in Threads, CountJob(t), th' = [th EXCEPT ![t] = th'[t]],
             th'[t] \in Locals, th[t].ret \in {"idle", "next", "events", "audit"}
      PROVE  Goal
  <2>1. /\ th[t].pc = "count" /\ th'[t].pc \notin {"start", "count"}
        /\ queue' = queue /\ pending' = [pending EXCEPT ![th[t].out.conn] = @ + 1]
    BY <1>c, <1>5 DEF CountJob, At, Locals
  <2>2. /\ th[t] \notin S /\ th'[t] \notin S /\ th'[t] \notin N
        /\ th[t] \in N <=> th[t].out.conn = c
    BY <1>c, <2>1 DEF Starting, Counting
  <2>3. QueueCount(J)' = QueueCount(J)
    BY <2>1, QueueSame
  <2>4. pending'[c] = pending[c] + (IF th[t].out.conn = c THEN 1 ELSE 0)
    BY <1>c, <2>1
  <2> QED  BY <1>a, <1>b, <1>d, <1>5, <2>2, <2>3, <2>4 DEF One
<1>6. ASSUME NEW t \in Workers, TakeTask(t) PROVE Goal
  <2>1. /\ th[t].pc = "idle" /\ th'[t].pc = "start" /\ th'[t].task = Head(queue)
        /\ queue # << >> /\ queue' = Tail(queue) /\ pending' = pending
    BY <1>c, <1>6 DEF TakeTask, At, conn, Locals
  <2>2. th' = [th EXCEPT ![t] = th'[t]] /\ th'[t] \in Locals
    BY <1>6, WorkerLocal DEF Worker
  <2>3. Head(queue) \in Tasks
    BY <2>1 DEF BaseInv, QueueTyped
  <2>4. /\ th[t] \notin S /\ th[t] \notin N /\ th'[t] \notin N
        /\ th'[t] \in S <=> Head(queue) \in J
    BY <2>1, <2>2, <2>3 DEF Starting, Counting, JobsOf
  <2>5. QueueCount(J)' = QueueCount(J) - One(Head(queue), J)
    BY <1>c, <2>1, QueueTail
  <2> QED  BY <1>a, <1>b, <1>c, <1>d, <2>1, <2>2, <2>4, <2>5 DEF One
<1>7. ASSUME NEW t \in Workers, StartJob(t) PROVE Goal
  <2>1. /\ th[t].pc = "start" /\ th'[t].pc = "lock"
        /\ queue' = queue /\ pending' = [pending EXCEPT ![Conn(t)] = @ - 1]
    BY <1>c, <1>7 DEF StartJob, Goto, At, Locals
  <2>2. th' = [th EXCEPT ![t] = th'[t]]
    BY <1>7, WorkerLocal DEF Worker
  <2>3. /\ th[t] \notin N /\ th'[t] \notin N /\ th'[t] \notin S
        /\ th[t] \in S <=> Conn(t) = c
    BY <1>c, <2>1 DEF Starting, Counting, Conn
  <2>4. QueueCount(J)' = QueueCount(J)
    BY <2>1, QueueSame
  <2>5. pending'[c] = pending[c] - (IF Conn(t) = c THEN 1 ELSE 0)
    BY <1>c, <2>1
  <2> QED  BY <1>a, <1>b, <1>c, <1>d, <2>2, <2>3, <2>4, <2>5 DEF One
<1>8. ASSUME ThreadCount(S)' = ThreadCount(S), ThreadCount(N)' = ThreadCount(N),
             \/ UNCHANGED <<queue, pending>>
             \/ \E k \in Tasks : queue' = Append(queue, k)
                                 /\ pending' = [pending EXCEPT ![k.conn] = @ + 1]
      PROVE  Goal
  <2>1. CASE UNCHANGED <<queue, pending>>
    BY <1>a, <1>8, <2>1, QueueSame
  <2>2. ASSUME NEW k \in Tasks, queue' = Append(queue, k),
               pending' = [pending EXCEPT ![k.conn] = @ + 1]
        PROVE  Goal
    <3>1. QueueCount(J)' = QueueCount(J) + One(k, J)
      BY <1>c, <2>2, QueueAppend
    <3>2. k \in J <=> k.conn = c
      BY DEF JobsOf
    <3>3. pending'[c] = pending[c] + (IF k.conn = c THEN 1 ELSE 0)
      BY <1>c, <2>2
    <3> QED  BY <1>a, <1>b, <1>8, <3>1, <3>2, <3>3 DEF One
  <2> QED  BY <1>8, <2>1, <2>2
<1>9. ASSUME NEW t \in Workers, Worker(t), ~Accounts(t) PROVE Goal
  <2>1. th' = [th EXCEPT ![t] = th'[t]] /\ {th[t].pc, th'[t].pc} \cap {"start", "count"} = {}
    BY <1>9, WorkerLocal, NoAccounts
  <2>2. th[t] \notin S /\ th[t] \notin N /\ th'[t] \notin S /\ th'[t] \notin N
    BY <2>1 DEF Starting, Counting
  <2>3. ThreadCount(S)' = ThreadCount(S) /\ ThreadCount(N)' = ThreadCount(N)
    BY <1>b, <1>c, <1>d, <2>1, <2>2 DEF One
  <2>4. CASE SetUsername(t) \/ Reply(t)
    <3>1. Conn(t) \in Conns
      BY <2>4, HasTask DEF SetUsername, Reply, At, WithTask, Locked
    <3>2. \/ UNCHANGED <<queue, pending>>
          \/ \E k \in {Deliver(Conn(t)), StatusGood(Conn(t))} :
               queue' = Append(queue, k) /\ pending' = [pending EXCEPT ![Conn(t)] = @ + 1]
      BY <2>4 DEF SetUsername, Reply, EnqueueOwn, EnqueueTask
    <3>3. \A k \in {Deliver(Conn(t)), StatusGood(Conn(t))} : k \in Tasks /\ k.conn = Conn(t)
      BY <3>1, TasksMade
    <3>4. \/ UNCHANGED <<queue, pending>>
          \/ \E k \in Tasks : queue' = Append(queue, k)
                              /\ pending' = [pending EXCEPT ![k.conn] = @ + 1]
      BY <3>2, <3>3
    <3> QED  BY <1>8, <2>3, <3>4
  <2>5. CASE ~SetUsername(t) /\ ~Reply(t)
    <3>1. UNCHANGED <<queue, pending>>
      BY <1>9, <2>5, WorkerQueue DEF Accounts
    <3> QED  BY <1>8, <2>3, <3>1
  <2> QED  BY <2>4, <2>5
<1>10. ASSUME MainThread, ~AuditNext, ~CountJob(Main), \A d \in Conns : ~HandleEvent(d) PROVE Goal
  <2>1. /\ th' = [th EXCEPT ![Main] = th'[Main]] /\ UNCHANGED <<queue, pending>>
        /\ {th[Main].pc, th'[Main].pc} \cap {"start", "count"} = {}
    BY <1>10, MainQueue, MainLocal
  <2>2. /\ th[Main] \notin S /\ th[Main] \notin N /\ th'[Main] \notin S /\ th'[Main] \notin N
    BY <2>1 DEF Starting, Counting
  <2>3. ThreadCount(S)' = ThreadCount(S) /\ ThreadCount(N)' = ThreadCount(N)
    BY <1>b, <1>c, <1>d, <2>1, <2>2 DEF One
  <2> QED  BY <1>8, <2>1, <2>3
<1>11. ASSUME Environment \/ Undefined \/ Halted \/ UNCHANGED vars PROVE Goal
  <2>1. UNCHANGED <<th, queue, pending>>
    BY <1>11 DEF Environment, Connect, ClientSends, ClientAcks, ClientRefuses, Arrives, ClientLeaves, Tick,
       SigInt, Undefined, Halted, vars, conn
  <2> QED  BY <1>8, <2>1 DEF ThreadCount
<1>12. ASSUME NEW t \in Workers, CountJob(t) PROVE Goal
  <2>1. th' = [th EXCEPT ![t] = th'[t]] /\ th'[t] \in Locals
    BY <1>12, WorkerLocal DEF Worker
  <2>2. th[t].ret \in {"idle", "next", "events", "audit"}
    BY <1>c DEF Locals
  <2> QED  BY <1>c, <1>5, <1>12, <2>1, <2>2
<1>13. ASSUME CountJob(Main) PROVE Goal
  <2>1. th' = [th EXCEPT ![Main] = th'[Main]] /\ th'[Main] \in Locals
    BY <1>13, MainLocal DEF MainThread, EventThread
  <2>2. th[Main].ret \in {"idle", "next", "events", "audit"}
    BY <1>c DEF Locals
  <2> QED  BY <1>c, <1>5, <1>13, <2>1, <2>2
<1>14. Goal
  BY <1>1, <1>2, <1>3, <1>4, <1>6, <1>7, <1>9, <1>10, <1>11, <1>12, <1>13, NextCases DEF Accounts
<1> QED  BY <1>14

LEMMA NoneCounted ==
  ASSUME Init
  PROVE  /\ \A S : QueueCount(S) = 0
         /\ \A L : (\A t \in Threads : th[t] \notin L) => ThreadCount(L) = 0
<1>1. \A S : {i \in DOMAIN queue : queue[i] \in S} = {}
  BY DEF Init
<1>2. \A L : (\A t \in Threads : th[t] \notin L) => {t \in Threads : th[t] \in L} = {}
  OBVIOUS
<1> QED  BY <1>1, <1>2, FS_EmptySet DEF QueueCount, SeqCount, ThreadCount, Count

LEMMA PendingCounts ==
  ASSUME BaseInv, NEW c \in Conns
  PROVE  /\ InQueue(c, AnyTask) = QueueCount(JobsOf(c))
         /\ Count({t \in Workers : th[t].pc = "start" /\ th[t].task.conn = c})
              = ThreadCount(Starting(c))
         /\ Count({t \in Threads : th[t].pc = "count" /\ th[t].out.conn = c})
              = ThreadCount(Counting(c))
<1>1. \A i \in DOMAIN queue : queue[i] \in Tasks
  BY DEF BaseInv, QueueTyped
<1>2. /\ \A t \in Threads : th[t] \in Locals
      /\ th[Main].pc # "start"
  BY DEF BaseInv, ThreadsOK, MainShape
<1>3. {i \in DOMAIN queue : queue[i].conn = c /\ AnyTask(queue[i])}
        = {i \in DOMAIN queue : queue[i] \in JobsOf(c)}
  BY <1>1 DEF AnyTask, JobsOf
<1>4. {t \in Workers : th[t].pc = "start" /\ th[t].task.conn = c}
        = {t \in Threads : th[t] \in Starting(c)}
  BY <1>2 DEF Starting, Threads
<1>5. {t \in Threads : th[t].pc = "count" /\ th[t].out.conn = c}
        = {t \in Threads : th[t] \in Counting(c)}
  BY <1>2 DEF Counting
<1> QED  BY <1>3, <1>4, <1>5 DEF InQueue, QueueCount, SeqCount, ThreadCount

(* pending_jobs, which decides whether a connection may be freed, is the   *)
(* number of its tasks that are queued or not yet started, short of those  *)
(* that rpchat_conn_info_enqueue_task has queued and not yet counted: for  *)
(* every number of clients, workers and tasks, and whatever order they run *)
(* in.                                                                     *)
THEOREM PendingIsExact == Spec => []PendingExact
<1>1. Init => PendingInv
  <2> SUFFICES ASSUME Init, NEW c \in Conns
               PROVE  pending[c] = QueueCount(JobsOf(c)) + ThreadCount(Starting(c))
                                     - ThreadCount(Counting(c))
    BY DEF PendingInv
  <2>1. \A t \in Threads : th[t] \notin Starting(c) /\ th[t] \notin Counting(c)
    BY DEF Init, Starting, Counting, IdleMain, IdleWorker, Local
  <2>2. /\ QueueCount(JobsOf(c)) = 0 /\ ThreadCount(Starting(c)) = 0
        /\ ThreadCount(Counting(c)) = 0
    BY <2>1, NoneCounted
  <2>3. pending[c] = 0
    BY DEF Init
  <2> QED  BY <2>2, <2>3
<1>2. BaseInv /\ PendingInv /\ [Next]_vars => PendingInv'
  BY PendingStep
<1>3. BaseInv /\ PendingInv => PendingExact
  BY PendingCounts DEF PendingInv, PendingExact
<1> QED  BY <1>1, <1>2, <1>3, ServerInductive, PTL DEF Spec
-----------------------------------------------------------------------------
(* OUTBOUND tasks that are still to be sent.                               *)

Outbound   == {k \in Tasks : k.type = "OUTBOUND"}
Delivers(c) == {k \in Tasks : k.conn = c /\ k.msg = "DELIVER"}
Replies(c)  == {k \in Tasks : k.conn = c /\ k.msg = "STATUS"}

(* A worker has a task of S to send, or to put back.                       *)
Holding(S) == {l \in Locals : \/ l.task \in S /\ l.pc # "arm"
                              \/ l.out \in S /\ l.pc = "requeue"}
Unsent(S) == QueueCount(S) + ThreadCount(Holding(S))

(* The actions that make such tasks and those that end one.                *)
Produces(t) == SetUsername(t) \/ BroadcastDeliver(t) \/ Reply(t)
Ends(t) == SendStatus(t) \/ SendDeliver(t) \/ SendFails(t) \/ ClosingLater(t) \/ Unlink(t)

LEMMA OutboundTasks ==
  ASSUME NEW k \in Outbound
  PROVE  /\ k \in Tasks /\ k # NoTask /\ k.conn \in Conns
         /\ k.msg \in {"DELIVER", "STATUS"}
         /\ WithBuffer(k) = k
  BY NoTaskIsNone, TaskFields, BufferMade DEF Outbound

LEMMA OutboundSets ==
  ASSUME NEW c \in Conns
  PROVE  /\ Delivers(c) \subseteq Outbound /\ Replies(c) \subseteq Outbound
         /\ \A d \in Conns : /\ Deliver(d) \in Outbound /\ StatusGood(d) \in Outbound
                             /\ Deliver(d) \in Delivers(c) <=> d = c
                             /\ StatusGood(d) \in Replies(c) <=> d = c
                             /\ Deliver(d) \notin Replies(c) /\ StatusGood(d) \notin Delivers(c)
                             /\ Inbound(d) \notin Outbound /\ Heartbeat(d) \notin Outbound
  BY DEF Delivers, Replies, Outbound, Tasks, Deliver, StatusGood, Inbound, Heartbeat, Task

LEMMA UnsentType ==
  ASSUME BaseInv, NEW S
  PROVE  QueueCount(S) \in Nat /\ ThreadCount(Holding(S)) \in Nat /\ Unsent(S) \in Nat
  BY QueueCountType, ThreadCountType DEF BaseInv, Unsent

(* What a worker has in hand stays in hand, but for the end of a task, and *)
(* for putting it into the queue or taking it from there.                  *)
LEMMA HoldingKept ==
  ASSUME BaseInv, StatusAt, NEW t \in Workers, Worker(t), NEW S \in SUBSET Outbound,
         ~RequeueTask(t), ~TakeTask(t), ~Ends(t)
  PROVE  th'[t] \in Holding(S) <=> th[t] \in Holding(S)
<1>a. /\ th \in [Threads -> Locals] /\ t \in Threads /\ th[t] \in Locals
      /\ WorkerShape(th[t]) /\ StatusFits(t)
  BY DEF BaseInv, ThreadsOK, Threads, StatusAt
<1>b. /\ \A k \in S : k \in Tasks /\ k # NoTask /\ k.type = "OUTBOUND"
                      /\ k.msg \in {"DELIVER", "STATUS"}
      /\ NoTask \notin S
  BY OutboundTasks, NoTaskIsNone DEF Outbound
<1>c. th'[t] \in Locals
  BY WorkerLocal
<1> USE <1>a, <1>b, <1>c DEF WorkerShape, WithTask, Locked, Locals, At, In, Holding
<1>1. CASE \/ StartJob(t) \/ RecvRegister(t) \/ RecvSend(t) \/ SetUsername(t) \/ Reply(t)
           \/ ProcError(t) \/ ClosingNow(t) \/ DestroyMutex(t) \/ DestroyUnlock(t)
           \/ BroadcastLock(t) \/ BroadcastNoMemory(t)
  <2>1. /\ th'[t].task = th[t].task /\ th'[t].out = th[t].out
        /\ th[t].pc \notin {"arm", "requeue"} /\ th'[t].pc \notin {"arm", "requeue"}
    BY <1>1 DEF StartJob, RecvRegister, RecvSend, SetUsername, Reply, ProcError, ClosingNow,
       DestroyMutex, DestroyUnlock, BroadcastLock, BroadcastNoMemory, Goto, Receives, Reading
  <2> QED  BY <2>1
<1>2. CASE BroadcastDeliver(t) \/ CountJob(t)
  <2>1. /\ th'[t].task = th[t].task
        /\ th[t].pc \notin {"arm", "requeue"} /\ th'[t].pc \notin {"arm", "requeue"}
    BY <1>2 DEF BroadcastDeliver, CountJob
  <2> QED  BY <2>1
<1>3. CASE RecvStatus(t)
  <2>1. /\ th'[t].task = th[t].task /\ th'[t].pc = "arm" /\ th[t].pc = "proc" /\ IsIn(t)
    BY <1>3 DEF RecvStatus, Receives, Reading, Goto
  <2> QED  BY <2>1 DEF IsIn
<1>4. CASE TryLock(t)
  <2>1. /\ th'[t].task = WithBuffer(th[t].task) /\ th[t].pc = "lock" /\ th'[t].pc = "proc"
    BY <1>4 DEF TryLock
  <2>2. th[t].task \in Tasks
    BY <2>1
  <2>3. WithBuffer(th[t].task) \in S <=> th[t].task \in S
    BY <2>2, BufferMade
  <2> QED  BY <2>1, <2>3
<1>5. CASE HeartbeatOk(t) \/ BufferFails(t) \/ Rearm(t) \/ Replied(t)
  <2>1. th'[t] = IdleWorker
    BY <1>5 DEF HeartbeatOk, BufferFails, Rearm, Replied, Cleanup
  <2>2. /\ th[t].pc \in {"proc", "lock", "arm", "unlock"}
        /\ th[t].pc = "arm" \/ th[t].task \notin S
    BY <1>5 DEF HeartbeatOk, BufferFails, Rearm, Replied, StatusFits, Place, IsIn
  <2> QED  BY <2>1, <2>2 DEF IdleWorker, Local
<1>6. ASSUME RequeueNoUnlock(t), th[t].pc \in {"lock", "proc", "del", "find"}
      PROVE  th'[t] \in Holding(S) <=> th[t] \in Holding(S)
  <2>1. th'[t].out = th[t].task /\ th'[t].task = NoTask /\ th'[t].pc = "requeue"
    BY <1>6 DEF RequeueNoUnlock, Local
  <2> QED  BY <1>6, <2>1
<1>7a. CASE RecvNothing(t)
  <2>1. RequeueFreed(t) /\ th[t].pc = "proc" /\ IsIn(t)
    BY <1>7a DEF RecvNothing, Reading
  <2>2. /\ th'[t].out = Inbound(Conn(t)) /\ th'[t].task = NoTask /\ th'[t].pc = "requeue"
        /\ Inbound(Conn(t)).type = "INBOUND"
    BY <2>1 DEF RequeueFreed, Local, Inbound, Task
  <2> QED  BY <2>1, <2>2 DEF IsIn
<1>7. CASE \/ TryLockFails(t) \/ RecvBad(t) \/ StartSendMsg(t)
           \/ Postpone(t) \/ CloseEpollDel(t)
  <2>1. RequeueNoUnlock(t) /\ th[t].pc \in {"lock", "proc", "del"}
    BY <1>7 DEF TryLockFails, RecvBad, StartSendMsg, Postpone, CloseEpollDel,
       Fail, Requeue, Receives, Reading
  <2> QED  BY <1>6, <2>1
<1>8. CASE FindUser(t)
  <2>1. RequeueNoUnlock(t) \/ Goto(t, "name")
    BY <1>8 DEF FindUser, Fail, Requeue
  <2>2. CASE Goto(t, "name")
    BY <1>8, <2>2 DEF FindUser, Goto
  <2> QED  BY <1>6, <1>8, <2>1, <2>2 DEF FindUser
<1>9. CASE HeartbeatTimeout(t) \/ SigPipe(t) \/ BroadcastSkip(t)
  BY <1>9 DEF HeartbeatTimeout, SigPipe, BroadcastSkip, vars
<1>10. CASE BroadcastDone(t)
  <2>1. /\ th[t].pc = "next"
        /\ Goto(t, "reply") \/ Goto(t, "destroy")
           \/ (Goto(t, "arm") /\ status[Conn(t)] = "PENDING_STATUS")
    BY <1>10 DEF BroadcastDone
  <2>2. /\ th'[t].task = th[t].task /\ th'[t].out = th[t].out
        /\ th'[t].pc # "requeue"
        /\ th'[t].pc = "arm" => status[Conn(t)] = "PENDING_STATUS"
    BY <2>1 DEF Goto
  <2>3. th'[t].pc = "arm" => th[t].task \notin S
    BY <2>1, <2>2 DEF StatusFits, Place, IsIn
  <2> QED  BY <2>1, <2>2, <2>3
<1> QED
  BY <1>1, <1>2, <1>3, <1>4, <1>5, <1>7a, <1>7, <1>8, <1>9, <1>10 DEF Worker, Ends

LEMMA HoldingEnds ==
  ASSUME BaseInv, NEW t \in Workers, Ends(t), NEW S \in SUBSET Outbound
  PROVE  /\ th'[t] \notin Holding(S)
         /\ th[t] \in Holding(S) <=> th[t].task \in S
         /\ UNCHANGED queue
<1>a. /\ th \in [Threads -> Locals] /\ t \in Threads /\ th[t] \in Locals
      /\ WorkerShape(th[t]) /\ NoTask \notin S
  BY OutboundTasks DEF BaseInv, ThreadsOK, Threads
<1> USE <1>a DEF WorkerShape, WithTask, Locked, Locals, At, In, Holding
<1>1. UNCHANGED queue
  BY DEF Ends, SendStatus, SendDeliver, SendFails, ClosingLater, Unlink
<1>2. th[t].pc \in {"proc", "unlink"}
  BY DEF Ends, SendStatus, SendDeliver, SendFails, ClosingLater, Unlink, Sending
<1>3. CASE SendStatus(t) \/ SendDeliver(t)
  <2>1. th'[t].pc = "arm"
    BY <1>3 DEF SendStatus, SendDeliver, Goto
  <2> QED  BY <1>1, <1>2, <2>1
<1>4. CASE SendFails(t) \/ ClosingLater(t) \/ Unlink(t)
  <2>1. th'[t] = IdleWorker
    BY <1>4 DEF SendFails, ClosingLater, Unlink, Cleanup
  <2> QED  BY <1>1, <1>2, <2>1 DEF IdleWorker, Local
<1> QED  BY <1>3, <1>4 DEF Ends

LEMMA UnsentEnds ==
  ASSUME BaseInv, NEW t \in Workers, Worker(t), Ends(t), NEW S \in SUBSET Outbound
  PROVE  Unsent(S)' = Unsent(S) - One(th[t].task, S)
<1>1. th \in [Threads -> Locals] /\ t \in Threads /\ th' = [th EXCEPT ![t] = th'[t]]
  BY WorkerLocal DEF BaseInv, ThreadsOK, Threads
<1>2. ThreadCount(Holding(S))' = ThreadCount(Holding(S))
        - One(th[t], Holding(S)) + One(th'[t], Holding(S))
  BY <1>1, ThreadChanged
<1>3. QueueCount(S)' = QueueCount(S)
  BY HoldingEnds, QueueSame
<1> QED  BY <1>2, <1>3, HoldingEnds, UnsentType DEF Unsent, One

(* What SetUsername, BroadcastDeliver and Reply make.                      *)
LEMMA UnsentProduced ==
  ASSUME BaseInv, StatusAt, NEW t \in Workers, Worker(t), Produces(t),
         NEW S \in SUBSET Outbound, NEW k \in Tasks, queue' = Append(queue, k)
  PROVE  Unsent(S)' = Unsent(S) + One(k, S)
<1>1. th \in [Threads -> Locals] /\ t \in Threads /\ th' = [th EXCEPT ![t] = th'[t]]
  BY WorkerLocal DEF BaseInv, ThreadsOK, Threads
<1>2. ThreadCount(Holding(S))' = ThreadCount(Holding(S))
        - One(th[t], Holding(S)) + One(th'[t], Holding(S))
  BY <1>1, ThreadChanged
<1>3. th'[t] \in Holding(S) <=> th[t] \in Holding(S)
  <2>1. ~RequeueTask(t) /\ ~TakeTask(t) /\ ~Ends(t)
    BY DEF Produces, SetUsername, BroadcastDeliver, Reply, RequeueTask, TakeTask, Ends, SendStatus,
       SendDeliver, SendFails, ClosingLater, Unlink, At, In, Sending
  <2> QED  BY <2>1, HoldingKept
<1>4. QueueCount(S)' = QueueCount(S) + One(k, S)
  BY QueueAppend DEF BaseInv
<1> QED  BY <1>2, <1>3, <1>4, UnsentType DEF Unsent, One

LEMMA UnsentKept ==
  ASSUME BaseInv, StatusAt, [Next]_vars, NEW S \in SUBSET Outbound,
         \A t \in Workers : ~Ends(t) /\ (Produces(t) => UNCHANGED queue)
  PROVE  Unsent(S)' = Unsent(S)
<1> DEFINE H == Holding(S)
<1>a. QueueCount(S) \in Nat /\ ThreadCount(H) \in Nat
  BY UnsentType
<1>b. th \in [Threads -> Locals] /\ Workers \subseteq Threads /\ Main \in Threads /\ QueueTyped
  BY DEF BaseInv, ThreadsOK, Threads
<1>1. ASSUME NEW t \in Workers, Worker(t) PROVE Unsent(S)' = Unsent(S)
  <2>0. ThreadCount(H)' = ThreadCount(H) - One(th[t], H) + One(th'[t], H)
    BY <1>b, <1>1, WorkerLocal, ThreadChanged
  <2>a. th[t] \in Locals /\ WorkerShape(th[t]) /\ th'[t] \in Locals /\ NoTask \notin S
    BY <1>b, <1>1, WorkerLocal, OutboundTasks DEF BaseInv, ThreadsOK
  <2>1. CASE RequeueTask(t)
    <3>1. /\ th[t].pc = "requeue" /\ th[t].out \in Tasks /\ th[t].task = NoTask
          /\ queue' = Append(queue, th[t].out)
          /\ th'[t].pc = "count" /\ th'[t].task = th[t].task
      BY <1>b, <2>a, <2>1 DEF RequeueTask, At, EnqueueTask, Goto, WorkerShape, WithTask, Locked, Locals
    <3>2. th'[t] \notin H /\ (th[t] \in H <=> th[t].out \in S)
      BY <2>a, <3>1 DEF Holding
    <3>3. QueueCount(S)' = QueueCount(S) + One(th[t].out, S)
      BY <1>b, <3>1, QueueAppend
    <3> QED  BY <1>a, <2>0, <3>2, <3>3 DEF Unsent, One
  <2>2. CASE TakeTask(t)
    <3>1. /\ th[t].pc = "idle" /\ th[t].task = NoTask /\ queue # << >> /\ queue' = Tail(queue)
          /\ th'[t].pc = "start" /\ th'[t].task = Head(queue)
      BY <1>b, <2>a, <2>2 DEF TakeTask, At, WorkerShape, WithTask, Locked, Locals
    <3>2. th[t] \notin H /\ (th'[t] \in H <=> Head(queue) \in S)
      BY <2>a, <3>1 DEF Holding
    <3>3. QueueCount(S)' = QueueCount(S) - One(Head(queue), S)
      BY <1>b, <3>1, QueueTail
    <3> QED  BY <1>a, <2>0, <3>2, <3>3 DEF Unsent, One
  <2>3. CASE ~RequeueTask(t) /\ ~TakeTask(t)
    <3>1. th'[t] \in H <=> th[t] \in H
      BY <1>1, <2>3, HoldingKept
    <3>2. UNCHANGED queue
      <4>1. CASE Produces(t)
        BY <4>1
      <4>2. CASE CountJob(t) \/ StartJob(t)
        BY <4>2 DEF CountJob, StartJob
      <4>3. CASE ~Produces(t) /\ ~CountJob(t) /\ ~StartJob(t)
        BY <1>1, <2>3, <4>3, WorkerQueue DEF Accounts, Produces
      <4> QED  BY <4>1, <4>2, <4>3
    <3> QED  BY <1>a, <2>0, <3>1, <3>2, QueueSame DEF Unsent, One
  <2> QED  BY <2>1, <2>2, <2>3
<1>2. ASSUME MainThread PROVE Unsent(S)' = Unsent(S)
  <2>1. /\ ThreadCount(H)' = ThreadCount(H) - One(th[Main], H) + One(th'[Main], H)
        /\ MainShape(th[Main]) /\ MainShape(th'[Main])
    BY <1>b, <1>2, MainLocal, ThreadChanged DEF BaseInv, ThreadsOK
  <2>2. th[Main] \notin H /\ th'[Main] \notin H
    BY <2>1, OutboundTasks DEF MainShape, Holding
  <2>3. UNCHANGED queue \/ \E k \in Tasks : k \notin S /\ queue' = Append(queue, k)
    <3>1. ASSUME NEW c \in Conns, HandleEvent(c)
          PROVE  Inbound(c) \in Tasks /\ Inbound(c) \notin S /\ queue' = Append(queue, Inbound(c))
      BY <3>1, TasksMade, OutboundSets DEF HandleEvent, EnqueueTask
    <3>2. ASSUME AuditNext
          PROVE  /\ Heartbeat(th[Main].cur) \in Tasks /\ Heartbeat(th[Main].cur) \notin S
                 /\ queue' = Append(queue, Heartbeat(th[Main].cur))
      <4>1. th[Main].cur \in Conns
        BY <1>b, <3>2 DEF AuditNext, Locals
      <4> QED  BY <3>2, <4>1, TasksMade, OutboundSets DEF AuditNext, EnqueueTask
    <3>3. CASE CountJob(Main)
      BY <3>3 DEF CountJob
    <3> QED  BY <1>2, <3>1, <3>2, <3>3, MainQueue
  <2>4. QueueCount(S)' = QueueCount(S)
    BY <1>a, <1>b, <2>3, QueueAppend, QueueSame DEF One
  <2> QED  BY <1>a, <2>1, <2>2, <2>4 DEF Unsent, One
<1>3. ASSUME Environment \/ Undefined \/ Halted \/ UNCHANGED vars PROVE Unsent(S)' = Unsent(S)
  <2>1. UNCHANGED <<th, queue>>
    BY <1>3 DEF Environment, Connect, ClientSends, ClientAcks, ClientRefuses, Arrives, ClientLeaves, Tick,
       SigInt, Undefined, Halted, vars
  <2> QED  BY <2>1 DEF Unsent, QueueCount, ThreadCount
<1> QED  BY <1>1, <1>2, <1>3, NextCases
-----------------------------------------------------------------------------
(* What a connection that has not failed has still to send.  Without       *)
(* memory for its STATUS task a connection is in SEND_STAT with none.      *)
Outbox(c) ==
  /\ due[c] = Unsent(Delivers(c))
  /\ status[c] # "SEND_STAT" => Unsent(Replies(c)) = 0
  /\ status[c] = "SEND_STAT" => \/ Unsent(Replies(c)) = 1
                                \/ Unsent(Replies(c)) = 0 /\ "nomem" \in Env
  /\ status[c] = "SEND_MSG" => Unsent(Delivers(c)) > 0
OutboxInv == \A c \in Conns : status[c] \notin {"ERR", "CLOSING"} => Outbox(c)

LEMMA HoldingPositive ==
  ASSUME BaseInv, NEW t \in Workers, NEW S, th[t].pc = "proc", th[t].task \in S
  PROVE  Unsent(S) > 0
<1> DEFINE P == {u \in Threads : th[u] \in Holding(S)}
<1>1. t \in P
  BY DEF BaseInv, ThreadsOK, Threads, Holding
<1>2. IsFiniteSet(P)
  BY FiniteThreads, FS_Subset
<1>3. Cardinality(P) # 0 /\ Cardinality(P) \in Nat
  BY <1>1, <1>2, FS_EmptySet, FS_CardinalityType
<1>4. ThreadCount(Holding(S)) = Cardinality(P)
  BY DEF ThreadCount, Count
<1> HIDE DEF P
<1> QED  BY <1>3, <1>4, UnsentType DEF Unsent

(* The worker's OUTBOUND task is one of the two kinds.                     *)
LEMMA OutboundKind ==
  ASSUME BaseInv, NEW t \in Workers, th[t].pc = "proc", IsOut(t)
  PROVE  /\ Conn(t) \in Conns
         /\ IsStatus(t) => th[t].task \in Replies(Conn(t)) /\ th[t].task \notin Delivers(Conn(t))
         /\ ~IsStatus(t) => th[t].task \in Delivers(Conn(t)) /\ th[t].task \notin Replies(Conn(t))
<1>1. th[t].task \in Tasks /\ Conn(t) \in Conns
  BY HasTask DEF WithTask, Locked
<1>2. th[t].task.msg \in {"DELIVER", "STATUS"}
  BY <1>1, TaskFields DEF IsOut
<1> QED  BY <1>1, <1>2 DEF IsOut, IsStatus, Delivers, Replies, Conn

LEMMA OtherConnTask ==
  ASSUME NEW c, NEW k, k.conn # c
  PROVE  k \notin Delivers(c) /\ k \notin Replies(c)
  BY DEF Delivers, Replies

LEMMA OutboxEnds ==
  ASSUME BaseInv, StatusAt, OutboxInv, NEW t \in Workers, Worker(t), Ends(t),
         NEW c \in Conns, status[c] \notin {"ERR", "CLOSING"}, status'[c] \notin {"ERR", "CLOSING"}
  PROVE  Outbox(c)'
<1>a. Outbox(c) /\ Delivers(c) \in SUBSET Outbound /\ Replies(c) \in SUBSET Outbound
  BY OutboundSets DEF OutboxInv
<1>b. /\ Unsent(Delivers(c))' = Unsent(Delivers(c)) - One(th[t].task, Delivers(c))
      /\ Unsent(Replies(c))' = Unsent(Replies(c)) - One(th[t].task, Replies(c))
  BY <1>a, UnsentEnds
<1>c. /\ Unsent(Delivers(c)) \in Nat /\ Unsent(Replies(c)) \in Nat
      /\ status \in [Conns -> Status] /\ due \in [Conns -> Int]
  BY UnsentType DEF BaseInv, ConnTyped, GhostTyped
<1>1. CASE Conn(t) # c
  <2>1. due'[c] = due[c] /\ status'[c] = status[c]
    BY <1>c, <1>1 DEF Ends, SendStatus, SendDeliver, SendFails, ClosingLater, Unlink, SetStatus,
       ghost
  <2>2. th[t].task \notin Delivers(c) /\ th[t].task \notin Replies(c)
    BY <1>1, OtherConnTask DEF Conn
  <2> QED  BY <1>a, <1>b, <1>c, <2>1, <2>2 DEF Outbox, One
<1>2. CASE Conn(t) = c
  <2>1. SendStatus(t) \/ SendDeliver(t)
    <3>1. ~SendFails(t)
      BY <1>c, <1>2 DEF SendFails, SetStatus
    <3>2. ~ClosingLater(t)
      BY <1>2 DEF ClosingLater, In
    <3>3. ~Unlink(t)
      BY <1>2 DEF Unlink, At, StatusAt, StatusFits, Place
    <3> QED  BY <3>1, <3>2, <3>3 DEF Ends
  <2>2. CASE SendStatus(t)
    <3>1. /\ th[t].pc = "proc" /\ IsStatus(t) /\ IsOut(t) /\ UNCHANGED due
          /\ \/ status[c] = "SEND_STAT" /\ In(t, {"SEND_STAT"})
             \/ status[c] = "SEND_MSG"
      BY <1>2, <2>2 DEF SendStatus, Sending, In, At, IsStatus
    <3>2. Unsent(Replies(c)) > 0 /\ th[t].task \in Replies(c) /\ th[t].task \notin Delivers(c)
      BY <1>2, <3>1, OutboundKind, HoldingPositive
    <3>3. status[c] = "SEND_STAT" /\ In(t, {"SEND_STAT"})
      BY <1>a, <1>c, <3>1, <3>2 DEF Outbox
    <3>4. status'[c] = "AVAILABLE"
      BY <1>c, <1>2, <2>2, <3>3 DEF SendStatus, SetStatus
    <3>5. /\ Unsent(Replies(c))' = 0
          /\ Unsent(Delivers(c))' = Unsent(Delivers(c)) /\ due'[c] = due[c]
      BY <1>a, <1>b, <1>c, <3>1, <3>2, <3>3 DEF Outbox, One
    <3> QED  BY <1>a, <3>4, <3>5 DEF Outbox
  <2>3. CASE SendDeliver(t)
    <3>1. /\ th[t].pc = "proc" /\ ~IsStatus(t) /\ IsOut(t) /\ status[c] = "SEND_MSG"
          /\ due' = [due EXCEPT ![c] = @ - 1] /\ status' = [status EXCEPT ![c] = "PENDING_STATUS"]
      BY <1>2, <2>3 DEF SendDeliver, SetStatus, Sending, In, At, IsStatus
    <3>2. th[t].task \notin Replies(c) /\ th[t].task \in Delivers(c)
      BY <1>2, <3>1, OutboundKind
    <3>3. /\ Unsent(Replies(c))' = 0 /\ Unsent(Delivers(c))' = Unsent(Delivers(c)) - 1
          /\ due'[c] = due[c] - 1 /\ status'[c] = "PENDING_STATUS"
      BY <1>a, <1>b, <1>c, <3>1, <3>2 DEF Outbox, One
    <3> QED  BY <1>a, <3>3 DEF Outbox
  <2> QED  BY <2>1, <2>2, <2>3
<1> QED  BY <1>1, <1>2

(* Each new task and what is due grow together.                            *)
LEMMA Production ==
  ASSUME BaseInv, NEW t \in Workers, Produces(t), ~UNCHANGED queue
  PROVE  \/ \E d \in Conns : /\ queue' = Append(queue, Deliver(d))
                             /\ due' = [due EXCEPT ![d] = @ + 1]
                             /\ UNCHANGED status
         \/ /\ Reply(t) /\ Conn(t) \in Conns /\ UNCHANGED due
            /\ queue' = Append(queue, StatusGood(Conn(t)))
            /\ status' = [status EXCEPT ![Conn(t)] = "SEND_STAT"]
<1>1. CASE SetUsername(t)
  <2>1. Conn(t) \in Conns
    BY <1>1, HasTask DEF SetUsername, At, WithTask, Locked
  <2> QED  BY <1>1, <2>1 DEF SetUsername, EnqueueOwn, EnqueueTask
<1>2. CASE BroadcastDeliver(t)
  <2>1. th[t].cur \in Conns
    BY <1>2 DEF BroadcastDeliver, BaseInv, ThreadsOK, Threads, Locals
  <2> QED  BY <1>2, <2>1 DEF BroadcastDeliver, EnqueueTask, conn
<1>3. CASE Reply(t)
  <2>1. Conn(t) \in Conns
    BY <1>3, HasTask DEF Reply, At, WithTask, Locked
  <2> QED  BY <1>3, <2>1 DEF Reply, EnqueueOwn, EnqueueTask, SetStatus, ghost
<1> QED  BY <1>1, <1>2, <1>3 DEF Produces

LEMMA OutboxProduces ==
  ASSUME BaseInv, StatusAt, OutboxInv, NEW t \in Workers, Worker(t), Produces(t), ~UNCHANGED queue,
         NEW c \in Conns, status[c] \notin {"ERR", "CLOSING"}
  PROVE  Outbox(c)'
<1>a. Outbox(c) /\ Delivers(c) \in SUBSET Outbound /\ Replies(c) \in SUBSET Outbound
  BY OutboundSets DEF OutboxInv
<1>b. /\ Unsent(Delivers(c)) \in Nat /\ Unsent(Replies(c)) \in Nat
      /\ status \in [Conns -> Status] /\ due \in [Conns -> Int]
  BY UnsentType DEF BaseInv, ConnTyped, GhostTyped
<1>1. ASSUME NEW d \in Conns, queue' = Append(queue, Deliver(d)),
             due' = [due EXCEPT ![d] = @ + 1], UNCHANGED status
      PROVE  Outbox(c)'
  <2>1. /\ Unsent(Delivers(c))' = Unsent(Delivers(c)) + One(Deliver(d), Delivers(c))
        /\ Unsent(Replies(c))' = Unsent(Replies(c)) + One(Deliver(d), Replies(c))
    BY <1>a, <1>1, UnsentProduced, TasksMade
  <2>2. (Deliver(d) \in Delivers(c) <=> d = c) /\ Deliver(d) \notin Replies(c)
    BY OutboundSets
  <2>3. due'[c] = due[c] + (IF d = c THEN 1 ELSE 0)
    BY <1>b, <1>1
  <2>4. /\ Unsent(Replies(c))' = Unsent(Replies(c))
        /\ Unsent(Delivers(c))' = Unsent(Delivers(c)) + (IF d = c THEN 1 ELSE 0)
    BY <1>b, <2>1, <2>2 DEF One
  <2> QED  BY <1>a, <1>b, <1>1, <2>3, <2>4 DEF Outbox
<1>2. ASSUME Reply(t), Conn(t) \in Conns, UNCHANGED due,
             queue' = Append(queue, StatusGood(Conn(t))),
             status' = [status EXCEPT ![Conn(t)] = "SEND_STAT"]
      PROVE  Outbox(c)'
  <2>1. /\ Unsent(Delivers(c))' = Unsent(Delivers(c)) + One(StatusGood(Conn(t)), Delivers(c))
        /\ Unsent(Replies(c))' = Unsent(Replies(c)) + One(StatusGood(Conn(t)), Replies(c))
    BY <1>a, <1>2, UnsentProduced, TasksMade
  <2>2. /\ StatusGood(Conn(t)) \in Replies(c) <=> Conn(t) = c
        /\ StatusGood(Conn(t)) \notin Delivers(c)
    BY <1>2, OutboundSets
  <2>3. /\ Unsent(Delivers(c))' = Unsent(Delivers(c)) /\ due'[c] = due[c]
        /\ Unsent(Replies(c))' = Unsent(Replies(c)) + (IF Conn(t) = c THEN 1 ELSE 0)
    BY <1>b, <1>2, <2>1, <2>2 DEF One
  <2>4. CASE Conn(t) = c
    <3>1. status[c] \in {"PRE_REGISTER", "AVAILABLE"}
      BY <1>2, <2>4 DEF Reply, At, StatusAt, StatusFits, Place
    <3>2. status'[c] = "SEND_STAT" /\ Unsent(Replies(c))' = 1
      BY <1>a, <1>b, <1>2, <2>3, <2>4, <3>1 DEF Outbox
    <3> QED  BY <1>a, <2>3, <3>2 DEF Outbox
  <2>5. CASE Conn(t) # c
    <3>1. status'[c] = status[c] /\ Unsent(Replies(c))' = Unsent(Replies(c))
      BY <1>b, <1>2, <2>3, <2>5
    <3> QED  BY <1>a, <2>3, <3>1 DEF Outbox
  <2> QED  BY <2>4, <2>5
<1> QED  BY <1>1, <1>2, Production

LEMMA OutboxKept ==
  ASSUME BaseInv, StatusAt, OutboxInv, [Next]_vars,
         \A t \in Workers : ~Ends(t) /\ (Produces(t) => UNCHANGED queue),
         NEW c \in Conns, status[c] \notin {"ERR", "CLOSING"}, status'[c] \notin {"ERR", "CLOSING"}
  PROVE  Outbox(c)'
<1>a. Outbox(c)
  BY DEF OutboxInv
<1>b. /\ Unsent(Delivers(c)) \in Nat /\ Unsent(Replies(c)) \in Nat /\ queue \in Seq(Tasks)
  BY UnsentType DEF BaseInv, QueueTyped
<1>1. Unsent(Delivers(c))' = Unsent(Delivers(c)) /\ Unsent(Replies(c))' = Unsent(Replies(c))
  BY UnsentKept, OutboundSets
<1>c. \A k \in Tasks : Append(queue, k) # queue
  <2> SUFFICES ASSUME NEW k \in Tasks, Append(queue, k) = queue PROVE FALSE
    OBVIOUS
  <2>1. Len(Append(queue, k)) = Len(queue) + 1 /\ Len(queue) \in Nat
    BY <1>b
  <2> QED  BY <2>1
<1>2. UNCHANGED due
  <2>1. ASSUME NEW t \in Workers, SetUsername(t) PROVE UNCHANGED due
    <3>1. Conn(t) \in Conns /\ UNCHANGED queue
      BY <2>1, HasTask DEF SetUsername, At, WithTask, Locked, Produces
    <3>2. Deliver(Conn(t)) \in Tasks
      BY <3>1, TasksMade
    <3> QED  BY <1>c, <2>1, <3>1, <3>2 DEF SetUsername, EnqueueOwn, EnqueueTask
  <2>2. ASSUME NEW t \in Workers, BroadcastDeliver(t) PROVE FALSE
    <3>1. th[t].cur \in Conns /\ UNCHANGED queue
      BY <2>2 DEF BroadcastDeliver, BaseInv, ThreadsOK, Threads, Locals, Produces
    <3>2. Deliver(th[t].cur) \in Tasks
      BY <3>1, TasksMade
    <3> QED  BY <1>c, <2>2, <3>1, <3>2 DEF BroadcastDeliver, EnqueueTask
  <2>3. ASSUME NEW t \in Workers, SendStatus(t) \/ SendDeliver(t) PROVE FALSE
    BY <2>3 DEF Ends
  <2>4. ASSUME NEW d \in Conns, NEW m, ClientAcks(d) \/ ClientRefuses(d) \/ ClientSends(d, m) PROVE UNCHANGED due
    BY <2>4 DEF ClientAcks, ClientRefuses, ClientSends, Arrives
  <2>5. ASSUME NEW t \in Workers, RecvStatus(t) \/ BroadcastDone(t) PROVE UNCHANGED due
    BY <2>5 DEF RecvStatus, BroadcastDone
  <2> QED  BY <2>1, <2>2, <2>3, <2>4, <2>5, GhostWriters
<1>3. CASE status'[c] = status[c]
  BY <1>a, <1>1, <1>2, <1>3 DEF Outbox
<1>4. CASE status'[c] # status[c]
  <2>1. PICK t \in Workers : Conn(t) = c /\ Moves(t, status[c], status'[c])
    BY <1>4, StatusMoves
  <2>2. ~SendStatus(t) /\ ~SendDeliver(t)
    BY DEF Ends
  <2>3. CASE Reply(t) /\ status[c] \in {"PRE_REGISTER", "AVAILABLE"} /\ status'[c] = "SEND_STAT"
    <3>1. "nomem" \in Env
      <4>1. Conn(t) \in Conns /\ UNCHANGED queue
        BY <2>1, <2>3 DEF Produces
      <4>2. StatusGood(Conn(t)) \in Tasks
        BY <4>1, TasksMade
      <4> QED  BY <1>c, <2>3, <4>1, <4>2 DEF Reply, EnqueueOwn, EnqueueTask
    <3> QED  BY <1>a, <1>1, <1>2, <2>3, <3>1 DEF Outbox
  <2>4. CASE StartSendMsg(t) /\ status[c] \in {"PRE_REGISTER", "AVAILABLE"} /\ status'[c] = "SEND_MSG"
    <3>1. th[t].pc = "proc" /\ IsOut(t)
      BY <2>4 DEF StartSendMsg, In, At
    <3>2. Unsent(Replies(c)) = 0
      BY <1>a, <2>4 DEF Outbox
    <3>3. th[t].task \notin Replies(c)
      BY <3>1, <3>2, HoldingPositive
    <3>4. th[t].task \in Delivers(c)
      BY <2>1, <3>1, <3>3, OutboundKind
    <3>5. Unsent(Delivers(c)) > 0
      BY <3>1, <3>4, HoldingPositive
    <3> QED  BY <1>a, <1>1, <1>2, <2>4, <3>2, <3>5 DEF Outbox
  <2>5. CASE status[c] = "PENDING_STATUS" /\ status'[c] = "AVAILABLE"
    BY <1>a, <1>1, <1>2, <2>5 DEF Outbox
  <2> QED  BY <2>1, <2>2, <2>3, <2>4, <2>5 DEF Moves
<1> QED  BY <1>3, <1>4

LEMMA OutboxStep ==
  ASSUME BaseInv, StatusAt, OutboxInv, [Next]_vars
  PROVE  OutboxInv'
<1> SUFFICES ASSUME NEW c \in Conns, status'[c] \notin {"ERR", "CLOSING"}
             PROVE  Outbox(c)'
  BY DEF OutboxInv
<1>1. status[c] \notin {"ERR", "CLOSING"}
  BY ClosingStays
<1>2. ASSUME NEW t \in Workers, Ends(t) PROVE Outbox(c)'
  <2>1. Worker(t)
    BY <1>2 DEF Ends, Worker
  <2> QED  BY <1>1, <1>2, <2>1, OutboxEnds
<1>3. ASSUME NEW t \in Workers, Produces(t), ~UNCHANGED queue PROVE Outbox(c)'
  <2>1. Worker(t)
    BY <1>3 DEF Produces, Worker
  <2> QED  BY <1>1, <1>3, <2>1, OutboxProduces
<1>4. ASSUME \A t \in Workers : ~Ends(t) /\ (Produces(t) => UNCHANGED queue) PROVE Outbox(c)'
  BY <1>1, <1>4, OutboxKept
<1> QED  BY <1>2, <1>3, <1>4
-----------------------------------------------------------------------------
(* The same counts, as the properties of ChatServer write them.            *)

LEMMA CountWithout ==
  ASSUME NEW H, NEW A, NEW R, IsFiniteSet(H), IsFiniteSet(R), A \subseteq H, H \cap R = {}
  PROVE  /\ Count((H \ A) \cup R) = Count(H) + Count(R) - Count(A)
         /\ Count(H) \in Nat /\ Count(R) \in Nat /\ Count(A) \in Nat
<1>1. IsFiniteSet(A) /\ IsFiniteSet(H \ A)
  BY FS_Subset, FS_Difference
<1>2. Cardinality(H \ A) = Cardinality(H) - Cardinality(A)
  <2>1. H \cap A = A
    OBVIOUS
  <2> QED  BY <2>1, FS_Difference
<1>3. Cardinality((H \ A) \cup R) = Cardinality(H \ A) + Cardinality(R)
  <2>1. (H \ A) \cap R = {}
    OBVIOUS
  <2>2. Cardinality((H \ A) \cup R)
          = Cardinality(H \ A) + Cardinality(R) - Cardinality((H \ A) \cap R)
    BY <1>1, FS_Union
  <2>3. Cardinality((H \ A) \cap R) = 0
    BY <2>1, FS_EmptySet
  <2> QED  BY <1>1, <2>2, <2>3, FS_CardinalityType
<1>4. Cardinality(H) \in Nat /\ Cardinality(R) \in Nat /\ Cardinality(A) \in Nat
  BY <1>1, FS_CardinalityType
<1> QED  BY <1>2, <1>3, <1>4 DEF Count

(* A task of S is queued, in the hands of a worker that has not sent it,   *)
(* or on its way back to the queue.                                        *)
LEMMA UnsentCounts ==
  ASSUME BaseInv, NEW S \in SUBSET Outbound
  PROVE  LET q == QueueCount(S)
             h == Count({t \in Threads : th[t].task \in S})
             r == Count({t \in Threads : th[t].pc = "requeue" /\ th[t].out \in S})
             a == Count({t \in Workers : th[t].pc = "arm" /\ th[t].task \in S})
         IN  Unsent(S) = q + h + r - a /\ q \in Nat /\ h \in Nat /\ r \in Nat /\ a \in Nat
<1> DEFINE H == {t \in Threads : th[t].task \in S}
           R == {t \in Threads : th[t].pc = "requeue" /\ th[t].out \in S}
           A == {t \in Workers : th[t].pc = "arm" /\ th[t].task \in S}
<1>a. /\ \A t \in Threads : th[t] \in Locals
      /\ \A t \in Workers : th[t].pc = "requeue" => th[t].task = NoTask
      /\ th[Main].task = NoTask /\ NoTask \notin S
  BY OutboundTasks DEF BaseInv, ThreadsOK, MainShape, WorkerShape, WithTask, Locked
<1>1. IsFiniteSet(H) /\ IsFiniteSet(R)
  BY FiniteThreads, FS_Subset
<1>2. A \subseteq H /\ H \cap R = {}
  BY <1>a DEF Threads
<1>3. {t \in Threads : th[t] \in Holding(S)} = (H \ A) \cup R
  BY <1>a DEF Holding, Threads
<1>4. QueueCount(S) \in Nat
  BY UnsentType
<1>5. ThreadCount(Holding(S)) = Count((H \ A) \cup R)
  BY <1>3 DEF ThreadCount
<1> HIDE DEF H, R, A
<1>6. /\ ThreadCount(Holding(S)) = Count(H) + Count(R) - Count(A)
      /\ Count(H) \in Nat /\ Count(R) \in Nat /\ Count(A) \in Nat
  BY <1>1, <1>2, <1>5, CountWithout
<1>7. Unsent(S) = QueueCount(S) + Count(H) + Count(R) - Count(A)
  BY <1>4, <1>6 DEF Unsent
<1> QED  BY <1>4, <1>6, <1>7 DEF H, R, A

LEMMA OutstandingCounts ==
  ASSUME BaseInv, NEW c \in Conns
  PROVE  /\ Outstanding(c, IsDeliver) - Sent(c, IsDeliver) = Unsent(Delivers(c))
         /\ Outstanding(c, IsReply) - Sent(c, IsReply) = Unsent(Replies(c))
         /\ Outstanding(c, IsDeliver) \in Nat /\ Sent(c, IsDeliver) \in Nat
<1>a. /\ \A i \in DOMAIN queue : queue[i] \in Tasks
      /\ \A t \in Threads : th[t].task \in Tasks \cup {NoTask} /\ th[t].out \in Tasks \cup {NoTask}
  BY DEF BaseInv, QueueTyped, ThreadsOK, Locals
<1>b. \A k \in Tasks \cup {NoTask} :
        /\ k.conn = c /\ IsDeliver(k) <=> k \in Delivers(c)
        /\ k.conn = c /\ IsReply(k) <=> k \in Replies(c)
  BY NoTaskIsNone, ServerAssumption DEF IsDeliver, IsReply, Delivers, Replies, NoTask, Task
<1>c. Workers \subseteq Threads
  BY DEF Threads
<1>d. Delivers(c) \in SUBSET Outbound /\ Replies(c) \in SUBSET Outbound
  BY OutboundSets
<1>1. /\ {i \in DOMAIN queue : queue[i].conn = c /\ IsDeliver(queue[i])}
           = {i \in DOMAIN queue : queue[i] \in Delivers(c)}
      /\ {t \in Threads : th[t].task.conn = c /\ IsDeliver(th[t].task)}
           = {t \in Threads : th[t].task \in Delivers(c)}
      /\ {t \in Threads : th[t].pc = "requeue" /\ th[t].out.conn = c /\ IsDeliver(th[t].out)}
           = {t \in Threads : th[t].pc = "requeue" /\ th[t].out \in Delivers(c)}
      /\ {t \in Workers : th[t].pc = "arm" /\ th[t].task.conn = c /\ IsDeliver(th[t].task)}
           = {t \in Workers : th[t].pc = "arm" /\ th[t].task \in Delivers(c)}
  BY <1>a, <1>b, <1>c
<1>2. /\ {i \in DOMAIN queue : queue[i].conn = c /\ IsReply(queue[i])}
           = {i \in DOMAIN queue : queue[i] \in Replies(c)}
      /\ {t \in Threads : th[t].task.conn = c /\ IsReply(th[t].task)}
           = {t \in Threads : th[t].task \in Replies(c)}
      /\ {t \in Threads : th[t].pc = "requeue" /\ th[t].out.conn = c /\ IsReply(th[t].out)}
           = {t \in Threads : th[t].pc = "requeue" /\ th[t].out \in Replies(c)}
      /\ {t \in Workers : th[t].pc = "arm" /\ th[t].task.conn = c /\ IsReply(th[t].task)}
           = {t \in Workers : th[t].pc = "arm" /\ th[t].task \in Replies(c)}
  BY <1>a, <1>b, <1>c
<1>3. /\ Outstanding(c, IsDeliver) - Sent(c, IsDeliver) = Unsent(Delivers(c))
      /\ Outstanding(c, IsDeliver) \in Nat /\ Sent(c, IsDeliver) \in Nat
  <2>1. /\ Outstanding(c, IsDeliver) = QueueCount(Delivers(c))
             + Count({t \in Threads : th[t].task \in Delivers(c)})
             + Count({t \in Threads : th[t].pc = "requeue" /\ th[t].out \in Delivers(c)})
        /\ Sent(c, IsDeliver) = Count({t \in Workers : th[t].pc = "arm" /\ th[t].task \in Delivers(c)})
    BY <1>1 DEF Outstanding, InQueue, TaskHeld, BeingQueued, Sent, QueueCount, SeqCount
  <2> QED  BY <1>d, <2>1, UnsentCounts
<1>4. Outstanding(c, IsReply) - Sent(c, IsReply) = Unsent(Replies(c))
  <2>1. /\ Outstanding(c, IsReply) = QueueCount(Replies(c))
             + Count({t \in Threads : th[t].task \in Replies(c)})
             + Count({t \in Threads : th[t].pc = "requeue" /\ th[t].out \in Replies(c)})
        /\ Sent(c, IsReply) = Count({t \in Workers : th[t].pc = "arm" /\ th[t].task \in Replies(c)})
    BY <1>2 DEF Outstanding, InQueue, TaskHeld, BeingQueued, Sent, QueueCount, SeqCount
  <2> QED  BY <1>d, <2>1, UnsentCounts
<1> QED  BY <1>3, <1>4

LEMMA OutboxInit ==
  ASSUME Init
  PROVE  OutboxInv
<1> SUFFICES ASSUME NEW c \in Conns PROVE Outbox(c)
  BY DEF OutboxInv
<1>1. \A S \in SUBSET Outbound : \A t \in Threads : th[t] \notin Holding(S)
  BY OutboundTasks DEF Init, Holding, IdleMain, IdleWorker, Local
<1>2. \A S \in SUBSET Outbound : Unsent(S) = 0
  BY <1>1, NoneCounted DEF Unsent
<1>3. Unsent(Delivers(c)) = 0 /\ Unsent(Replies(c)) = 0
  BY <1>2, OutboundSets
<1>4. due[c] = 0 /\ status[c] = "PRE_REGISTER"
  BY DEF Init
<1> QED  BY <1>3, <1>4 DEF Outbox

(* What is outstanding for a connection that has not failed: its DELIVERs  *)
(* are all still to be sent, and a STATUS task is there in SEND_STAT only. *)
THEOREM OutboxHolds == Spec => []OutboxInv
<1>1. Init => OutboxInv
  BY OutboxInit
<1>2. BaseInv /\ StatusAt /\ OutboxInv /\ [Next]_vars => OutboxInv'
  BY OutboxStep
<1> QED  BY <1>1, <1>2, OwnersHold, ServerInductive, PTL DEF Spec

(* Requeueing a DELIVER in any state and in any order, as the states of    *)
(* rpchat_task_conn_proc_event do, neither loses it nor sends it twice.    *)
THEOREM DeliversConserved == Spec => []DeliverConserved
<1>1. BaseInv /\ OutboxInv => DeliverConserved
  BY OutstandingCounts DEF OutboxInv, Outbox, DeliverConserved, Leaving
<1> QED  BY <1>1, OutboxHolds, ServerInductive, PTL

(* A connection in SEND_MSG, which only an OUTBOUND task leaves, has one.  *)
THEOREM SendMsgHasOne == Spec => []SendMsgHasJob
<1>1. BaseInv /\ OutboxInv => SendMsgHasJob
  <2> SUFFICES ASSUME BaseInv, OutboxInv, NEW c \in Conns, status[c] = "SEND_MSG"
               PROVE  Outstanding(c, IsDeliver) > 0
    BY DEF SendMsgHasJob
  <2>1. Unsent(Delivers(c)) > 0 /\ Unsent(Delivers(c)) \in Nat
    BY UnsentType DEF OutboxInv, Outbox
  <2>2. /\ Outstanding(c, IsDeliver) - Sent(c, IsDeliver) = Unsent(Delivers(c))
        /\ Outstanding(c, IsDeliver) \in Nat /\ Sent(c, IsDeliver) \in Nat
    BY OutstandingCounts
  <2> QED  BY <2>1, <2>2
<1> QED  BY <1>1, OutboxHolds, ServerInductive, PTL

(* Every SEND_STAT is ended by its one STATUS task and no SEND is answered *)
(* twice, if that task can be allocated (rpchat_conn_proc_enqueue_status   *)
(* leaves SEND_STAT behind if it cannot).                                  *)
THEOREM StatusIsOwed ==
  ASSUME "nomem" \notin Env
  PROVE  Spec => []StatusOwed
<1>1. BaseInv /\ OutboxInv => StatusOwed
  BY OutstandingCounts DEF OutboxInv, Outbox, StatusOwed, Leaving
<1> QED  BY <1>1, OutboxHolds, ServerInductive, PTL
=============================================================================
