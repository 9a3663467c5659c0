--------------------------- MODULE ServerProtocol ---------------------------
(***************************************************************************)
(* Proofs about ChatServer that rest on its two mutexes.                   *)
(*                                                                         *)
(* mutex_conn: a worker owns the connection of its task from the trylock   *)
(* to the unlock (Owners).  conn_status is changed by the owner only, so a *)
(* worker finds the state that it left (StatusAt), nobody leaves CLOSING,  *)
(* and the socket is closed once (SocketClosedOnce).                       *)
(*                                                                         *)
(* mutex_conn_ll: who walks over the list has it, so the list does not     *)
(* change under the walk (WalkSafe) - unless accept fails, whose error     *)
(* path unlocks a mutex that it never locked; README.md, section 4, has an *)
(* instance where that goes wrong, and the theorem excludes it.            *)
(***************************************************************************)
EXTENDS ServerProofs

(* mutex_conn: whoever is past its trylock and before its unlock has it.   *)
Owners == \A t \in Workers : Place(t) \in Locked => lock[Conn(t)] = t

(* What a worker may rely on where it is: nobody else has changed the      *)
(* state of its connection since it looked.  Past the unlock of the        *)
(* destruction it is CLOSING for good.                                     *)
StatusFits(t) ==
  LET s == status[Conn(t)]
  IN  /\ Place(t) \in {"find", "name"} => s = "PRE_REGISTER" /\ IsIn(t)
      /\ Place(t) \in {"broadcast", "next"} =>
           \/ s \in {"PRE_REGISTER", "AVAILABLE", "PENDING_STATUS"} /\ IsIn(t)
           \/ s = "CLOSING"
      /\ Place(t) = "reply" => s \in {"PRE_REGISTER", "AVAILABLE"} /\ IsIn(t)
      /\ Place(t) = "unlock" => s = "SEND_STAT" /\ IsIn(t)
      /\ Place(t) = "arm" => s \in {"AVAILABLE", "PENDING_STATUS"}
      /\ Place(t) = "del" => s = "ERR"
      /\ Place(t) \in {"destroy", "mutex", "unlink"} => s = "CLOSING"
StatusAt ==
  /\ \A t \in Workers : StatusFits(t)
  /\ \A c \in Conns : mem[c] \in {"dead", "freed"} => status[c] = "CLOSING"
-----------------------------------------------------------------------------
LEMMA AtPlace ==
  ASSUME BaseInv, NEW t \in Workers, Place(t) \in WithTask
  PROVE  th[t].task \in Tasks /\ Conn(t) \in Conns /\ mem[Conn(t)] # "none"
  BY NoTaskIsNone, TaskFields DEF BaseInv, ThreadsOK, WorkerShape, InUse, Conn, Threads, Place,
     WithTask, Locked

(* A worker comes to a place where it holds the mutex with the trylock, or *)
(* from another such place, with the same task.                            *)
LEMMA LockedMove ==
  ASSUME BaseInv, NEW t \in Workers, Worker(t), Place(t)' \in Locked
  PROVE  \/ TryLock(t)
         \/ /\ Place(t) \in Locked /\ th'[t].task = th[t].task
            /\ UNCHANGED lock
<1>a. th \in [Threads -> Locals] /\ t \in Threads /\ WorkerShape(th[t])
  BY DEF BaseInv, ThreadsOK, Threads
<1> USE <1>a DEF WorkerShape, WithTask, Locked, Locals, At, In, Place
<1>1. CASE \/ RecvRegister(t) \/ RecvSend(t) \/ RecvStatus(t)
           \/ SetUsername(t) \/ Reply(t) \/ SendStatus(t) \/ SendDeliver(t) \/ ProcError(t)
           \/ ClosingNow(t)
  BY <1>1 DEF RecvRegister, RecvSend, RecvStatus, SetUsername, conn,
     Reply, SendStatus, SendDeliver, ProcError, ClosingNow, Goto, Receives, Reading, Sending
<1>2. CASE CountJob(t)
  BY <1>2 DEF CountJob
<1>3. CASE RequeueTask(t) \/ TakeTask(t) \/ StartJob(t) \/ DestroyMutex(t) \/ DestroyUnlock(t)
  BY <1>3 DEF RequeueTask, TakeTask, StartJob, DestroyMutex, DestroyUnlock, Goto
<1>4. CASE \/ HeartbeatOk(t) \/ BufferFails(t) \/ Rearm(t) \/ Replied(t) \/ SendFails(t)
           \/ ClosingLater(t) \/ Unlink(t)
  BY <1>4 DEF HeartbeatOk, BufferFails, Rearm, Replied, SendFails,
     ClosingLater, Unlink, Cleanup, IdleWorker, Local
<1>5. ASSUME RequeueNoUnlock(t) \/ RequeueFreed(t) PROVE Place(t)' \notin Locked
  BY <1>5 DEF RequeueNoUnlock, RequeueFreed, Local
<1>6. CASE \/ TryLockFails(t) \/ RecvNothing(t) \/ RecvBad(t) \/ StartSendMsg(t)
           \/ Postpone(t) \/ CloseEpollDel(t)
  BY <1>5, <1>6 DEF TryLockFails, RecvNothing, RecvBad, StartSendMsg, Postpone, CloseEpollDel,
     Fail, Requeue
<1>7. CASE FindUser(t)
  <2>1. RequeueNoUnlock(t) \/ (Goto(t, "name") /\ UNCHANGED lock)
    BY <1>7 DEF FindUser, Fail, Requeue, conn
  <2> QED  BY <1>5, <1>7, <2>1 DEF FindUser, Goto
<1>8. CASE HeartbeatTimeout(t) \/ SigPipe(t) \/ BroadcastSkip(t)
  BY <1>8 DEF HeartbeatTimeout, SigPipe, BroadcastSkip, vars, conn, Sending
<1>9. CASE BroadcastLock(t) \/ BroadcastNoMemory(t)
  BY <1>9 DEF BroadcastLock, BroadcastNoMemory, conn
<1>10. CASE BroadcastDeliver(t)
  BY <1>10 DEF BroadcastDeliver, conn
<1>11. CASE BroadcastDone(t)
  <2>1. UNCHANGED lock /\ (Goto(t, "reply") \/ Goto(t, "arm") \/ Goto(t, "destroy"))
    BY <1>11 DEF BroadcastDone
  <2> QED  BY <1>11, <2>1 DEF BroadcastDone, Goto
<1> QED
  BY <1>1, <1>2, <1>3, <1>4, <1>6, <1>7, <1>8, <1>9, <1>10, <1>11 DEF Worker

LEMMA OthersStay ==
  ASSUME BaseInv, [Next]_vars, NEW u \in Workers
  PROVE  Worker(u) \/ th'[u] = th[u]
<1>1. ASSUME NEW t \in Workers, Worker(t), t # u PROVE th'[u] = th[u]
  BY <1>1, WorkerLocal DEF BaseInv, ThreadsOK, Threads
<1>2. CASE MainThread
  BY <1>2, MainLocal, ServerAssumption DEF BaseInv, ThreadsOK, Threads
<1>3. CASE Environment \/ Undefined \/ Halted \/ UNCHANGED vars
  BY <1>3, OthersLocal
<1> QED  BY <1>1, <1>2, <1>3, NextCases

(* A worker that holds a mutex keeps it, and the state of its connection,  *)
(* while others step.                                                      *)
LEMMA OwnerKeeps ==
  ASSUME BaseInv, Owners, [Next]_vars, NEW u \in Workers, th'[u] = th[u], Place(u) \in Locked
  PROVE  \/ Worker(u)
         \/ lock'[Conn(u)] = u /\ status'[Conn(u)] = status[Conn(u)]
<1>0. lock[Conn(u)] = u /\ Conn(u) \in Conns /\ u # NULL
  BY AtPlace, ServerAssumption DEF Owners, WithTask
<1>1. ASSUME NEW t \in Workers, TryLock(t)
      PROVE  lock'[Conn(u)] = u /\ status'[Conn(u)] = status[Conn(u)]
  BY <1>0, <1>1 DEF TryLock, BaseInv, ConnTyped
<1>2. ASSUME NEW t \in Workers, t # u, th[t].pc \in Locked,
             lock' \in {lock, [lock EXCEPT ![Conn(t)] = NULL]},
             UNCHANGED status \/ \E s \in Status : status' = [status EXCEPT ![Conn(t)] = s]
      PROVE  lock'[Conn(u)] = u /\ status'[Conn(u)] = status[Conn(u)]
  <2>1. lock[Conn(t)] = t
    BY <1>2 DEF Owners, Place, Locked
  <2>2. Conn(t) # Conn(u)
    BY <1>0, <1>2, <2>1
  <2> QED  BY <1>0, <1>2, <2>2 DEF BaseInv, ConnTyped
<1> QED  BY <1>0, <1>1, <1>2, OwnerWrites

LEMMA OwnersStep ==
  ASSUME BaseInv, Owners, [Next]_vars
  PROVE  Owners'
<1> SUFFICES ASSUME NEW u \in Workers, Place(u)' \in Locked
             PROVE  lock'[Conn(u)'] = u
  BY DEF Owners
<1>1. CASE Worker(u)
  <2>1. CASE TryLock(u)
    <3>1. Conn(u) \in Conns /\ th[u].task \in Tasks /\ u \in Threads
      BY <2>1, HasTask DEF TryLock, At, WithTask, Threads
    <3>2. Conn(u)' = Conn(u)
      BY <2>1, <3>1, BufferMade DEF TryLock, Conn, BaseInv, ThreadsOK, Locals
    <3> QED  BY <2>1, <3>1, <3>2 DEF TryLock, BaseInv, ConnTyped
  <2> QED  BY <1>1, <2>1, LockedMove DEF Owners, Conn
<1>2. CASE ~Worker(u)
  <2>1. th'[u] = th[u]
    BY <1>2, OthersStay
  <2> QED  BY <1>2, <2>1, OwnerKeeps DEF Place, Conn
<1> QED  BY <1>1, <1>2
-----------------------------------------------------------------------------
(* The state of a connection moves along the diagram of README.md, and the *)
(* worker that moves it is the one that has its task.  (That no STATUS is  *)
(* sent in SEND_MSG is for ServerCounts to show.)                          *)
Moves(t, s, r) ==
  \/ s \notin {"ERR", "CLOSING"} /\ r = "ERR"
  \/ s \in {"PRE_REGISTER", "AVAILABLE"} /\ r = "SEND_STAT" /\ Reply(t)
  \/ s \in {"PRE_REGISTER", "AVAILABLE"} /\ r = "SEND_MSG" /\ StartSendMsg(t)
  \/ s = "SEND_STAT" /\ r = "AVAILABLE" /\ SendStatus(t)
  \/ s = "SEND_MSG" /\ r = "PENDING_STATUS" /\ (SendDeliver(t) \/ SendStatus(t))
  \/ s = "PENDING_STATUS" /\ r = "AVAILABLE" /\ (RecvStatus(t) \/ BroadcastDone(t))
  \/ s = "ERR" /\ r = "CLOSING" /\ CloseEpollDel(t)

LEMMA StatusMoves ==
  ASSUME BaseInv, StatusAt, [Next]_vars, NEW c \in Conns, status'[c] # status[c]
  PROVE  \E t \in Workers :
           Conn(t) = c /\ th[t].pc \in Locked /\ Moves(t, status[c], status'[c])
<1> DEFINE Goal(t) == Conn(t) = c /\ th[t].pc \in Locked /\ Moves(t, status[c], status'[c])
<1> USE DEF BaseInv, ConnTyped, Moves, Locked
<1>1. ASSUME NEW t \in Workers, HeartbeatTimeout(t) \/ StartSendMsg(t) \/ SendFails(t)
      PROVE  Goal(t)
  BY <1>1 DEF HeartbeatTimeout, StartSendMsg, SendFails, SetStatus, In, At, Sending
<1>2. ASSUME NEW t \in Workers, RecvNothing(t) \/ RecvBad(t)
      PROVE  Goal(t)
  <2>1. th[t].pc = "proc" /\ status[Conn(t)] \in {"PRE_REGISTER", "AVAILABLE", "PENDING_STATUS"}
    BY <1>2 DEF RecvNothing, RecvBad, Receives, Reading, In, At
  <2> QED  BY <1>2, <2>1 DEF RecvNothing, RecvBad, Fail, SetStatus
<1>3. ASSUME NEW t \in Workers, RecvStatus(t)
      PROVE  Goal(t)
  BY <1>3 DEF RecvStatus, SetStatus, In, At
<1>4. ASSUME NEW t \in Workers, FindUser(t)
      PROVE  Goal(t)
  <2>1. th[t].pc = "find" /\ status[Conn(t)] = "PRE_REGISTER"
    BY <1>4 DEF FindUser, At, StatusAt, StatusFits, Place
  <2> QED  BY <1>4, <2>1 DEF FindUser, Fail, SetStatus, conn
<1>5. ASSUME NEW t \in Workers, BroadcastDone(t)
      PROVE  Goal(t)
  BY <1>5 DEF BroadcastDone, SetStatus, At
<1>6. ASSUME NEW t \in Workers, Reply(t)
      PROVE  Goal(t)
  <2>1. th[t].pc = "reply" /\ status[Conn(t)] \in {"PRE_REGISTER", "AVAILABLE"}
    BY <1>6 DEF Reply, At, StatusAt, StatusFits, Place
  <2> QED  BY <1>6, <2>1 DEF Reply, SetStatus
<1>7. ASSUME NEW t \in Workers, SendStatus(t) \/ SendDeliver(t)
      PROVE  Goal(t)
  <2>1. /\ th[t].pc = "proc"
        /\ \/ status[Conn(t)] = "SEND_STAT" /\ IsStatus(t)
           \/ status[Conn(t)] = "SEND_MSG"
    BY <1>7 DEF SendStatus, SendDeliver, Sending, In, At
  <2>2. CASE SendStatus(t)
    <3>1. In(t, {"SEND_STAT"}) <=> status[Conn(t)] = "SEND_STAT"
      BY <2>2 DEF SendStatus, Sending, In
    <3> QED  BY <2>1, <2>2, <3>1 DEF SendStatus, SetStatus
  <2>3. CASE SendDeliver(t)
    BY <2>1, <2>3 DEF SendDeliver, SetStatus
  <2> QED  BY <1>7, <2>2, <2>3
<1>8. ASSUME NEW t \in Workers, CloseEpollDel(t)
      PROVE  Goal(t)
  <2>1. th[t].pc = "del" /\ status[Conn(t)] = "ERR"
    BY <1>8 DEF CloseEpollDel, At, StatusAt, StatusFits, Place
  <2> QED  BY <1>8, <2>1 DEF CloseEpollDel, SetStatus
<1> QED  BY <1>1, <1>2, <1>3, <1>4, <1>5, <1>6, <1>7, <1>8, StatusWriters

(* A connection that failed stays so, and nobody leaves CLOSING.           *)
LEMMA ClosingStays ==
  ASSUME BaseInv, StatusAt, [Next]_vars, NEW c \in Conns
  PROVE  /\ status[c] = "CLOSING" => status'[c] = "CLOSING"
         /\ status[c] \in {"ERR", "CLOSING"} => status'[c] \in {"ERR", "CLOSING"}
  BY StatusMoves DEF Moves

(* Where a worker comes to after a step, the state is as it must be.       *)
LEMMA StatusFitsStep ==
  ASSUME BaseInv, StatusAt, NEW t \in Workers, Worker(t)
  PROVE  StatusFits(t)'
<1>a. th \in [Threads -> Locals] /\ t \in Threads /\ WorkerShape(th[t]) /\ StatusFits(t)
  BY DEF BaseInv, ThreadsOK, Threads, StatusAt
<1>b. th[t].pc \in WithTask => th[t].task \in Tasks /\ Conn(t) \in Conns
  BY HasTask
<1>c. status \in [Conns -> Status]
  BY DEF BaseInv, ConnTyped
<1> USE <1>a, <1>b, <1>c DEF WorkerShape, Locals, At, In, Place, StatusFits, Conn, IsIn,
    WithTask, Locked
<1>1. CASE RecvRegister(t) \/ RecvSend(t) \/ ClosingNow(t)
  BY <1>1 DEF RecvRegister, RecvSend, ClosingNow, Goto, Receives, Reading, conn
<1>2. CASE RecvStatus(t) \/ SendStatus(t) \/ SendDeliver(t)
  BY <1>2 DEF RecvStatus, SendStatus, SendDeliver, Goto, Receives, Reading, Sending, SetStatus
<1>3. CASE SetUsername(t) \/ DestroyUnlock(t) \/ DestroyMutex(t)
  BY <1>3 DEF SetUsername, DestroyUnlock, DestroyMutex, Goto
<1>4. CASE Reply(t)
  BY <1>4 DEF Reply, Goto, SetStatus
<1>5. CASE ProcError(t)
  BY <1>5 DEF ProcError, Goto, conn
<1>6. CASE CountJob(t)
  BY <1>6 DEF CountJob
<1>7. CASE RequeueTask(t) \/ TakeTask(t) \/ StartJob(t)
  BY <1>7 DEF RequeueTask, TakeTask, StartJob, Goto
<1>8. CASE TryLock(t)
  BY <1>8 DEF TryLock
<1>9. CASE \/ HeartbeatOk(t) \/ BufferFails(t) \/ Rearm(t) \/ Replied(t) \/ SendFails(t)
           \/ ClosingLater(t) \/ Unlink(t)
  BY <1>9 DEF HeartbeatOk, BufferFails, Rearm, Replied, SendFails,
     ClosingLater, Unlink, Cleanup, IdleWorker, Local
<1>10. ASSUME RequeueNoUnlock(t) \/ RequeueFreed(t) PROVE StatusFits(t)'
  BY <1>10 DEF RequeueNoUnlock, RequeueFreed, Local
<1>11. CASE \/ TryLockFails(t) \/ RecvNothing(t) \/ RecvBad(t) \/ StartSendMsg(t)
            \/ Postpone(t) \/ CloseEpollDel(t)
  BY <1>10, <1>11 DEF TryLockFails, RecvNothing, RecvBad, StartSendMsg, Postpone, CloseEpollDel,
     Fail, Requeue
<1>12. CASE FindUser(t)
  <2>1. RequeueNoUnlock(t) \/ (Goto(t, "name") /\ UNCHANGED status)
    BY <1>12 DEF FindUser, Fail, Requeue, conn
  <2> QED  BY <1>10, <1>12, <2>1 DEF FindUser, Goto
<1>13. CASE HeartbeatTimeout(t)
  BY <1>13 DEF HeartbeatTimeout
<1>14. CASE SigPipe(t) \/ BroadcastSkip(t)
  BY <1>14 DEF SigPipe, BroadcastSkip, vars, conn
<1>15. CASE BroadcastLock(t) \/ BroadcastNoMemory(t)
  BY <1>15 DEF BroadcastLock, BroadcastNoMemory, conn
<1>16. CASE BroadcastDeliver(t)
  BY <1>16 DEF BroadcastDeliver, conn
<1>17. CASE BroadcastDone(t)
  BY <1>17 DEF BroadcastDone, Goto, SetStatus
<1> QED
  BY <1>1, <1>2, <1>3, <1>4, <1>5, <1>6, <1>7, <1>8, <1>9, <1>11, <1>12, <1>13, <1>14, <1>15,
     <1>16, <1>17 DEF Worker

LEMMA StatusAtStep ==
  ASSUME BaseInv, Owners, StatusAt, [Next]_vars
  PROVE  StatusAt'
<1>1. ASSUME NEW u \in Workers PROVE StatusFits(u)'
  <2>1. CASE Worker(u)
    BY <2>1, StatusFitsStep
  <2>2. CASE ~Worker(u)
    <3>1. th'[u] = th[u] /\ StatusFits(u)
      BY <2>2, OthersStay DEF StatusAt
    <3>2. CASE Place(u) \in Locked
      BY <2>2, <3>1, <3>2, OwnerKeeps DEF StatusFits, Place, Conn, IsIn
    <3>3. CASE Place(u) \in {"mutex", "unlink"}
      <4>1. Conn(u) \in Conns /\ status[Conn(u)] = "CLOSING"
        BY <3>1, <3>3, AtPlace DEF StatusFits, WithTask
      <4> QED  BY <3>1, <3>3, <4>1, ClosingStays DEF StatusFits, Place, Conn, IsIn
    <3>4. CASE Place(u) \notin Locked \cup {"mutex", "unlink"}
      BY <3>1, <3>4 DEF StatusFits, Place, Locked
    <3> QED  BY <3>2, <3>3, <3>4
  <2> QED  BY <2>1, <2>2
<1>2. ASSUME NEW c \in Conns, mem'[c] \in {"dead", "freed"} PROVE status'[c] = "CLOSING"
  <2>1. CASE mem[c] \in {"dead", "freed"}
    BY <2>1, ClosingStays DEF StatusAt
  <2>2. ASSUME NEW t \in Workers, DestroyMutex(t) \/ Unlink(t), mem[c] \notin {"dead", "freed"}
        PROVE  status'[c] = "CLOSING"
    <3>1. Conn(t) = c
      BY <1>2, <2>2 DEF DestroyMutex, Unlink, BaseInv, ConnTyped
    <3>2. status[c] = "CLOSING"
      BY <2>2, <3>1 DEF DestroyMutex, Unlink, At, StatusAt, StatusFits, Place
    <3> QED  BY <3>2, ClosingStays
  <2>3. ASSUME NEW d \in Conns, HandleNewConnection(d) \/ ConnectionUnwatched(d)
        PROVE  mem[c] \in {"dead", "freed"}
    BY <1>2, <2>3 DEF HandleNewConnection, ConnectionUnwatched, BaseInv, ConnTyped
  <2> QED  BY <1>2, <2>1, <2>2, <2>3, MemWriters
<1> QED  BY <1>1, <1>2 DEF StatusAt

LEMMA OwnersInit == Init => Owners /\ StatusAt
  BY ServerAssumption DEF Init, Owners, StatusAt, StatusFits, Place, Locked, IdleWorker, Local,
     Threads

(* Two workers never work on one connection, and each finds it in the      *)
(* state that it left it in.                                               *)
THEOREM OwnersHold == Spec => [](Owners /\ StatusAt)
<1>1. BaseInv /\ Owners /\ StatusAt /\ [Next]_vars => (Owners /\ StatusAt)'
  BY OwnersStep, StatusAtStep
<1> QED  BY <1>1, OwnersInit, ServerInductive, PTL DEF Spec
-----------------------------------------------------------------------------
(* "del" lies between the close of the socket and CLOSING.                 *)
LEMMA AfterDel ==
  ASSUME NEW t \in Workers, Worker(t), th[t].pc = "del"
  PROVE  CloseEpollDel(t)
  BY DEF Worker, RequeueTask, CountJob, TakeTask, StartJob, TryLock, BufferFails, TryLockFails,
     HeartbeatOk, HeartbeatTimeout, RecvNothing, RecvRegister, RecvSend, RecvBad,
     RecvStatus, Rearm, FindUser, SetUsername, BroadcastLock, BroadcastDeliver,
     BroadcastNoMemory, BroadcastSkip, BroadcastDone, Reply, Replied, StartSendMsg,
     SendStatus, SendDeliver, SendFails, SigPipe, Postpone, ProcError,
     ClosingLater, ClosingNow, DestroyUnlock, DestroyMutex, Unlink, At, In, Receives, Reading,
     Sending

LEMMA BeforeDel ==
  ASSUME BaseInv, NEW t \in Workers, Worker(t), th'[t].pc = "del"
  PROVE  ProcError(t)
<1>a. th \in [Threads -> Locals] /\ t \in Threads /\ WorkerShape(th[t])
  BY DEF BaseInv, ThreadsOK, Threads
<1> USE <1>a DEF WorkerShape, Locals, At, In
<1>1. CASE \/ RequeueTask(t) \/ StartJob(t) \/ RecvRegister(t) \/ RecvSend(t) \/ RecvStatus(t)
           \/ SetUsername(t) \/ Reply(t) \/ SendStatus(t) \/ SendDeliver(t)
           \/ ClosingNow(t) \/ DestroyMutex(t) \/ TakeTask(t) \/ TryLock(t)
           \/ DestroyUnlock(t) \/ BroadcastLock(t)
  BY <1>1 DEF RequeueTask, StartJob, RecvRegister, RecvSend, RecvStatus, SetUsername,
     Reply, SendStatus, SendDeliver, ClosingNow, DestroyMutex, Goto, TakeTask, TryLock,
     DestroyUnlock, BroadcastLock
<1>2. CASE CountJob(t)
  BY <1>2 DEF CountJob
<1>3. CASE \/ HeartbeatOk(t) \/ BufferFails(t) \/ Rearm(t) \/ Replied(t) \/ SendFails(t)
           \/ ClosingLater(t) \/ Unlink(t)
  BY <1>3 DEF HeartbeatOk, BufferFails, Rearm, Replied, SendFails,
     ClosingLater, Unlink, Cleanup, IdleWorker, Local
<1>4. CASE \/ TryLockFails(t) \/ RecvNothing(t) \/ RecvBad(t) \/ StartSendMsg(t)
           \/ Postpone(t) \/ CloseEpollDel(t)
  <2>1. RequeueNoUnlock(t) \/ RequeueFreed(t)
    BY <1>4 DEF TryLockFails, RecvNothing, RecvBad, StartSendMsg, Postpone, CloseEpollDel,
       Fail, Requeue
  <2> QED  BY <2>1 DEF RequeueNoUnlock, RequeueFreed, Local
<1>5. CASE FindUser(t)
  <2>1. RequeueNoUnlock(t) \/ Goto(t, "name")
    BY <1>5 DEF FindUser, Fail, Requeue
  <2> QED  BY <2>1 DEF RequeueNoUnlock, Local, Goto
<1>6. CASE HeartbeatTimeout(t) \/ SigPipe(t) \/ BroadcastSkip(t)
  BY <1>6 DEF HeartbeatTimeout, SigPipe, BroadcastSkip, vars, Sending
<1>7. CASE BroadcastNoMemory(t)
  BY <1>7 DEF BroadcastNoMemory
<1>8. CASE BroadcastDeliver(t)
  BY <1>8 DEF BroadcastDeliver
<1>9. CASE BroadcastDone(t)
  <2>1. Goto(t, "reply") \/ Goto(t, "arm") \/ Goto(t, "destroy")
    BY <1>9 DEF BroadcastDone
  <2> QED  BY <2>1 DEF Goto
<1> QED  BY <1>1, <1>2, <1>3, <1>4, <1>5, <1>6, <1>7, <1>8, <1>9 DEF Worker

LEMMA SocketClosedStep ==
  ASSUME BaseInv, Owners, StatusAt, SocketClosedOnce, [Next]_vars
  PROVE  SocketClosedOnce'
<1> DEFINE Deleting(c) == \E t \in Workers : th[t].pc = "del" /\ th[t].task.conn = c
           Deleting1(c) == \E t \in Workers : th'[t].pc = "del" /\ th'[t].task.conn = c
<1> SUFFICES ASSUME NEW c \in Conns, mem'[c] # "none"
             PROVE  open'[c] <=> status'[c] # "CLOSING" /\ ~Deleting1(c)
  BY DEF SocketClosedOnce
<1>a. \A t \in Threads : th[t] \in Locals
  BY DEF BaseInv, ThreadsOK
<1>1. CASE mem[c] = "none"
  <2>1. PICK d \in Conns : HandleNewConnection(d) \/ ConnectionUnwatched(d)
    <3>1. ASSUME NEW t \in Workers, DestroyMutex(t) \/ Unlink(t) PROVE FALSE
      <4>1. Conn(t) # c
        BY <1>1, <3>1, HasTask DEF DestroyMutex, Unlink, At, WithTask
      <4> QED  BY <1>1, <3>1, <4>1 DEF DestroyMutex, Unlink, BaseInv, ConnTyped
    <3> QED  BY <1>1, <3>1, MemWriters
  <2>2. /\ d = c /\ open' = [open EXCEPT ![d] = TRUE] /\ UNCHANGED <<th, status>>
    BY <1>1, <2>1 DEF HandleNewConnection, ConnectionUnwatched, BaseInv, ConnTyped
  <2>3. status[c] = "PRE_REGISTER" /\ ~Deleting(c)
    BY <1>1, HasTask DEF BaseInv, Fresh, WithTask, Locked, Conn
  <2> QED  BY <2>2, <2>3 DEF BaseInv, SocketTyped
<1>2. CASE mem[c] # "none"
  <2>0. open[c] <=> status[c] # "CLOSING" /\ ~Deleting(c)
    BY <1>2 DEF SocketClosedOnce
  <2>1. ASSUME NEW t \in Workers, ProcError(t), Conn(t) = c
        PROVE  open'[c] <=> status'[c] # "CLOSING" /\ ~Deleting1(c)
    <3>1. ~open'[c]
      BY <2>1 DEF ProcError, BaseInv, SocketTyped
    <3>2. th'[t].pc = "del" /\ th'[t].task.conn = c
      BY <2>1 DEF ProcError, Goto, Conn, BaseInv, ThreadsOK, Threads, Locals
    <3> QED  BY <3>1, <3>2
  <2>2. ASSUME NEW t \in Workers, CloseEpollDel(t), Conn(t) = c
        PROVE  open'[c] <=> status'[c] # "CLOSING" /\ ~Deleting1(c)
    <3>1. ~open[c] /\ UNCHANGED open
      BY <2>0, <2>2 DEF CloseEpollDel, At, Conn
    <3>2. status'[c] = "CLOSING"
      BY <2>2 DEF CloseEpollDel, SetStatus, BaseInv, ConnTyped
    <3> QED  BY <3>1, <3>2
  <2>3. ASSUME \A t \in Workers : ~(ProcError(t) /\ Conn(t) = c) /\ ~(CloseEpollDel(t) /\ Conn(t) = c)
        PROVE  open'[c] <=> status'[c] # "CLOSING" /\ ~Deleting1(c)
    <3>1. open'[c] = open[c]
      <4>1. ASSUME NEW d \in Conns,
                   HandleNewConnection(d) \/ ConnectionNoMemory(d) \/ ConnectionUnwatched(d)
            PROVE  d # c /\ open' = [open EXCEPT ![d] = TRUE]
        BY <1>2, <4>1, AcceptedIsNew DEF HandleNewConnection, ConnectionNoMemory, ConnectionUnwatched
      <4>2. ASSUME NEW t \in Workers, ProcError(t)
            PROVE  Conn(t) # c /\ open' = [open EXCEPT ![Conn(t)] = FALSE]
        BY <2>3, <4>2 DEF ProcError
      <4> QED  BY <4>1, <4>2, SocketWriters DEF BaseInv, SocketTyped
    <3>2. Deleting1(c) <=> Deleting(c)
      <4>1. ASSUME NEW t \in Workers, th'[t].pc = "del", th'[t].task.conn = c
            PROVE  th[t].pc = "del" /\ th[t].task.conn = c
        <5>1. CASE Worker(t)
          <6>1. ProcError(t)
            BY <4>1, <5>1, BeforeDel
          <6>2. th'[t].task = th[t].task
            BY <6>1 DEF ProcError, Goto, BaseInv, ThreadsOK, Threads, Locals
          <6> QED  BY <2>3, <4>1, <6>1, <6>2 DEF Conn
        <5>2. CASE ~Worker(t)
          BY <4>1, <5>2, OthersStay
        <5> QED  BY <5>1, <5>2
      <4>2. ASSUME NEW t \in Workers, th[t].pc = "del", th[t].task.conn = c
            PROVE  th'[t].pc = "del" /\ th'[t].task.conn = c
        BY <2>3, <4>2, AfterDel, OthersStay DEF Conn
      <4> QED  BY <4>1, <4>2
    <3>3. status'[c] = "CLOSING" => status[c] = "CLOSING"
      BY <2>3, StatusMoves DEF Moves
    <3>4. status[c] = "CLOSING" => status'[c] = "CLOSING"
      BY ClosingStays
    <3> QED  BY <2>0, <3>1, <3>2, <3>3, <3>4
  <2> QED  BY <2>1, <2>2, <2>3
<1> QED  BY <1>1, <1>2

(* The socket of a connection is closed once, by the worker that takes the *)
(* connection from ERR to CLOSING (rpchat_conn_proc_error), and never      *)
(* leaked while the object is in use: for any number of tasks of the       *)
(* connection that workers run at once.                                    *)
THEOREM SocketsClosedOnce == Spec => []SocketClosedOnce
<1>1. Init => SocketClosedOnce
  BY DEF Init, SocketClosedOnce
<1>2. BaseInv /\ Owners /\ StatusAt /\ SocketClosedOnce /\ [Next]_vars => SocketClosedOnce'
  BY SocketClosedStep
<1> QED  BY <1>1, <1>2, OwnersHold, ServerInductive, PTL DEF Spec
-----------------------------------------------------------------------------
(* The walks over the list.                                                *)
WalkInv ==
  \A t \in Threads : Walking(t) => ll = t /\ (th[t].cur # NULL => Linked(th[t].cur))

LEMMA WorkerWalk ==
  ASSUME BaseInv, NEW t \in Workers, Worker(t), Walking(t)'
  PROVE  /\ BroadcastLock(t) \/ (Walking(t) /\ UNCHANGED ll)
         /\ th'[t].cur # NULL => th'[t].cur = th[t].cur \/ Linked(th'[t].cur)
         /\ UNCHANGED list
<1>a. th \in [Threads -> Locals] /\ t \in Threads /\ WorkerShape(th[t])
  BY DEF BaseInv, ThreadsOK, Threads
<1> USE <1>a DEF WorkerShape, WithTask, Locked, Locals, At, In, Walking
<1>1. CASE CountJob(t)
  BY <1>1 DEF CountJob
<1>2. CASE BroadcastLock(t)
  <2>1. th'[t].cur = WalkTo(t, Front)
    BY <1>2 DEF BroadcastLock
  <2>2. Conn(t) \in Conns
    BY <1>2, HasTask DEF BroadcastLock
  <2> QED  BY <1>2, <2>1, <2>2, FrontLinked, WalkToLinked DEF BroadcastLock, BaseInv
<1>3. CASE BroadcastDeliver(t) \/ BroadcastNoMemory(t)
  <2>1. th[t].pc = "next" /\ th[t].cur # NULL /\ th[t].cur \in Conns
    BY <1>3 DEF BroadcastDeliver, BroadcastNoMemory
  <2>2. mem[th[t].cur] # "freed"
    BY <1>3, <2>1 DEF BroadcastDeliver, BroadcastNoMemory, Deref, IsDestroyed
  <2>3. Linked(th[t].cur)
    BY <2>1, <2>2 DEF BaseInv, ConnTyped, InUse, LinkedWhileUsed
  <2>4. Conn(t) \in Conns
    BY <2>1, HasTask
  <2>5. th'[t].cur = WalkTo(t, NextNode(th[t].cur))
    BY <1>3 DEF BroadcastDeliver, BroadcastNoMemory
  <2>6. th'[t].cur # NULL => Linked(th'[t].cur)
    BY <2>1, <2>3, <2>4, <2>5, NextNodeLinked, WalkToLinked DEF BaseInv
  <2>7. UNCHANGED <<ll, list>>
    BY <1>3 DEF BroadcastDeliver, BroadcastNoMemory
  <2> QED  BY <2>1, <2>6, <2>7
<1>4. CASE BroadcastSkip(t)
  BY <1>4 DEF BroadcastSkip, vars
<1>5. CASE \/ RequeueTask(t) \/ StartJob(t) \/ RecvRegister(t) \/ RecvSend(t) \/ RecvStatus(t)
           \/ SetUsername(t) \/ Reply(t) \/ SendStatus(t) \/ SendDeliver(t) \/ ProcError(t)
           \/ ClosingNow(t) \/ DestroyMutex(t) \/ TakeTask(t) \/ TryLock(t) \/ DestroyUnlock(t)
  BY <1>5 DEF RequeueTask, StartJob, RecvRegister, RecvSend, RecvStatus, SetUsername,
     Reply, SendStatus, SendDeliver, ProcError, ClosingNow, DestroyMutex, Goto, TakeTask, TryLock,
     DestroyUnlock, Receives, Reading, Sending
<1>6. CASE \/ HeartbeatOk(t) \/ BufferFails(t) \/ Rearm(t) \/ Replied(t) \/ SendFails(t)
           \/ ClosingLater(t) \/ Unlink(t)
  BY <1>6 DEF HeartbeatOk, BufferFails, Rearm, Replied, SendFails,
     ClosingLater, Unlink, Cleanup, IdleWorker, Local
<1>7. CASE \/ TryLockFails(t) \/ RecvNothing(t) \/ RecvBad(t) \/ StartSendMsg(t)
           \/ Postpone(t) \/ CloseEpollDel(t)
  <2>1. RequeueNoUnlock(t) \/ RequeueFreed(t)
    BY <1>7 DEF TryLockFails, RecvNothing, RecvBad, StartSendMsg, Postpone, CloseEpollDel,
       Fail, Requeue
  <2> QED  BY <2>1 DEF RequeueNoUnlock, RequeueFreed, Local
<1>8. CASE FindUser(t)
  <2>1. RequeueNoUnlock(t) \/ Goto(t, "name")
    BY <1>8 DEF FindUser, Fail, Requeue
  <2> QED  BY <1>8, <2>1 DEF FindUser, RequeueNoUnlock, Local, Goto
<1>9. CASE HeartbeatTimeout(t) \/ SigPipe(t)
  BY <1>9 DEF HeartbeatTimeout, SigPipe, Sending
<1>10. CASE BroadcastDone(t)
  <2>1. Goto(t, "reply") \/ Goto(t, "arm") \/ Goto(t, "destroy")
    BY <1>10 DEF BroadcastDone
  <2> QED  BY <1>10, <2>1 DEF BroadcastDone, Goto
<1> QED  BY <1>1, <1>2, <1>3, <1>4, <1>5, <1>6, <1>7, <1>8, <1>9, <1>10 DEF Worker

LEMMA MainWalk ==
  ASSUME BaseInv, MainThread, Walking(Main)'
  PROVE  /\ HandleSigAlrm \/ (Walking(Main) /\ UNCHANGED ll)
         /\ th'[Main].cur # NULL => th'[Main].cur = th[Main].cur \/ Linked(th'[Main].cur)
         /\ UNCHANGED list
<1>a. th \in [Threads -> Locals] /\ Main \in Threads /\ MainShape(th[Main])
  BY DEF BaseInv, ThreadsOK, Threads
<1> USE <1>a DEF MainShape, Locals, At, MainIs, Walking
<1>1. CASE CountJob(Main)
  BY <1>1 DEF CountJob
<1>2. CASE EpollInterrupted \/ HandleSigInt \/ AuditNoMemory \/ AuditDone
  BY <1>2 DEF EpollInterrupted, HandleSigInt, AuditNoMemory, AuditDone, Waiting, Goto
<1>3. CASE EventNoMemory
  BY <1>3 DEF EventNoMemory, Goto
<1>4. CASE \/ EpollWait \/ AcceptFails \/ Shutdown
           \/ \E c \in Conns : \/ HandleNewConnection(c) \/ ConnectionNoMemory(c)
                               \/ ConnectionUnwatched(c)
  BY <1>4 DEF EpollWait, AcceptFails, Shutdown, HandleNewConnection, ConnectionNoMemory,
     ConnectionUnwatched
<1>5. CASE \E c \in Conns : HandleEvent(c)
  BY <1>5 DEF HandleEvent, Local
<1>6. CASE HandleSigAlrm
  BY <1>6, FrontLinked DEF HandleSigAlrm, BaseInv
<1>7. CASE AuditNext
  <2>1. th[Main].pc = "audit" /\ th[Main].cur # NULL /\ th[Main].cur \in Conns
    BY <1>7 DEF AuditNext
  <2>2. Linked(th[Main].cur)
    BY <1>7, <2>1 DEF AuditNext, Deref, IsDestroyed, BaseInv, ConnTyped, InUse, LinkedWhileUsed
  <2>3. th'[Main].cur = NextNode(th[Main].cur) /\ UNCHANGED <<ll, list>>
    BY <1>7 DEF AuditNext, Local
  <2> QED  BY <2>1, <2>2, <2>3, NextNodeLinked DEF BaseInv
<1> QED  BY <1>1, <1>2, <1>3, <1>4, <1>5, <1>6, <1>7 DEF MainThread, EventThread

LEMMA WalkStep ==
  ASSUME "emfile" \notin Env, BaseInv, WalkInv, [Next]_vars
  PROVE  WalkInv'
<1> SUFFICES ASSUME NEW u \in Threads, Walking(u)'
             PROVE  ll' = u /\ (th[u].cur # NULL => Linked(th[u].cur))'
  BY DEF WalkInv
<1>0. u # NULL
  BY ServerAssumption DEF Threads
(* The thread itself.                                                      *)
<1>1. ASSUME NEW t \in Workers, u = t, Worker(t)
      PROVE  ll' = u /\ (th[u].cur # NULL => Linked(th[u].cur))'
  <2>1. ll' = u
    BY <1>1, WorkerWalk DEF BroadcastLock, WalkInv
  <2>2. CASE BroadcastLock(t)
    <3>1. th'[t].cur # NULL => Linked(th'[t].cur)
      <4>1. th'[t].cur = WalkTo(t, Front)
        BY <2>2 DEF BroadcastLock, BaseInv, ThreadsOK, Threads, Locals
      <4>2. Conn(t) \in Conns
        BY <2>2, HasTask DEF BroadcastLock, At, WithTask, Locked
      <4> QED  BY <4>1, <4>2, FrontLinked, WalkToLinked DEF BaseInv
    <3> QED  BY <1>1, <2>1, <3>1, WorkerWalk DEF Linked
  <2>3. CASE Walking(t)
    <3>1. th'[t].cur # NULL => Linked(th'[t].cur)
      BY <1>1, <2>3, WorkerWalk DEF WalkInv
    <3> QED  BY <1>1, <2>1, <3>1, WorkerWalk DEF Linked
  <2> QED  BY <1>1, <2>2, <2>3, WorkerWalk
<1>2. ASSUME MainThread, u = Main
      PROVE  ll' = u /\ (th[u].cur # NULL => Linked(th[u].cur))'
  <2>1. ll' = u
    BY <1>2, MainWalk DEF HandleSigAlrm, WalkInv
  <2>2. CASE HandleSigAlrm
    <3>1. th'[Main].cur # NULL => Linked(th'[Main].cur)
      BY <2>2, FrontLinked DEF HandleSigAlrm, BaseInv, ThreadsOK, Threads, Locals
    <3> QED  BY <1>2, <2>1, <3>1, MainWalk DEF Linked
  <2>3. CASE Walking(Main)
    <3>1. th'[Main].cur # NULL => Linked(th'[Main].cur)
      BY <1>2, <2>3, MainWalk DEF WalkInv
    <3> QED  BY <1>2, <2>1, <3>1, MainWalk DEF Linked
  <2> QED  BY <1>2, <2>2, <2>3, MainWalk
(* The others do not touch the list nor its mutex while it is held.        *)
<1>3. ASSUME th'[u] = th[u], \A t \in Workers : Worker(t) => t # u, MainThread => u # Main
      PROVE  ll' = u /\ (th[u].cur # NULL => Linked(th[u].cur))'
  <2>1. ll = u /\ (th[u].cur # NULL => Linked(th[u].cur))
    BY <1>3 DEF Walking, WalkInv
  <2>2. UNCHANGED list
    BY <1>0, <2>1, ListWriters DEF Unlink, HandleNewConnection, ConnectionUnwatched
  <2>3. UNCHANGED ll
    <3>1. ASSUME NEW t \in Workers, BroadcastDone(t) PROVE FALSE
      <4>1. Worker(t) /\ Walking(t)
        BY <3>1 DEF Worker, BroadcastDone, At, Walking
      <4> QED  BY <1>3, <2>1, <4>1 DEF WalkInv, Threads
    <3>2. ASSUME AuditNoMemory \/ AuditDone PROVE FALSE
      <4>1. MainThread /\ Walking(Main)
        BY <3>2 DEF MainThread, EventThread, AuditNoMemory, AuditDone, MainIs, At, Walking
      <4> QED  BY <1>3, <2>1, <4>1 DEF WalkInv, Threads
    <3> QED  BY <1>0, <2>1, <3>1, <3>2, LLWriters DEF BroadcastLock, AcceptFails, HandleSigAlrm
  <2> QED  BY <1>3, <2>1, <2>2, <2>3 DEF Linked
<1>4. CASE u \in Workers
  BY <1>1, <1>3, <1>4, OthersStay, ServerAssumption
<1>5. CASE u = Main
  <2>1. MainThread \/ th'[Main] = th[Main]
    <3>1. ASSUME NEW t \in Workers, Worker(t) PROVE th'[Main] = th[Main]
      BY <3>1, WorkerLocal, ServerAssumption DEF BaseInv, ThreadsOK, Threads
    <3> QED  BY <3>1, OthersLocal, NextCases
  <2> QED  BY <1>2, <1>3, <1>5, <2>1, ServerAssumption
<1> QED  BY <1>4, <1>5 DEF Threads

(* A broadcast and an audit hold mutex_conn_ll to their end, and the node  *)
(* they go to next is linked: no Unlink and no accept of another thread    *)
(* moves the list under them, as long as accept does not fail.             *)
THEOREM WalksAreSafe ==
  ASSUME "emfile" \notin Env
  PROVE  Spec => []WalkSafe
<1>1. Init => WalkInv
  BY DEF Init, WalkInv, Walking, IdleMain, IdleWorker, Local
<1>2. BaseInv /\ WalkInv /\ [Next]_vars => WalkInv'
  BY WalkStep
<1>3. WalkInv => WalkSafe
  BY DEF WalkInv, WalkSafe
<1> QED  BY <1>1, <1>2, <1>3, ServerInductive, PTL DEF Spec
=============================================================================
