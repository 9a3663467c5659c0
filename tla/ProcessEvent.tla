---------------------------- MODULE ProcessEvent ----------------------------
(***************************************************************************)
(* rpchat_task_conn_proc_event and what it calls (rpchat_process_event.c): *)
(* the connection state machine, run by the workers of the pool.           *)
(*                                                                         *)
(* A step ends where another thread can see a difference: at an access to  *)
(* the task queue, pending_jobs, a mutex, the connection list, a socket or *)
(* the epoll set.  What a worker does to a connection whose mutex it holds *)
(* and then its unlock are one step.                                       *)
(* For the same reason a task that a worker queues for the connection it   *)
(* holds is queued and counted in one step: pending_jobs is only read by   *)
(* the holder of mutex_conn.                                               *)
(***************************************************************************)
EXTENDS ServerState

Conn(t)     == th[t].task.conn
In(t, S)    == At(t, "proc") /\ status[Conn(t)] \in S
IsIn(t)     == th[t].task.type = "INBOUND"
IsOut(t)    == th[t].task.type = "OUTBOUND"
IsStatus(t) == IsOut(t) /\ th[t].task.msg = "STATUS"

(* Ghost: the wait of connection c ends without the STATUS it is for.      *)
Crosses(c) == crossed' = [crossed EXCEPT ![c] = @ + 1]

SetStatus(t, s) == status' = [status EXCEPT ![Conn(t)] = s]
Unlock(t)       == lock' = [lock EXCEPT ![Conn(t)] = NULL]

(* Labels cleanup and requeue of rpchat_task_conn_proc_event.              *)
Cleanup(t) == Unlock(t) /\ th' = [th EXCEPT ![t] = IdleWorker]
(* Mutant: the task that goes back has lost its fields.                    *)
RequeueCleared(t) ==
  th' = [th EXCEPT ![t] = Local("requeue", NoTask, NoTask, "idle", NULL)]
RequeueNoUnlock(t) ==
  th' = [th EXCEPT ![t] = Local("requeue", NoTask, th[t].task, "idle", NULL)]
Requeue(t) == Unlock(t) /\ RequeueNoUnlock(t)

(* The buffer has been freed: the task allocates a new one on its next run.*)
RequeueFreed(t) ==
  /\ Unlock(t)
  /\ th' = [th EXCEPT ![t] = Local("requeue", NoTask, Inbound(Conn(t)), "idle", NULL)]

(* ... and the task is put back, after the unlock.                         *)
RequeueTask(t) ==
  /\ At(t, "requeue")
  /\ EnqueueTask(th[t].out)
  /\ Goto(t, "count")
  /\ UNCHANGED <<list, ll, conn, socket, event, proc, ghost>>

(* rpchat_conn_info_enqueue_task for the worker's own connection.          *)
EnqueueOwn(t, task) ==
  /\ EnqueueTask(task)
  /\ pending' = [pending EXCEPT ![Conn(t)] = @ + 1]

(* The pool hands the oldest task to an idle worker.                       *)
TakeTask(t) ==
  /\ At(t, "idle")
  /\ queue # << >>
  /\ th' = [th EXCEPT ![t].pc = "start", ![t].task = Head(queue)]
  /\ queue' = Tail(queue)
  /\ UNCHANGED <<list, ll, conn, socket, event, proc, ghost>>

(* Mutant: a job that starts is not taken off pending_jobs.                *)
StartJobUncounted(t) ==
  /\ At(t, "start")
  /\ Goto(t, "lock")
  /\ UNCHANGED <<queue, list, ll, conn, socket, event, proc, ghost>>

StartJob(t) ==
  /\ At(t, "start")
  /\ pending' = [pending EXCEPT ![Conn(t)] = @ - 1]
  /\ Goto(t, "lock")
  /\ UNCHANGED <<queue, list, ll, mem, lock, status, registered, idle, socket,
                 event, proc, ghost>>

(* Mutant: a HEARTBEAT counts as activity.                                 *)
TryLockRefreshes(t) ==
  /\ At(t, "lock")
  /\ mem[Conn(t)] = "live" /\ lock[Conn(t)] = NULL
  /\ lock' = [lock EXCEPT ![Conn(t)] = t]
  /\ idle' = [idle EXCEPT ![Conn(t)] = 0]
  /\ Goto(t, "proc")
  /\ UNCHANGED <<queue, list, ll, mem, status, pending, registered, socket,
                 event, proc, ghost>>

(* last_active, unless the task is a HEARTBEAT.                            *)
Touch(t) ==
  idle' = [idle EXCEPT ![Conn(t)] = IF th[t].task.type = "HEARTBEAT" THEN @ ELSE 0]

(* pthread_mutex_trylock.                                                  *)
TryLock(t) ==
  /\ At(t, "lock")
  /\ mem[Conn(t)] = "live" /\ lock[Conn(t)] = NULL
  /\ lock' = [lock EXCEPT ![Conn(t)] = t]
  /\ Touch(t)
  /\ th' = [th EXCEPT ![t].pc = "proc", ![t].task = WithBuffer(@)]
  /\ UNCHANGED <<queue, list, ll, mem, status, pending, registered, socket,
                 event, proc, ghost>>

(* The buffer cannot be allocated: "TODO: set error".  The task is dropped.*)
BufferFails(t) ==
  /\ "nomem" \in Env
  /\ At(t, "lock")
  /\ mem[Conn(t)] = "live" /\ lock[Conn(t)] = NULL
  /\ th[t].task.msg = "none"
  /\ Touch(t)
  /\ th' = [th EXCEPT ![t] = IdleWorker]
  /\ UNCHANGED <<queue, list, ll, mem, lock, status, pending, registered, socket,
                 event, proc, ghost>>

(* Somebody holds the mutex, or it was destroyed and trylock fails.        *)
TryLockFails(t) ==
  /\ At(t, "lock")
  /\ mem[Conn(t)] = "dead" \/ lock[Conn(t)] # NULL
  /\ RequeueNoUnlock(t)
  /\ UNCHANGED <<queue, list, ll, conn, socket, event, proc, ghost>>

(* HEARTBEAT of a connection that is not being closed: no more than a look *)
(* at the clock, or the transition to ERR, handled in the same run.        *)
HeartbeatOk(t) ==
  /\ th[t].task.type = "HEARTBEAT"
  /\ In(t, Status \ {"ERR", "CLOSING"})
  /\ idle[Conn(t)] <= TIMEOUT
  /\ Cleanup(t)
  /\ UNCHANGED <<queue, list, ll, mem, status, pending, registered, idle,
                 socket, event, proc, ghost>>

(* Mutant: the timeout is tested in every state.                           *)
HeartbeatInAnyState(t) ==
  /\ th[t].task.type = "HEARTBEAT"
  /\ In(t, Status)
  /\ TIMEOUT < idle[Conn(t)]
  /\ SetStatus(t, "ERR")
  /\ UNCHANGED <<queue, th, list, ll, mem, lock, pending, registered, idle,
                 socket, event, proc, ghost>>

HeartbeatTimeout(t) ==
  /\ th[t].task.type = "HEARTBEAT"
  /\ In(t, Status \ {"ERR", "CLOSING"})
  /\ TIMEOUT < idle[Conn(t)]
  /\ SetStatus(t, "ERR")
  /\ UNCHANGED <<queue, th, list, ll, mem, lock, pending, registered, idle,
                 socket, event, proc, ghost>>
-----------------------------------------------------------------------------
(* INBOUND task in a state that reads the socket.                          *)

Reading(t) == IsIn(t) /\ In(t, {"PRE_REGISTER", "AVAILABLE", "PENDING_STATUS"})

(* rpchat_get_msg_type answers RPLIB_UNSUCCESS to an unknown opcode, which *)
(* is the number of RPCHAT_BCP_REGISTER.                                   *)
MsgType(m) == IF m = "UNKNOWN" THEN "REGISTER" ELSE m

Receives(t, msgs) ==
  /\ Reading(t)
  /\ inbox[Conn(t)] # << >>
  /\ MsgType(Head(inbox[Conn(t)])) \in msgs
  /\ inbox' = [inbox EXCEPT ![Conn(t)] = Tail(@)]
  /\ UNCHANGED <<fd, open, armed, edge, peer>>

(* handle_msg returned RPLIB_ERROR: state ERR, and the task runs again.    *)
Fail(t) ==
  /\ SetStatus(t, "ERR")
  /\ Requeue(t)
  /\ UNCHANGED <<queue, list, ll, mem, pending, registered, idle, event, proc, ghost>>

(* recv has no byte: end of file, error, or nothing to read (EAGAIN).  The *)
(* same as Fail, but handle_inbound_msg has freed the buffer.              *)
RecvNothing(t) ==
  /\ Reading(t)
  /\ inbox[Conn(t)] = << >>
  /\ SetStatus(t, "ERR")
  /\ RequeueFreed(t)
  /\ UNCHANGED <<queue, list, ll, mem, pending, registered, idle, socket, event,
                 proc, ghost>>

RecvRegister(t) ==
  /\ Receives(t, {"REGISTER"})
  /\ In(t, {"PRE_REGISTER"})
  /\ Goto(t, "find")
  /\ UNCHANGED <<queue, list, ll, conn, event, proc, ghost>>

RecvSend(t) ==
  /\ Receives(t, {"SEND"})
  /\ Goto(t, "broadcast")
  /\ UNCHANGED <<queue, list, ll, conn, event, proc, ghost>>

(* What handle_msg answers with RPLIB_ERROR, and what it answers with      *)
(* RPLIB_UNSUCCESS where that is an error too.  REFUSED is a SEND whose    *)
(* body is incomplete, too long or empty, or a STATUS without its code;    *)
(* OTHER is a DELIVER, or a REGISTER (or unknown opcode) whose name is.    *)
RecvBad(t) ==
  /\ \/ Receives(t, {"OTHER"})
     \/ Receives(t, {"REGISTER"}) /\ ~In(t, {"PRE_REGISTER"})
     \/ Receives(t, {"STATUS_BAD"})
     \/ Receives(t, {"STATUS_GOOD", "REFUSED"}) /\ ~In(t, {"PENDING_STATUS"})
  /\ Fail(t)

(* In PENDING_STATUS anything that is not RPLIB_ERROR ends the wait.       *)
RecvStatus(t) ==
  /\ Receives(t, {"STATUS_GOOD", "REFUSED"})
  /\ In(t, {"PENDING_STATUS"})
  /\ SetStatus(t, "AVAILABLE")
  /\ IF Head(inbox[Conn(t)]) = "REFUSED" THEN Crosses(Conn(t)) ELSE UNCHANGED crossed
  /\ Goto(t, "arm")
  /\ UNCHANGED <<queue, list, ll, mem, lock, pending, registered, idle, event,
                 proc, due, owed, awaiting, sent>>

(* Mutant: the socket is not added to the epoll set again.                 *)
RearmForgotten(t) ==
  /\ At(t, "arm")
  /\ Cleanup(t)
  /\ UNCHANGED <<queue, list, ll, mem, status, pending, registered, idle,
                 socket, event, proc, ghost>>

(* rpchat_toggle_descriptor(enabled), the end of the task.                 *)
Rearm(t) ==
  /\ At(t, "arm")
  /\ EpollAdd(Conn(t))
  /\ Cleanup(t)
  /\ UNCHANGED <<queue, list, ll, mem, status, pending, registered, idle, fd,
                 open, inbox, peer, event, proc, ghost>>
-----------------------------------------------------------------------------
(* rpchat_handle_register after it read the message.                       *)

(* rpchat_conn_queue_find_by_username: the loop never advances its node    *)
(* and compares zero characters, so what decides is the length of the name *)
(* of the front connection (zero while that one is not registered).        *)
FindByUsername(c) ==
  IF list # << >> /\ registered[Front] /\ NameLen[Front] = NameLen[c]
  THEN Front ELSE NULL

FindUser(t) ==
  /\ At(t, "find")
  /\ ll = NULL
  /\ IF FindByUsername(Conn(t)) # NULL
     THEN Fail(t) /\ UNCHANGED socket
     ELSE Goto(t, "name") /\ UNCHANGED <<queue, list, ll, conn, socket, event, proc, ghost>>

(* The username is copied without mutex_conn_ll, but the two that read it, *)
(* FindByUsername and list_users, hold that mutex.  list_users takes it    *)
(* here, for the text of the client's own DELIVER.                         *)
SetUsername(t) ==
  /\ At(t, "name")
  /\ Len(list) > 1 => ll = NULL
  /\ registered' = [registered EXCEPT ![Conn(t)] = TRUE]
  /\ \/ /\ EnqueueOwn(t, Deliver(Conn(t)))
        /\ due' = [due EXCEPT ![Conn(t)] = @ + 1]
     \/ "nomem" \in Env /\ UNCHANGED <<queue, pending, due>>
  /\ Goto(t, "broadcast")
  /\ UNCHANGED <<list, ll, mem, lock, status, idle, socket, event, proc,
                 owed, awaiting, crossed, sent>>
-----------------------------------------------------------------------------
(* rpchat_broadcast_msg, sender Conn(t), with mutex_conn_ll from end to    *)
(* end.  It is called in PRE_REGISTER or AVAILABLE (then the state becomes *)
(* SEND_STAT and a STATUS is queued), in PENDING_STATUS (then AVAILABLE),  *)
(* and in CLOSING (then the connection is destroyed).                      *)

(* The walk reaches node c; the sender's own node is passed over.          *)
WalkTo(t, c) == IF c = Conn(t) THEN NextNode(c) ELSE c

BroadcastLock(t) ==
  /\ At(t, "broadcast")
  /\ ll = NULL
  /\ ll' = t
  /\ th' = [th EXCEPT ![t].pc = "next", ![t].cur = WalkTo(t, Front)]
  /\ UNCHANGED <<queue, list, conn, socket, event, proc, ghost>>

BroadcastDeliver(t) ==
  /\ At(t, "next")
  /\ th[t].cur # NULL
  /\ status[th[t].cur] \notin {"CLOSING", "ERR"}
  /\ EnqueueTask(Deliver(th[t].cur))
  /\ th' = [th EXCEPT ![t].pc = "count", ![t].out = Deliver(th[t].cur),
                      ![t].ret = "next", ![t].cur = WalkTo(t, NextNode(th[t].cur))]
  /\ due' = [due EXCEPT ![th[t].cur] = @ + 1]
  /\ UNCHANGED <<list, ll, conn, socket, event, proc, owed, awaiting,
                 crossed, sent>>

(* rpchat_conn_proc_enqueue_deliver returns RPLIB_ERROR, which nobody      *)
(* looks at: this connection does not get the message.                     *)
BroadcastNoMemory(t) ==
  /\ "nomem" \in Env
  /\ At(t, "next")
  /\ th[t].cur # NULL
  /\ status[th[t].cur] \notin {"CLOSING", "ERR"}
  /\ th' = [th EXCEPT ![t].cur = WalkTo(t, NextNode(@))]
  /\ UNCHANGED <<queue, list, ll, conn, socket, event, proc, ghost>>

(* "if closing or in error state, skip": continue, to the same node.       *)
BroadcastSkip(t) ==
  /\ At(t, "next")
  /\ th[t].cur # NULL
  /\ status[th[t].cur] \in {"CLOSING", "ERR"}
  /\ UNCHANGED vars

BroadcastDone(t) ==
  /\ At(t, "next")
  /\ th[t].cur = NULL
  /\ ll' = NULL
  /\ CASE status[Conn(t)] \in {"PRE_REGISTER", "AVAILABLE"} ->
            UNCHANGED <<status, crossed>> /\ Goto(t, "reply")
       [] status[Conn(t)] = "PENDING_STATUS" ->
            SetStatus(t, "AVAILABLE") /\ Crosses(Conn(t)) /\ Goto(t, "arm")
       [] OTHER ->
            UNCHANGED <<status, crossed>> /\ Goto(t, "destroy")
  /\ UNCHANGED <<queue, list, mem, lock, pending, registered, idle, socket,
                 event, proc, due, owed, awaiting, sent>>

(* Mutant: the state says that a STATUS is due, but there is none.         *)
ReplyForgotten(t) ==
  /\ At(t, "reply")
  /\ SetStatus(t, "SEND_STAT")
  /\ Goto(t, "unlock")
  /\ UNCHANGED <<queue, pending, list, ll, mem, lock, registered, idle, socket, event, proc, ghost>>

(* SEND_STAT, and rpchat_conn_proc_enqueue_status: the STATUS is a task.   *)
(* If it cannot be allocated, the state is SEND_STAT all the same.         *)
Reply(t) ==
  /\ At(t, "reply")
  /\ SetStatus(t, "SEND_STAT")
  /\ \/ EnqueueOwn(t, StatusGood(Conn(t)))
     \/ "nomem" \in Env /\ UNCHANGED <<queue, pending>>
  /\ Goto(t, "unlock")
  /\ UNCHANGED <<list, ll, mem, lock, registered, idle, socket, event, proc, ghost>>

Replied(t) ==
  /\ At(t, "unlock")
  /\ Cleanup(t)
  /\ UNCHANGED <<queue, list, ll, mem, status, pending, registered, idle,
                 socket, event, proc, ghost>>
-----------------------------------------------------------------------------
(* OUTBOUND tasks.                                                         *)

(* Mutant: the state becomes SEND_MSG and the task is dropped.             *)
StartSendMsgDrops(t) ==
  /\ IsOut(t)
  /\ In(t, {"PRE_REGISTER", "AVAILABLE"})
  /\ SetStatus(t, "SEND_MSG")
  /\ Cleanup(t)
  /\ UNCHANGED <<queue, list, ll, mem, pending, registered, idle, socket,
                 event, proc, ghost>>

(* The state first becomes SEND_MSG; the task sends on its next run.       *)
StartSendMsg(t) ==
  /\ IsOut(t)
  /\ In(t, {"PRE_REGISTER", "AVAILABLE"})
  /\ SetStatus(t, "SEND_MSG")
  /\ Requeue(t)
  /\ UNCHANGED <<queue, list, ll, mem, pending, registered, idle, socket,
                 event, proc, ghost>>

(* Mutants: a DELIVER is sent before the STATUS that is due; a DELIVER is  *)
(* sent while another one waits for its acknowledgement.                   *)
SendingEarly(t)   == IsOut(t) /\ In(t, {"SEND_STAT", "SEND_MSG"})
SendingPending(t) == \/ IsStatus(t) /\ In(t, {"SEND_STAT"})
                     \/ IsOut(t) /\ In(t, {"SEND_MSG", "PENDING_STATUS"})

Sending(t) == \/ IsStatus(t) /\ In(t, {"SEND_STAT"})
              \/ IsOut(t) /\ In(t, {"SEND_MSG"})

(* send(2) without MSG_NOSIGNAL, external: a peer that is gone answers the *)
(* first message with a reset, and the next send raises SIGPIPE.           *)
SendOk(c) ==
  /\ peer[c] \in {"open", "closed"}
  /\ peer' = [peer EXCEPT ![c] = IF @ = "closed" THEN "reset" ELSE @]
SendRefused(c) == "sendfail" \in Env /\ peer[c] = "open"
SendKills(c)   == peer[c] = "reset"

SendStatus(t) ==
  /\ Sending(t) /\ IsStatus(t)
  /\ SendOk(Conn(t))
  /\ SetStatus(t, IF In(t, {"SEND_STAT"}) THEN "AVAILABLE" ELSE "PENDING_STATUS")
  /\ awaiting' = [awaiting EXCEPT ![Conn(t)] = FALSE]
  /\ Goto(t, "arm")
  /\ UNCHANGED <<queue, list, ll, mem, lock, pending, registered, idle, fd,
                 open, armed, edge, inbox, event, proc, due, owed, crossed, sent>>

SendDeliver(t) ==
  /\ Sending(t) /\ ~IsStatus(t)
  /\ SendOk(Conn(t))
  /\ SetStatus(t, "PENDING_STATUS")
  /\ due' = [due EXCEPT ![Conn(t)] = @ - 1]
  /\ owed' = [owed EXCEPT ![Conn(t)] = @ + 1]
  /\ Goto(t, "arm")
  /\ UNCHANGED <<queue, list, ll, mem, lock, pending, registered, idle, fd,
                 open, armed, edge, inbox, event, proc, awaiting, crossed, sent>>

(* rpchat_conn_info_submit_msg sets ERR and returns RPLIB_UNSUCCESS, which *)
(* does not requeue the task.                                              *)
SendFails(t) ==
  /\ Sending(t)
  /\ SendRefused(Conn(t))
  /\ SetStatus(t, "ERR")
  /\ Cleanup(t)
  /\ UNCHANGED <<queue, list, ll, mem, pending, registered, idle, socket,
                 event, proc, ghost>>

SigPipe(t) ==
  /\ Sending(t) \/ In(t, {"ERR"})
  /\ SendKills(Conn(t))
  /\ proc' = "killed"
  /\ UNCHANGED <<queue, th, list, ll, conn, socket, event, ghost>>

(* Mutant: a task that the state cannot take now is dropped.               *)
PostponeDrops(t) ==
  /\ th[t].task.type # "HEARTBEAT"
  /\ \/ In(t, {"SEND_STAT"}) /\ ~IsStatus(t)
     \/ In(t, {"SEND_MSG"}) /\ ~IsOut(t)
     \/ In(t, {"PENDING_STATUS"}) /\ ~IsIn(t)
  /\ Cleanup(t)
  /\ UNCHANGED <<queue, list, ll, mem, status, pending, registered, idle,
                 socket, event, proc, ghost>>

(* A task that the state cannot take now goes back to the queue.           *)
Postpone(t) ==
  /\ th[t].task.type # "HEARTBEAT"
  /\ \/ In(t, {"SEND_STAT"}) /\ ~IsStatus(t)
     \/ In(t, {"SEND_MSG"}) /\ ~IsOut(t)
     \/ In(t, {"PENDING_STATUS"}) /\ ~IsIn(t)
  /\ Requeue(t)
  /\ UNCHANGED <<queue, list, ll, mem, status, pending, registered, idle,
                 socket, event, proc, ghost>>
-----------------------------------------------------------------------------
(* ERR and CLOSING, for a task of any type.                                *)

(* Mutant: the socket is not closed.                                       *)
ProcErrorLeaks(t) ==
  /\ In(t, {"ERR"})
  /\ \/ SendOk(Conn(t))
     \/ SendRefused(Conn(t)) /\ UNCHANGED peer
  /\ Goto(t, "del")
  /\ UNCHANGED <<queue, list, ll, conn, fd, open, armed, edge, inbox, event,
                 proc, ghost>>

(* rpchat_conn_proc_error: an error STATUS, sent or not, and the close.    *)
ProcError(t) ==
  /\ In(t, {"ERR"})
  /\ \/ SendOk(Conn(t))
     \/ SendRefused(Conn(t)) /\ UNCHANGED peer
  /\ open'  = [open EXCEPT ![Conn(t)] = FALSE]
  /\ armed' = [armed EXCEPT ![Conn(t)] = FALSE]
  /\ edge'  = [edge EXCEPT ![Conn(t)] = FALSE]
  /\ Goto(t, "del")
  /\ UNCHANGED <<queue, list, ll, conn, fd, inbox, event, proc, ghost>>

(* rpchat_close_connection removes the descriptor from epoll after it has  *)
(* closed it; then CLOSING, and the task runs again.                       *)
CloseEpollDel(t) ==
  /\ At(t, "del")
  /\ EpollDel(fd[Conn(t)])
  /\ SetStatus(t, "CLOSING")
  /\ Requeue(t)
  /\ UNCHANGED <<queue, list, ll, mem, pending, registered, idle, fd, open,
                 inbox, peer, event, proc, ghost>>

(* Other jobs are outstanding: one of them will find none.                 *)
ClosingLater(t) ==
  /\ In(t, {"CLOSING"})
  /\ pending[Conn(t)] # 0
  /\ Cleanup(t)
  /\ UNCHANGED <<queue, list, ll, mem, status, pending, registered, idle,
                 socket, event, proc, ghost>>

ClosingNow(t) ==
  /\ In(t, {"CLOSING"})
  /\ pending[Conn(t)] = 0
  /\ Goto(t, "broadcast")
  /\ UNCHANGED <<queue, list, ll, conn, socket, event, proc, ghost>>

(* rpchat_conn_queue_destroy_conn_info: the front of the list is read      *)
(* before mutex_conn_ll is taken; mutex_conn is unlocked, then destroyed.  *)
DestroyUnlock(t) ==
  /\ At(t, "destroy")
  /\ Unlock(t)
  /\ th' = [th EXCEPT ![t].pc = "mutex", ![t].cur = Front]
  /\ UNCHANGED <<queue, list, ll, mem, status, pending, registered, idle,
                 socket, event, proc, ghost>>

(* pthread_mutex_destroy fails with EBUSY if a worker has locked it since. *)
DestroyMutex(t) ==
  /\ At(t, "mutex")
  /\ mem' = [mem EXCEPT ![Conn(t)] = IF lock[Conn(t)] = NULL THEN "dead" ELSE @]
  /\ Goto(t, "unlink")
  /\ UNCHANGED <<queue, list, ll, lock, status, pending, registered, idle,
                 socket, event, proc, ghost>>

(* Mutant: the node is unlinked without mutex_conn_ll.                     *)
UnlinkUnlocked(t) ==
  /\ At(t, "unlink")
  /\ list' = Unlinked(Conn(t))
  /\ mem' = [mem EXCEPT ![Conn(t)] = "freed"]
  /\ th' = [th EXCEPT ![t] = IdleWorker]
  /\ UNCHANGED <<queue, ll, lock, status, pending, registered, idle, socket,
                 event, proc, ghost>>

(* The node is unlinked and the object freed with it.                      *)
Unlink(t) ==
  /\ At(t, "unlink")
  /\ ll = NULL
  /\ list' = Unlinked(Conn(t))
  /\ mem' = [mem EXCEPT ![Conn(t)] = "freed"]
  /\ th' = [th EXCEPT ![t] = IdleWorker]
  /\ UNCHANGED <<queue, ll, lock, status, pending, registered, idle, socket,
                 event, proc, ghost>>
-----------------------------------------------------------------------------
Worker(t) ==
  \/ RequeueTask(t) \/ CountJob(t) \/ TakeTask(t) \/ StartJob(t)
  \/ TryLock(t) \/ BufferFails(t) \/ TryLockFails(t) \/ HeartbeatOk(t) \/ HeartbeatTimeout(t)
  \/ RecvNothing(t) \/ RecvRegister(t) \/ RecvSend(t) \/ RecvBad(t)
  \/ RecvStatus(t) \/ Rearm(t)
  \/ FindUser(t) \/ SetUsername(t)
  \/ BroadcastLock(t) \/ BroadcastDeliver(t) \/ BroadcastNoMemory(t)
  \/ BroadcastSkip(t) \/ BroadcastDone(t) \/ Reply(t) \/ Replied(t)
  \/ StartSendMsg(t) \/ SendStatus(t) \/ SendDeliver(t) \/ SendFails(t)
  \/ SigPipe(t) \/ Postpone(t)
  \/ ProcError(t) \/ CloseEpollDel(t) \/ ClosingLater(t) \/ ClosingNow(t)
  \/ DestroyUnlock(t) \/ DestroyMutex(t) \/ Unlink(t)
=============================================================================
