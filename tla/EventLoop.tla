----------------------------- MODULE EventLoop -----------------------------
(***************************************************************************)
(* The main thread (rpchat_basic_chat.c, rpchat_monitor_connections): it   *)
(* waits for epoll, accepts connections, hands socket events to the pool,  *)
(* queues a HEARTBEAT for every connection on SIGALRM and shuts the server *)
(* down on SIGINT.  Under "nomem" every allocation may fail, but that of a *)
(* node of the task queue: ThreadPool shows that this one ends the service.*)
(***************************************************************************)
EXTENDS ServerState

MainIs(pc) == At(Main, pc)

(* The loop waits again when all events are processed.                     *)
Waiting == MainIs("events") /\ batch = {}

(* The listening socket and the signalfd are level-triggered.              *)
ReadyEvents ==
  {c \in Conns : armed[c] /\ edge[c]}
    \cup (IF \E c \in Conns : peer[c] = "backlog" THEN {"server"} ELSE {})
    \cup (IF sig # {} THEN {"signal"} ELSE {})

(* res of rpchat_handle_events is still RPLIB_UNSUCCESS before its first   *)
(* event is handled ("first" in batch); that matters only if an allocation *)
(* fails there.                                                            *)
Handled(e) == batch' = batch \ {e, "first"}

EpollWait ==
  /\ Waiting
  /\ ReadyEvents # {}
  /\ batch' = ReadyEvents \cup (IF "nomem" \in Env THEN {"first"} ELSE {})
  /\ edge' = [c \in Conns |-> FALSE]
  /\ UNCHANGED <<queue, th, list, ll, conn, fd, open, armed, inbox, peer, sig, proc, ghost>>

(* epoll_wait is interrupted: rpchat_monitor_connections returns 0 events, *)
(* and rpchat_handle_events, given none, RPLIB_UNSUCCESS: planned exit.    *)
(* Or the buffer for the events cannot be allocated: the same clean-up.    *)
EpollInterrupted ==
  /\ Env \cap {"eintr", "nomem"} # {}
  /\ Waiting
  /\ Goto(Main, "drain")
  /\ UNCHANGED <<queue, list, ll, conn, socket, event, proc, ghost>>

(* An event of connection c: stop listening, queue an INBOUND task.        *)
HandleEvent(c) ==
  /\ MainIs("events")
  /\ c \in batch /\ ~IsDestroyed(c)
  /\ Handled(c)
  /\ EpollDel(fd[c])
  /\ EnqueueTask(Inbound(c))
  /\ th' = [th EXCEPT ![Main] = Local("count", NoTask, Inbound(c), "events", NULL)]
  /\ UNCHANGED <<list, ll, conn, fd, open, inbox, peer, sig, proc, ghost>>

(* The arguments of the task cannot be allocated: the rest of the events   *)
(* is dropped, and res says "planned exit" if this was the first of them.  *)
EventNoMemory ==
  /\ "nomem" \in Env
  /\ MainIs("events")
  /\ batch \cap Conns # {}
  /\ batch' = {}
  /\ IF "first" \in batch THEN Goto(Main, "drain") ELSE UNCHANGED th
  /\ UNCHANGED <<queue, list, ll, conn, socket, sig, proc, ghost>>

(* rpchat_handle_new_connection.                                           *)
HandleNewConnection(c) ==
  /\ MainIs("events")
  /\ "server" \in batch
  /\ peer[c] = "backlog"
  /\ ll = NULL
  /\ Handled("server")
  /\ peer' = [peer EXCEPT ![c] = "open"]
  /\ fd' = [fd EXCEPT ![c] = FreeFd]
  /\ open' = [open EXCEPT ![c] = TRUE]
  /\ mem' = [mem EXCEPT ![c] = "live"]
  /\ list' = Append(list, c)
  /\ EpollAdd(c)
  /\ UNCHANGED <<queue, th, ll, lock, status, pending, registered, idle, inbox,
                 sig, proc, ghost>>

(* accept fails (EMFILE): mutex_conn_ll is unlocked though it was never    *)
(* locked here, and the rest of the events is dropped.                     *)
AcceptFails ==
  /\ "emfile" \in Env
  /\ MainIs("events")
  /\ "server" \in batch
  /\ ll' = NULL
  /\ batch' = {}
  /\ UNCHANGED <<queue, th, list, conn, socket, sig, proc, ghost>>

(* The list cannot take the connection: RPLIB_ERROR, and the accepted      *)
(* socket stays open with nobody to know of it.                            *)
ConnectionNoMemory(c) ==
  /\ "nomem" \in Env
  /\ MainIs("events")
  /\ "server" \in batch
  /\ peer[c] = "backlog"
  /\ ll = NULL
  /\ batch' = {}
  /\ peer' = [peer EXCEPT ![c] = "open"]
  /\ fd' = [fd EXCEPT ![c] = FreeFd]
  /\ open' = [open EXCEPT ![c] = TRUE]
  /\ UNCHANGED <<queue, th, list, ll, conn, armed, edge, inbox, sig, proc, ghost>>

(* The list has taken it, but epoll_ctl cannot: RPLIB_ERROR, and the       *)
(* connection is one that nobody listens to until an audit times it out.   *)
ConnectionUnwatched(c) ==
  /\ "nomem" \in Env
  /\ MainIs("events")
  /\ "server" \in batch
  /\ peer[c] = "backlog"
  /\ ll = NULL
  /\ batch' = {}
  /\ peer' = [peer EXCEPT ![c] = "open"]
  /\ fd' = [fd EXCEPT ![c] = FreeFd]
  /\ open' = [open EXCEPT ![c] = TRUE]
  /\ mem' = [mem EXCEPT ![c] = "live"]
  /\ list' = Append(list, c)
  /\ UNCHANGED <<queue, th, ll, lock, status, pending, registered, idle, armed, edge,
                 inbox, sig, proc, ghost>>

(* rpchat_handle_signal; SIGINT has the lower number and is read first.    *)
HandleSigInt ==
  /\ MainIs("events")
  /\ "signal" \in batch
  /\ "SIGINT" \in sig
  /\ sig' = sig \ {"SIGINT"}
  /\ batch' = {}
  /\ Goto(Main, "drain")
  /\ UNCHANGED <<queue, list, ll, conn, socket, proc, ghost>>

(* rpchat_audit_connections takes mutex_conn_ll for the whole walk.        *)
HandleSigAlrm ==
  /\ MainIs("events")
  /\ "signal" \in batch
  /\ sig = {"SIGALRM"}
  /\ ll = NULL
  /\ ll' = Main
  /\ sig' = {}
  /\ Handled("signal")
  /\ th' = [th EXCEPT ![Main].pc = "audit", ![Main].cur = Front]
  /\ UNCHANGED <<queue, list, conn, socket, proc, ghost>>

AuditNext ==
  /\ MainIs("audit")
  /\ th[Main].cur # NULL
  /\ EnqueueTask(Heartbeat(th[Main].cur))
  /\ th' = [th EXCEPT ![Main] = Local("count", NoTask, Heartbeat(th[Main].cur),
                                      "audit", NextNode(th[Main].cur))]
  /\ UNCHANGED <<list, ll, conn, socket, event, proc, ghost>>

(* A HEARTBEAT cannot be allocated: the audit ends.  Its result is         *)
(* RPLIB_UNSUCCESS at the first connection, which is a planned exit.       *)
AuditNoMemory ==
  /\ "nomem" \in Env
  /\ MainIs("audit")
  /\ th[Main].cur # NULL
  /\ ll' = NULL
  /\ IF th[Main].cur = Front
     THEN batch' = {} /\ th' = [th EXCEPT ![Main].pc = "drain", ![Main].cur = NULL]
     ELSE UNCHANGED batch /\ th' = [th EXCEPT ![Main].pc = "events", ![Main].cur = NULL]
  /\ UNCHANGED <<queue, list, conn, socket, sig, proc, ghost>>

AuditDone ==
  /\ MainIs("audit")
  /\ th[Main].cur = NULL
  /\ ll' = NULL
  /\ Goto(Main, "events")
  /\ UNCHANGED <<queue, list, conn, socket, event, proc, ghost>>

(* rplib_tpool_destroy(p_tpool, false): the pool runs until it has no task *)
(* (ThreadPool!WaitSafe), then everything is released.  The call may also  *)
(* never return (ThreadPool, DestroyReturns), so nothing obliges this step *)
(* to be taken.                                                            *)
Shutdown ==
  /\ MainIs("drain")
  /\ queue = << >>
  /\ \A t \in Workers : th[t].pc = "idle"
  /\ proc' = "stopped"
  /\ UNCHANGED <<queue, th, list, ll, conn, socket, event, ghost>>

EventThread ==
  \/ CountJob(Main) \/ EpollWait \/ EpollInterrupted
  \/ \E c \in Conns : HandleEvent(c) \/ HandleNewConnection(c) \/ ConnectionNoMemory(c)
                       \/ ConnectionUnwatched(c)
  \/ EventNoMemory \/ AcceptFails \/ HandleSigInt \/ HandleSigAlrm
  \/ AuditNext \/ AuditNoMemory \/ AuditDone

MainThread == EventThread \/ Shutdown
=============================================================================
