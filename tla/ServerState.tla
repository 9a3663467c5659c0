---------------------------- MODULE ServerState ----------------------------
(***************************************************************************)
(* The shared state of the chat server and the operations that the worker  *)
(* threads (ProcessEvent) and the main thread (EventLoop) have in common:  *)
(* the task queue as its users see it (the service ThreadPool implements), *)
(* the connection list, the rpchat_conn_info_t objects, the sockets and    *)
(* the edge-triggered epoll set.                                           *)
(*                                                                         *)
(* A client and its connection object are one element of Conns; an element *)
(* is used for one connection.  Message texts are left out; a username is  *)
(* what the duplicate check looks at, a name and its length.               *)
(***************************************************************************)
EXTENDS Integers, Sequences, FiniteSets

CONSTANTS
  Conns,       \* clients
  Workers,     \* threads of the pool (RPCHAT_NUM_THREADS)
  Main,        \* the thread of rpchat_begin_chat_server
  NULL,        \* no thread, no connection
  UserName,    \* UserName[c]: the name client c registers, sanitized
  NameLen,     \* NameLen[c]: its length
  TIMEOUT,     \* RPCHAT_CONNECTION_TIMEOUT in audit intervals
  Env          \* what the environment may do besides talking, see EnvKinds

EnvKinds == {"timer", "sigint", "eintr", "emfile", "sendfail", "hangup", "shortread",
             "statusmsg", "nomem"}

ASSUME ServerAssumption ==
  /\ IsFiniteSet(Conns) /\ IsFiniteSet(Workers)
  /\ Main \notin Workers
  /\ NULL \notin Conns \cup Workers \cup {Main}
  /\ Conns \cap {"server", "signal", "first"} = {}
  /\ TIMEOUT \in Nat
  /\ NameLen \in [Conns -> Nat \ {0}]
  /\ DOMAIN UserName = Conns
  /\ Env \subseteq EnvKinds

Threads == Workers \cup {Main}

VARIABLES
  queue,       \* p_tpool->p_queue_tasks, front first
  th,          \* th[t]: program counter and locals of thread t
  list,        \* p_conn_queue->p_conn_ll, front first
  ll,          \* holder of mutex_conn_ll
  mem,         \* mem[c]: the object: "none", "live", "dead" (mutex destroyed), "freed"
  lock,        \* lock[c]: holder of mutex_conn
  status,      \* status[c]: conn_status
  pending,     \* pending[c]: pending_jobs
  registered,  \* registered[c]: username has been set
  idle,        \* idle[c]: audit intervals since last_active
  fd,          \* fd[c]: h_fd
  open,        \* open[c]: the server's socket for c is open
  armed,       \* armed[c]: the socket is in the epoll set
  edge,        \* edge[c]: epoll has an event for it that was not yet returned
  inbox,       \* inbox[c]: messages the server can read from c
  peer,        \* peer[c]: "out", "backlog", "open", "closed" (FIN), "reset"
  batch,       \* events rpchat_handle_events has still to process
  sig,         \* signals pending on the signalfd
  proc,        \* the process: "up", "stopped", "killed", "undefined"
  due,         \* ghost: DELIVERs created for c and not yet sent
  owed,        \* ghost: DELIVERs sent to c that c has not acknowledged
  awaiting,    \* ghost: c has sent a REGISTER or SEND and got no STATUS yet
  crossed,     \* ghost: waits for a STATUS of c that another message ended, and
               \* STATUSes of c that acknowledge nothing
  sent         \* number of messages c has sent (acknowledgements not counted)

conn    == <<mem, lock, status, pending, registered, idle>>
socket  == <<fd, open, armed, edge, inbox, peer>>
event   == <<batch, sig>>
ghost   == <<due, owed, awaiting, crossed, sent>>
vars    == <<queue, th, list, ll, conn, socket, event, proc, ghost>>

Status == {"PRE_REGISTER", "AVAILABLE", "SEND_STAT", "SEND_MSG",
           "PENDING_STATUS", "ERR", "CLOSING"}

(* rpchat_args_proc_event_t: args_type, p_conn_info, opcode in p_msg_buf.  *)
Task(type, c, msg) == [type |-> type, conn |-> c, msg |-> msg]
Inbound(c)    == Task("INBOUND", c, "none")
Heartbeat(c)  == Task("HEARTBEAT", c, "none")
Deliver(c)    == Task("OUTBOUND", c, "DELIVER")
StatusGood(c) == Task("OUTBOUND", c, "STATUS")
NoTask        == Task("none", NULL, "none")

(* p_msg_buf of an INBOUND or HEARTBEAT task is allocated on its first run *)
(* and kept; recorded only where an allocation may fail.                   *)
WithBuffer(task) ==
  IF "nomem" \in Env /\ task.msg = "none" THEN [task EXCEPT !.msg = "buffer"] ELSE task

Local(pc, task, out, ret, cur) ==
  [pc |-> pc, task |-> task, out |-> out, ret |-> ret, cur |-> cur]
IdleWorker == Local("idle", NoTask, NoTask, "idle", NULL)
IdleMain   == Local("events", NoTask, NoTask, "idle", NULL)

Init ==
  /\ queue = << >>
  /\ th = [t \in Threads |-> IF t = Main THEN IdleMain ELSE IdleWorker]
  /\ list = << >>
  /\ ll = NULL
  /\ mem = [c \in Conns |-> "none"]
  /\ lock = [c \in Conns |-> NULL]
  /\ status = [c \in Conns |-> "PRE_REGISTER"]
  /\ pending = [c \in Conns |-> 0]
  /\ registered = [c \in Conns |-> FALSE]
  /\ idle = [c \in Conns |-> 0]
  /\ fd = [c \in Conns |-> 0]
  /\ open = [c \in Conns |-> FALSE]
  /\ armed = [c \in Conns |-> FALSE]
  /\ edge = [c \in Conns |-> FALSE]
  /\ inbox = [c \in Conns |-> << >>]
  /\ peer = [c \in Conns |-> "out"]
  /\ batch = {}
  /\ sig = {}
  /\ proc = "up"
  /\ due = [c \in Conns |-> 0]
  /\ owed = [c \in Conns |-> 0]
  /\ awaiting = [c \in Conns |-> FALSE]
  /\ crossed = [c \in Conns |-> 0]
  /\ sent = [c \in Conns |-> 0]
-----------------------------------------------------------------------------
(* The connection list.                                                    *)

Front == IF list = << >> THEN NULL ELSE Head(list)

Linked(c)   == \E i \in DOMAIN list : list[i] = c
Position(c) == CHOOSE i \in DOMAIN list : list[i] = c

(* p_next_node of the node of c.                                           *)
NextNode(c) == IF Position(c) = Len(list) THEN NULL ELSE list[Position(c) + 1]

(* The list without the node of c, if it has one.                          *)
Unlinked(c) ==
  IF Linked(c)
  THEN [i \in 1 .. Len(list) - 1 |-> IF i < Position(c) THEN list[i] ELSE list[i + 1]]
  ELSE list

IsDestroyed(c) == c # NULL /\ mem[c] = "freed"

(* The connection object that thread t dereferences in its next step.      *)
Deref(t) ==
  CASE th[t].pc \in {"idle", "requeue", "events", "drain"} -> NULL
    [] th[t].pc = "count" -> th[t].out.conn
    [] th[t].pc \in {"next", "unlink", "audit"} -> th[t].cur
    [] OTHER -> th[t].task.conn

(* Thread t is at pc and can run from there.                               *)
At(t, pc) == th[t].pc = pc /\ proc = "up" /\ ~IsDestroyed(Deref(t))
-----------------------------------------------------------------------------
(* rpchat_conn_info_enqueue_task: the task is queued first (EnqueueTask)   *)
(* and counted in pending_jobs afterwards (CountJob, for th[t].out);       *)
(* another thread may take the task in between.                            *)

Goto(t, pc) == th' = [th EXCEPT ![t].pc = pc]

EnqueueTask(task) == queue' = Append(queue, task)

CountJob(t) ==
  /\ At(t, "count")
  /\ pending' = [pending EXCEPT ![th[t].out.conn] = @ + 1]
  /\ th' = [th EXCEPT ![t].pc = th[t].ret, ![t].out = NoTask, ![t].ret = "idle"]
  /\ UNCHANGED <<queue, list, ll, mem, lock, status, registered, idle, socket,
                 event, proc, ghost>>
-----------------------------------------------------------------------------
(* Sockets and the epoll set, external to the repository: a descriptor is  *)
(* added edge-triggered, so an event is returned once when the socket is   *)
(* or becomes readable; a closed descriptor leaves the set by itself.      *)

Readable(c) == inbox[c] # << >> \/ peer[c] \in {"closed", "reset"}

(* EPOLL_CTL_ADD.  It fails with EEXIST, and changes nothing, when the     *)
(* descriptor is in the set already.                                       *)
EpollAdd(c) ==
  /\ armed' = [armed EXCEPT ![c] = TRUE]
  /\ edge'  = [edge EXCEPT ![c] = IF armed[c] THEN @ ELSE Readable(c)]

(* EPOLL_CTL_DEL of descriptor f, whichever socket has that number now.    *)
EpollDel(f) ==
  LET left(c) == armed[c] /\ ~(open[c] /\ fd[c] = f)
  IN  /\ armed' = [c \in Conns |-> left(c)]
      /\ edge'  = [c \in Conns |-> left(c) /\ edge[c]]

(* accept returns the lowest descriptor that is not open.                  *)
FreeFd ==
  LET used == {fd[c] : c \in {d \in Conns : open[d]}}
  IN  CHOOSE f \in (1 .. Cardinality(Conns)) \ used :
        \A g \in (1 .. Cardinality(Conns)) \ used : f <= g
=============================================================================
