----------------------------- MODULE ChatServer -----------------------------
(***************************************************************************)
(* The server as a whole: worker threads, main thread, and an environment  *)
(* of clients, clock and signals.                                          *)
(***************************************************************************)
EXTENDS ProcessEvent, EventLoop

CONSTANTS
  ClientMsgs,     \* what clients may send, a subset of MsgKinds
  Compliant,      \* clients keep to the protocol of chat_server.md
  MaxMsgs,        \* bound: MaxMsgs[c] messages of client c, without acknowledgements
  MaxBeats        \* bound: HEARTBEAT tasks of one audit not yet run when the
                  \* next one is triggered

MsgKinds == {"REGISTER", "UNKNOWN", "SEND", "REFUSED", "STATUS_GOOD",
             "STATUS_BAD", "OTHER"}

ASSUME ClientAssumption ==
  /\ ClientMsgs \subseteq MsgKinds
  /\ Compliant \in BOOLEAN
  /\ MaxMsgs \in [Conns -> Nat]
  /\ MaxBeats \in Nat

Count(S) == Cardinality(S)

(* Tasks of connection c that satisfy P, by where they are.                *)
InQueue(c, P(_)) ==
  Count({i \in DOMAIN queue : queue[i].conn = c /\ P(queue[i])})
TaskHeld(c, P(_)) ==
  Count({t \in Threads : th[t].task.conn = c /\ P(th[t].task)})
BeingQueued(c, P(_)) ==
  Count({t \in Threads : /\ th[t].pc = "requeue"
                         /\ th[t].out.conn = c /\ P(th[t].out)})
Outstanding(c, P(_)) == InQueue(c, P) + TaskHeld(c, P) + BeingQueued(c, P)

AnyTask(k)     == TRUE
IsInbound(k)   == k.type = "INBOUND"
IsHeartbeat(k) == k.type = "HEARTBEAT"
IsDeliver(k)   == k.msg = "DELIVER"
IsReply(k)     == k.msg = "STATUS"
-----------------------------------------------------------------------------
(* Clients, clock and signals.                                             *)

Connect(c) ==
  /\ proc = "up" /\ peer[c] = "out"
  /\ peer' = [peer EXCEPT ![c] = "backlog"]
  /\ UNCHANGED <<queue, th, list, ll, conn, fd, open, armed, edge, inbox,
                 event, proc, ghost>>

(* "Clients must wait for a status message after each send."               *)
MaySend(c, m) ==
  Compliant => \/ m = "REGISTER" /\ sent[c] = 0
               \/ m = "SEND" /\ sent[c] > 0 /\ ~awaiting[c]

(* Bytes arrive: an edge if the socket is in the epoll set.                *)
Arrives(c, msgs) ==
  /\ proc = "up"
  /\ peer[c] = "backlog" \/ (peer[c] = "open" /\ open[c])
  /\ inbox' = [inbox EXCEPT ![c] = @ \o msgs]
  /\ edge' = [edge EXCEPT ![c] = armed[c]]
  /\ UNCHANGED <<queue, th, list, ll, conn, fd, open, armed, peer, event, proc, due>>

ClientSends(c, m) ==
  /\ sent[c] < MaxMsgs[c]
  /\ MaySend(c, m)
  /\ Arrives(c, <<m>>)
  /\ sent' = [sent EXCEPT ![c] = @ + 1]
  /\ awaiting' = [awaiting EXCEPT ![c] = @ \/ m \in {"REGISTER", "SEND"}]
  /\ IF m = "STATUS_GOOD" THEN Crosses(c) ELSE UNCHANGED crossed
  /\ UNCHANGED owed

(* The client acknowledges a DELIVER, with opcode and code as              *)
(* scripts/client.py does, or with the string that chat_server.md gives    *)
(* every STATUS: the server leaves it unread, and an empty one is then the *)
(* opcode 0 without a name.                                                *)
ClientAcks(c) ==
  /\ owed[c] > 0
  /\ Arrives(c, IF "statusmsg" \in Env THEN <<"STATUS_GOOD", "OTHER">> ELSE <<"STATUS_GOOD">>)
  /\ owed' = [owed EXCEPT ![c] = @ - 1]
  /\ UNCHANGED <<awaiting, crossed, sent>>

(* ... or answers with code 1, as scripts/client.py does when it could not *)
(* read the whole of the DELIVER at once.                                  *)
ClientRefuses(c) ==
  /\ "shortread" \in Env
  /\ owed[c] > 0
  /\ Arrives(c, <<"STATUS_BAD">>)
  /\ owed' = [owed EXCEPT ![c] = @ - 1]
  /\ UNCHANGED <<awaiting, crossed, sent>>

ClientLeaves(c) ==
  /\ proc = "up" /\ "hangup" \in Env
  /\ peer[c] = "open" /\ open[c]
  /\ peer' = [peer EXCEPT ![c] = "closed"]
  /\ edge' = [edge EXCEPT ![c] = armed[c]]
  /\ UNCHANGED <<queue, th, list, ll, conn, fd, open, armed, inbox, event, proc, ghost>>

(* An audit interval passes and SIGALRM is raised.                         *)
Tick ==
  /\ proc = "up" /\ "timer" \in Env
  /\ "SIGALRM" \notin sig
  /\ \A c \in Conns : Outstanding(c, IsHeartbeat) < MaxBeats
  /\ sig' = sig \cup {"SIGALRM"}
  /\ idle' = [c \in Conns |-> IF mem[c] = "live" /\ idle[c] <= TIMEOUT
                              THEN idle[c] + 1 ELSE idle[c]]
  /\ UNCHANGED <<queue, th, list, ll, mem, lock, status, pending, registered,
                 socket, batch, proc, ghost>>

SigInt ==
  /\ proc = "up" /\ "sigint" \in Env
  /\ "SIGINT" \notin sig
  /\ th[Main].pc # "drain"
  /\ sig' = sig \cup {"SIGINT"}
  /\ UNCHANGED <<queue, th, list, ll, conn, socket, batch, proc, ghost>>

Environment ==
  \/ \E c \in Conns : \/ Connect(c) \/ ClientAcks(c) \/ ClientRefuses(c)
                      \/ ClientLeaves(c)
                      \/ \E m \in ClientMsgs : ClientSends(c, m)
  \/ Tick \/ SigInt
-----------------------------------------------------------------------------
(* A thread that dereferences a freed connection, or the main thread that  *)
(* gets an event of one: nothing is known of the process afterwards.       *)
Undefined ==
  /\ proc = "up"
  /\ \/ \E t \in Threads : IsDestroyed(Deref(t))
     \/ MainIs("events") /\ \E c \in Conns \cap batch : IsDestroyed(c)
  /\ proc' = "undefined"
  /\ UNCHANGED <<queue, th, list, ll, conn, socket, event, ghost>>

(* The process is gone.                                                    *)
Halted == proc # "up" /\ UNCHANGED vars

Next ==
  \/ \E t \in Workers : Worker(t)
  \/ MainThread
  \/ Environment
  \/ Undefined
  \/ Halted

Spec == Init /\ [][Next]_vars

(* Every thread of the server that can run eventually runs (into undefined *)
(* behaviour if it must), and the timer keeps firing.  Clients and SIGINT  *)
(* owe nothing, and neither does the destruction of the pool (Shutdown).   *)
Fairness ==
  /\ \A t \in Workers : WF_vars(Worker(t))
  /\ WF_vars(EventThread) /\ WF_vars(Undefined)
  /\ WF_vars(Tick)
FairSpec == Spec /\ Fairness
-----------------------------------------------------------------------------
(* A HEARTBEAT or INBOUND task has a buffer or none yet, an OUTBOUND task  *)
(* a message.                                                              *)
Tasks == [type : {"INBOUND", "HEARTBEAT"}, conn : Conns, msg : {"none", "buffer"}]
           \cup [type : {"OUTBOUND"}, conn : Conns, msg : {"DELIVER", "STATUS"}]

Locals ==
  [pc   : {"idle", "start", "lock", "proc", "find", "name", "broadcast", "next",
           "reply", "unlock", "arm", "del", "destroy", "mutex", "unlink", "requeue",
           "count", "events", "audit", "drain"},
   task : Tasks \cup {NoTask},
   out  : Tasks \cup {NoTask},
   ret  : {"idle", "next", "events", "audit"},
   cur  : Conns \cup {NULL}]

TypeOK ==
  /\ queue \in Seq(Tasks)
  /\ th \in [Threads -> Locals]
  /\ list \in Seq(Conns) /\ \A i, j \in DOMAIN list : list[i] = list[j] => i = j
  /\ ll \in Threads \cup {NULL}
  /\ mem \in [Conns -> {"none", "live", "dead", "freed"}]
  /\ lock \in [Conns -> Workers \cup {NULL}]
  /\ status \in [Conns -> Status]
  /\ pending \in [Conns -> Int]
  /\ registered \in [Conns -> BOOLEAN]
  /\ idle \in [Conns -> 0 .. TIMEOUT + 1]
  /\ fd \in [Conns -> 0 .. Cardinality(Conns)]
  /\ open \in [Conns -> BOOLEAN]
  /\ armed \in [Conns -> BOOLEAN]
  /\ edge \in [Conns -> BOOLEAN]
  /\ inbox \in [Conns -> Seq(MsgKinds)]
  /\ peer \in [Conns -> {"out", "backlog", "open", "closed", "reset"}]
  /\ batch \subseteq Conns \cup {"server", "signal", "first"}
  /\ sig \subseteq {"SIGINT", "SIGALRM"}
  /\ proc \in {"up", "stopped", "killed", "undefined"}
  /\ due \in [Conns -> Int]
  /\ owed \in [Conns -> Nat]
  /\ awaiting \in [Conns -> BOOLEAN]
  /\ crossed \in [Conns -> Nat]
  /\ sent \in [Conns -> Nat]

(* pending_jobs is what decides whether a connection may be freed.  It is  *)
(* the number of tasks of the connection that are queued or taken and not  *)
(* yet started, minus those that are queued and not yet counted: one less  *)
(* for each thread between the two halves of rpchat_conn_info_enqueue_task.*)
PendingExact ==
  \A c \in Conns : mem[c] = "live" =>
    pending[c] =
      InQueue(c, AnyTask)
        + Count({t \in Workers : th[t].pc = "start" /\ th[t].task.conn = c})
        - Count({t \in Threads : th[t].pc = "count" /\ th[t].out.conn = c})

(* A connection that owes its client a STATUS (SEND_STAT) has exactly one  *)
(* STATUS task, however often INBOUND and DELIVER tasks of the connection  *)
(* overtake it in the queue, and no other state but ERR and CLOSING has    *)
(* one: no SEND is answered twice, none of the waits in SEND_STAT is for   *)
(* nothing.                                                                *)
Leaving(c) == mem[c] # "live" \/ status[c] \in {"ERR", "CLOSING"}
Sent(c, P(_)) == Count({t \in Workers : th[t].pc = "arm" /\ th[t].task.conn = c /\ P(th[t].task)})
StatusOwed ==
  \A c \in Conns : ~Leaving(c) =>
    Outstanding(c, IsReply) - Sent(c, IsReply) = IF status[c] = "SEND_STAT" THEN 1 ELSE 0

(* A DELIVER made for a connection is sent or still outstanding until the  *)
(* connection fails: requeueing in any state, in any order, loses none and *)
(* sends none twice.                                                       *)
DeliverConserved ==
  \A c \in Conns : ~Leaving(c) =>
    due[c] = Outstanding(c, IsDeliver) - Sent(c, IsDeliver)

(* SEND_MSG is left only by an OUTBOUND task: there is always one.         *)
SendMsgHasJob ==
  \A c \in Conns : mem[c] = "live" /\ status[c] = "SEND_MSG" =>
    Outstanding(c, IsDeliver) > 0

(* The socket of a connection is closed exactly once, on the way from ERR  *)
(* to CLOSING; nobody sends to it afterwards and it is never leaked.       *)
SocketClosedOnce ==
  \A c \in Conns : mem[c] # "none" =>
    (open[c] <=> /\ status[c] # "CLOSING"
                 /\ \A t \in Workers : th[t].pc = "del" => th[t].task.conn # c)

(* README.md:61-63: the server reads what its clients send.                *)
(* Edge-triggered epoll tells once.  Bytes that a client sent to a         *)
(* connection in a state that reads are never forgotten: there is an event *)
(* for them, or an INBOUND task, or the socket is about to be added.  (The *)
(* shutdown is excepted: the main thread takes no events any more.)  With  *)
(* one client; a second one that gets the descriptor of the first refutes  *)
(* it.                                                                     *)
Serves(c) == proc = "up" /\ th[Main].pc # "drain" /\ mem[c] = "live"
Reads(c)  == Serves(c) /\ status[c] \in {"PRE_REGISTER", "AVAILABLE", "PENDING_STATUS"}
Arming(c) == \E t \in Workers : th[t].pc = "arm" /\ th[t].task.conn = c
NoLostEdge ==
  \A c \in Conns : Reads(c) /\ inbox[c] # << >> =>
    \/ armed[c] /\ edge[c]
    \/ c \in batch
    \/ Outstanding(c, IsInbound) > 0
    \/ Arming(c)

(* What can make the server deaf to a client, and nothing else can.  A     *)
(* connection whose state reads is listened to: it is in the epoll set (or *)
(* will be), or it has an event or an INBOUND task; and what it can read   *)
(* has an event while it is in the set.  That ends only when the           *)
(* descriptor is taken out for another connection that had the same number *)
(* (the close comes before the epoll removal), when the rest of a batch of *)
(* events is dropped, or when the task, or the connection's place in the   *)
(* epoll set, cannot be allocated.                                         *)
Listening(c) ==
  /\ Reads(c) => armed[c] \/ c \in batch \/ Outstanding(c, IsInbound) > 0 \/ Arming(c)
  /\ Serves(c) /\ armed[c] /\ inbox[c] # << >> => edge[c] \/ c \in batch
RemovedForAnother(c) ==
  \/ \E t \in Workers : CloseEpollDel(t) /\ Conn(t) # c /\ fd[Conn(t)] = fd[c]
  \/ \E d \in Conns \ {c} : HandleEvent(d) /\ fd[d] = fd[c]
BatchDropped(c) ==
  /\ c \in batch
  /\ \/ AcceptFails \/ EventNoMemory
     \/ \E d \in Conns : ConnectionNoMemory(d) \/ ConnectionUnwatched(d)
NotAllocated(c) ==
  \/ \E t \in Workers : BufferFails(t) /\ Conn(t) = c /\ IsIn(t)
  \/ ConnectionUnwatched(c)
ListeningKept ==
  [][\A c \in Conns : Listening(c) /\ ~Listening(c)' =>
       RemovedForAnother(c) \/ BatchDropped(c) \/ NotAllocated(c)]_vars

(* chat_server.md:16: "Clients and servers must wait for a status message  *)
(* after each send/deliver before sending the next message".  The server   *)
(* does, in whatever order tasks are run and whatever cannot be allocated: *)
(* a client has a second unacknowledged DELIVER only if another message of *)
(* its own ended the wait for the STATUS of the first, or if it sent a     *)
(* STATUS for nothing; one more for each time.                             *)
WaitForStatus == \A c \in Conns : owed[c] <= 1 + crossed[c]

(* A thread that walks the connection list (a broadcast, the audit) holds  *)
(* mutex_conn_ll, and the node it goes to next is still linked.            *)
Walking(t) == "next" \in {th[t].pc, th[t].ret} \/ "audit" \in {th[t].pc, th[t].ret}
WalkSafe ==
  proc = "up" => \A t \in Threads : Walking(t) =>
    /\ ll = t
    /\ th[t].cur # NULL => Linked(th[t].cur)

(* Every connection takes the transitions of the state diagram of          *)
(* README.md and the four departures that ConnProtocol names, and no       *)
(* others, whatever the order of its tasks: no worker takes a transition   *)
(* that belongs to another state, a STATUS or DELIVER is sent only with    *)
(* the transition that stands for it, only a STATUS, a SEND or a refused   *)
(* message ends PENDING_STATUS, nothing brings a connection back from ERR  *)
(* or CLOSING, and the socket is closed between the two.                   *)
Protocol(c) == INSTANCE ConnProtocol WITH
                 state      <- status[c],
                 registered <- registered[c],
                 open       <- open[c],
                 awaiting   <- awaiting[c],
                 owed       <- owed[c],
                 unread     <- inbox[c],
                 jobs       <- pending[c]
DepartsAsListed ==
  /\ \A c \in Conns : Protocol(c)!Init
  /\ [][\A c \in Conns :
          [Protocol(c)!Diagram \/ Protocol(c)!Departures]_(Protocol(c)!pvars)]_vars

(* Clients that have fallen silent, left or failed are disconnected: every *)
(* socket is eventually closed, as every client of the model stops talking *)
(* at some time and the audit goes on ("The server should identify         *)
(* unresponsive clients and forcefully disconnect them").  This includes   *)
(* the connection that submit_msg left in ERR without a task.              *)
SilentClientsLeave ==
  \A c \in Conns : open[c] ~> (~open[c] \/ proc # "up")

(* When the shutdown has begun nobody takes events any more, and the pool  *)
(* must run out of tasks.  It does, unless it is kept busy for ever by one *)
(* of two things: DELIVER tasks that wait for a STATUS that nobody reads,  *)
(* or a broadcast that does not get past a failed connection.              *)
Drained == proc # "up" \/ (queue = << >> /\ \A t \in Workers : th[t].pc = "idle")
WaitsForever ==
  \/ \E c \in Conns : status[c] = "PENDING_STATUS" /\ Outstanding(c, IsDeliver) > 0
  \/ \E t \in Workers : /\ th[t].pc = "next" /\ th[t].cur # NULL
                         /\ status[th[t].cur] \in {"ERR", "CLOSING"}
DrainEndsOrWaits == (th[Main].pc = "drain") ~> (Drained \/ []WaitsForever)
-----------------------------------------------------------------------------
(* What the documents and comments say and the code does not do.           *)

(* README.md:155: a failed connection is not released "until all pending   *)
(* jobs for the client are complete", so no thread meets a freed one.      *)
NoUseAfterFree == proc # "undefined"

(* chat_server.md:16: "Servers will acknowledge send messages": a REGISTER *)
(* or SEND without its STATUS is unread, in work, or owed a STATUS.        *)
InWork(c) == \E t \in Workers : th[t].task.conn = c /\ th[t].pc \in
               {"find", "name", "broadcast", "next", "count", "reply"}
EverySendAcknowledged ==
  \A c \in Conns : awaiting[c] /\ mem[c] = "live" /\ ~Leaving(c) =>
    \/ \E i \in DOMAIN inbox[c] : inbox[c][i] \in {"REGISTER", "SEND"}
    \/ InWork(c)
    \/ status[c] = "SEND_STAT"
-----------------------------------------------------------------------------
(* More of the same; README.md gives the instance that refutes each.       *)

(* README.md:95-168: every connection follows the state diagram.           *)
FollowsDiagram ==
  /\ \A c \in Conns : Protocol(c)!Init
  /\ [][\A c \in Conns : [Protocol(c)!Diagram]_(Protocol(c)!pvars)]_vars

(* README.md:91-92: a SIGINT begins "the process of gracefully closing the *)
(* program": the tasks come to an end.                                     *)
DrainCompletes == (th[Main].pc = "drain") ~> Drained

(* README.md:153: ERR is for clients that are "noncompliant with protocol" *)
(* or "timed out", or for internal errors: with compliant clients and none *)
(* of the others it is never entered.                                      *)
CompliantClientsStay == \A c \in Conns : status[c] # "ERR"

(* rpchat_process_event.c:799: a broadcast skips a connection that is      *)
(* closing, and goes on to its end.                                        *)
BroadcastEnds ==
  \A t \in Workers : (th[t].pc = "next") ~> (th[t].pc # "next" \/ proc # "up")

(* chat_server.md:20: "A registered username must be unique among all      *)
(* currently active connections."                                          *)
UniqueNames ==
  \A c, d \in Conns :
    /\ c # d
    /\ mem[c] = "live" /\ mem[d] = "live"
    /\ registered[c] /\ registered[d]
    => UserName[c] # UserName[d]

(* README.md:106: a client that has not registered and sends something     *)
(* else goes to ERR; it never becomes AVAILABLE.                           *)
RegisterFirst ==
  \A c \in Conns : status[c] = "AVAILABLE" => registered[c]

(* README.md:106: PRE_REGISTER is left for ERR "if a message was received  *)
(* that was not REGISTER": nobody is registered by another message.        *)
RegisteredByRegister ==
  \A c \in Conns : registered[c] => "REGISTER" \in ClientMsgs

(* chat_server.md:16: messages are delivered "to every other client        *)
(* currently registered", so only to those.                                *)
DeliverToRegistered == \A c \in Conns : owed[c] > 0 => registered[c]

(* chat_server.md:11: "status || 4:u8 | code:u8 | message:string": the     *)
(* server reads whole messages, so what it reads next from a compliant     *)
(* client is always the beginning of a message.                            *)
MessagesReadWhole ==
  Compliant => \A c \in Conns : inbox[c] # << >> => Head(inbox[c]) # "OTHER"

(* README.md:92: the server exits when SIGINT is raised.                   *)
ExitsOnSigInt == th[Main].pc = "drain" => "sigint" \in Env

(* README.md:139: "Transitions to ERR if the message could not be sent."   *)
SendFailureIsHandled == proc # "killed"

(* README.md:174: "Clients will timeout if they are inactive": a client    *)
(* that never acknowledges a DELIVER does not stay in PENDING_STATUS       *)
(* (unless a broadcast keeps the pool busy).                               *)
PendingTimesOut ==
  \A c \in Conns :
    (status[c] = "PENDING_STATUS") ~>
      \/ status[c] # "PENDING_STATUS" \/ proc # "up"
      \/ \E t \in Workers : th[t].pc = "next"
=============================================================================
