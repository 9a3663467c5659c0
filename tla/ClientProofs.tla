---------------------------- MODULE ClientProofs ----------------------------
(***************************************************************************)
(* Proofs about Client.  scripts/client.py is one of the environments that *)
(* ChatServer allows, so what is proved of the server holds with it        *)
(* (ClientIsAllowed).  Of the two together: the user is asked for a line   *)
(* only after the answer to the one before (PromptMeansAnswered), and the  *)
(* server waits only for acknowledgements that come (AckComing).           *)
(*                                                                         *)
(* The argument follows one request, a REGISTER or SEND, around: it is in  *)
(* the inbox, in the hands of a worker, a STATUS that is due or one that   *)
(* the client has not read, in one of these places and once; and while it  *)
(* is in one of the first three, the client is awaiting.                   *)
(***************************************************************************)
EXTENDS ServerPromises, Client

(* A step is a worker's, with what it sends, or another one of the server, *)
(* or a client's.                                                          *)
Sends(t) ==
  /\ Worker(t)
  /\ outbox' = [c \in Conns |-> IF c = Conn(t) /\ client[c].main # "exited"
                                THEN outbox[c] \o Output(t) ELSE outbox[c]]
  /\ UNCHANGED client
Aside ==
  /\ MainThread \/ Tick \/ Undefined \/ Halted \/ UNCHANGED vars
  /\ UNCHANGED <<client, outbox>>

LEMMA ClientCases ==
  ASSUME [ClientNext]_cvars
  PROVE  \/ \E t \in Workers : Sends(t)
         \/ Aside
         \/ \E c \in Conns : ClientStep(c)
  BY DEF ClientNext, ServerStep, Sends, Aside, cvars

(* What a step of a client is to the server.                               *)
LEMMA ClientEnvironment ==
  ASSUME NEW c \in Conns, ClientStep(c)
  PROVE  \/ Connect(c) \/ ClientLeaves(c) \/ ClientAcks(c) \/ ClientRefuses(c)
         \/ \E m \in {"REGISTER", "SEND"} : ClientSends(c, m)
         \/ UNCHANGED vars
  BY DEF ClientStep, SetupSocket, RegisterClient, TestState, SendSend, SendLost, SetPending,
     UserLeaves, HandleStat, HandleDeliver, Misread, ServerGone

LEMMA ClientAllowed ==
  ASSUME [ClientNext]_cvars
  PROVE  [Next]_vars
<1>1. ASSUME NEW t \in Workers, Sends(t) PROVE [Next]_vars
  BY <1>1 DEF Sends, Next
<1>2. CASE Aside
  BY <1>2 DEF Aside, Next, Environment
<1>3. ASSUME NEW c \in Conns, ClientStep(c) PROVE [Next]_vars
  BY <1>3, ClientEnvironment, UserAssumption DEF Next, Environment
<1> QED  BY <1>1, <1>2, <1>3, ClientCases

(* scripts/client.py talks to the server as ChatServer expects of a client *)
(* that need not wait: every behaviour of the two is one of ChatServer, so *)
(* that everything proved of rpchat_task_conn_proc_event with arbitrary    *)
(* clients is true with this one.                                          *)
THEOREM ClientIsAllowed == ClientSpec => Spec
<1>1. ClientInit => Init
  BY DEF ClientInit
<1> QED  BY <1>1, ClientAllowed, PTL DEF ClientSpec, Spec

(* What the server's proofs give.                                          *)
ServerInv == BaseInv /\ Owners /\ StatusAt /\ SocketClosedOnce /\ OutboxInv
LEMMA ServerHolds == ClientSpec => []ServerInv
  BY ClientIsAllowed, ServerInductive, OwnersHold, SocketsClosedOnce, OutboxHolds, PTL
     DEF ServerInv
-----------------------------------------------------------------------------
(* Messages of a sequence that are in a set: none, at most one.            *)
None(s, M) == \A i \in DOMAIN s : s[i] \notin M
Once(s, M) == \A i, j \in DOMAIN s : s[i] \in M /\ s[j] \in M => i = j

LEMMA NoneTail ==
  ASSUME NEW T, NEW s \in Seq(T), s # << >>, NEW M
  PROVE  /\ Tail(s) \in Seq(T) /\ Head(s) \in T
         /\ None(s, M) <=> None(Tail(s), M) /\ Head(s) \notin M
         /\ Once(s, M) => Once(Tail(s), M)
         /\ Once(s, M) /\ Head(s) \in M => None(Tail(s), M)
<1>1. /\ Tail(s) \in Seq(T) /\ Head(s) \in T /\ Head(s) = s[1] /\ 1 \in DOMAIN s
      /\ \A i \in DOMAIN Tail(s) : i \in Nat \ {0} /\ i + 1 \in DOMAIN s /\ Tail(s)[i] = s[i + 1]
  OBVIOUS
<1>2. \A i \in DOMAIN s : i = 1 \/ (i - 1 \in DOMAIN Tail(s) /\ Tail(s)[i - 1] = s[i])
  OBVIOUS
<1>3. \A i, j \in DOMAIN Tail(s) : i + 1 = j + 1 => i = j
  BY <1>1
<1>4. \A i \in DOMAIN Tail(s) : i + 1 # 1
  BY <1>1
<1> QED  BY <1>1, <1>2, <1>3, <1>4 DEF None, Once

LEMMA NoneAppend ==
  ASSUME NEW T, NEW s \in Seq(T), NEW x \in T, NEW M
  PROVE  /\ Append(s, x) \in Seq(T)
         /\ None(Append(s, x), M) <=> None(s, M) /\ x \notin M
         /\ Once(s, M) /\ (None(s, M) \/ x \notin M) => Once(Append(s, x), M)
<1>1. /\ Len(s) \in Nat /\ DOMAIN s = 1 .. Len(s) /\ Append(s, x) \in Seq(T)
      /\ DOMAIN Append(s, x) = 1 .. Len(s) + 1
      /\ \A i \in DOMAIN s : i \in DOMAIN Append(s, x) /\ Append(s, x)[i] = s[i]
      /\ Len(s) + 1 \in DOMAIN Append(s, x) /\ Append(s, x)[Len(s) + 1] = x
  OBVIOUS
<1>2. \A i \in DOMAIN Append(s, x) : i \in DOMAIN s \/ i = Len(s) + 1
  BY <1>1
<1> QED  BY <1>1, <1>2, Zenon DEF None, Once

(* s \o <<x>> and s \o <<x, y>>.                                           *)
LEMMA Concatenations ==
  ASSUME NEW T, NEW s \in Seq(T), NEW x \in T, NEW y \in T
  PROVE  s \o << >> = s /\ s \o <<x>> = Append(s, x) /\ s \o <<x, y>> = Append(Append(s, x), y)
  OBVIOUS
-----------------------------------------------------------------------------
Requests    == {"REGISTER", "SEND"}
ClientKinds == {"REGISTER", "SEND", "STATUS_GOOD", "STATUS_BAD", "OTHER"}
ServerKinds == {"STATUS", "DELIVER", "ERROR", "EOF"}

ClientTyped ==
  /\ client \in [Conns -> [state   : {"SETUP", "READY", "PENDING_STATUS", "SHUTDOWN"},
                           main    : {"connect", "register", "test", "input", "sent", "exited"},
                           inbound : {"running", "exited"},
                           reset   : BOOLEAN,
                           astray  : BOOLEAN]]
  /\ outbox \in [Conns -> Seq(ServerKinds)]
  /\ inbox \in [Conns -> Seq(ClientKinds)]

LEMMA BeforeArm ==
  ASSUME BaseInv, NEW t \in Workers, Worker(t), th[t].pc = "proc", th'[t].pc = "arm"
  PROVE  SendStatus(t) \/ SendDeliver(t) \/ RecvStatus(t)
<1>a. th \in [Threads -> Locals] /\ t \in Threads
  BY DEF BaseInv, ThreadsOK, Threads
<1> USE <1>a DEF Locals, At, In
<1>1. CASE \/ RequeueTask(t) \/ StartJob(t) \/ RecvRegister(t) \/ RecvSend(t) \/ ClosingNow(t)
           \/ SetUsername(t) \/ Reply(t) \/ ProcError(t) \/ CountJob(t)
           \/ DestroyMutex(t) \/ TakeTask(t) \/ TryLock(t) \/ DestroyUnlock(t)
  BY <1>1 DEF RequeueTask, StartJob, RecvRegister, RecvSend, ClosingNow, SetUsername, Reply,
     ProcError, CountJob, DestroyMutex, Goto, TakeTask, TryLock, DestroyUnlock
<1>2. CASE \/ HeartbeatOk(t) \/ BufferFails(t) \/ Rearm(t) \/ Replied(t) \/ SendFails(t)
           \/ ClosingLater(t) \/ Unlink(t)
  BY <1>2 DEF HeartbeatOk, BufferFails, Rearm, Replied, SendFails,
     ClosingLater, Unlink, Cleanup, IdleWorker, Local
<1>3. CASE \/ TryLockFails(t) \/ RecvNothing(t) \/ RecvBad(t) \/ StartSendMsg(t)
           \/ Postpone(t) \/ CloseEpollDel(t)
  <2>1. RequeueNoUnlock(t) \/ RequeueFreed(t)
    BY <1>3 DEF TryLockFails, RecvNothing, RecvBad, StartSendMsg, Postpone, CloseEpollDel,
       Fail, Requeue
  <2> QED  BY <2>1 DEF RequeueNoUnlock, RequeueFreed, Local
<1>4. CASE HeartbeatTimeout(t) \/ SigPipe(t) \/ BroadcastSkip(t)
  BY <1>4 DEF HeartbeatTimeout, SigPipe, BroadcastSkip, vars
<1>5. CASE \/ BroadcastLock(t) \/ BroadcastDeliver(t) \/ BroadcastNoMemory(t) \/ BroadcastDone(t)
           \/ FindUser(t)
  BY <1>5 DEF BroadcastLock, BroadcastDeliver, BroadcastNoMemory, BroadcastDone, FindUser
<1> QED  BY <1>1, <1>2, <1>3, <1>4, <1>5 DEF Worker

(* What a step of a worker sends, action by action.                        *)
LEMMA OutputIs ==
  ASSUME BaseInv, NEW t \in Workers, Worker(t)
  PROVE  \/ SendStatus(t) /\ Output(t) = <<"STATUS">>
         \/ SendDeliver(t) /\ Output(t) = <<"DELIVER">>
         \/ ProcError(t) /\ Output(t) = <<"ERROR", "EOF">>
         \/ ~SendStatus(t) /\ ~SendDeliver(t) /\ ~ProcError(t) /\ Output(t) = << >>
<1>a. th \in [Threads -> Locals] /\ t \in Threads
  BY DEF BaseInv, ThreadsOK, Threads
<1>1. CASE SendStatus(t) \/ SendDeliver(t)
  <2>1. th[t].pc = "proc" /\ th'[t].pc = "arm" /\ IsOut(t)
    BY <1>a, <1>1 DEF SendStatus, SendDeliver, Sending, In, At, Goto, Locals, IsStatus
  <2>2. Output(t) = <<th[t].task.msg>>
    BY <2>1 DEF Output
  <2>3. th[t].task.msg = IF IsStatus(t) THEN "STATUS" ELSE "DELIVER"
    <3>1. th[t].task \in Tasks
      BY <2>1, HasTask DEF WithTask, Locked
    <3> QED  BY <2>1, <3>1, TaskFields DEF IsStatus, IsOut
  <2> QED  BY <1>1, <2>2, <2>3 DEF SendStatus, SendDeliver
<1>2. CASE ProcError(t)
  <2>1. th[t].pc = "proc" /\ th'[t].pc = "del"
    BY <1>a, <1>2 DEF ProcError, In, At, Goto, Locals
  <2> QED  BY <1>2, <2>1 DEF Output
<1>3. CASE ~SendStatus(t) /\ ~SendDeliver(t) /\ ~ProcError(t)
  <2>1. th'[t].pc # "del"
    BY <1>3, BeforeDel
  <2>2. ~(th[t].pc = "proc" /\ IsOut(t) /\ th'[t].pc = "arm")
    BY <1>3, BeforeArm DEF RecvStatus, Receives, Reading, IsIn, IsOut
  <2> QED  BY <1>3, <2>1, <2>2 DEF Output
<1> QED  BY <1>1, <1>2, <1>3

(* The outbox of a connection after a step of a worker.                    *)
LEMMA OutboxGrows ==
  ASSUME BaseInv, ClientTyped, NEW t \in Workers, Sends(t), NEW c \in Conns
  PROVE  \/ SendStatus(t) /\ Conn(t) = c /\ outbox'[c] = Append(outbox[c], "STATUS")
         \/ SendDeliver(t) /\ Conn(t) = c /\ outbox'[c] = Append(outbox[c], "DELIVER")
         \/ /\ ProcError(t) /\ Conn(t) = c
            /\ outbox'[c] = Append(Append(outbox[c], "ERROR"), "EOF")
         \/ /\ outbox'[c] = outbox[c]
            /\ \/ Conn(t) # c \/ client[c].main = "exited"
               \/ ~SendStatus(t) /\ ~SendDeliver(t) /\ ~ProcError(t)
<1>1. outbox[c] \in Seq(ServerKinds)
  BY DEF ClientTyped
<1>2. /\ {"STATUS", "DELIVER", "ERROR", "EOF"} \subseteq ServerKinds
  BY DEF ServerKinds
<1>3. outbox'[c] = IF c = Conn(t) /\ client[c].main # "exited"
                   THEN outbox[c] \o Output(t) ELSE outbox[c]
  BY DEF Sends
<1>4. /\ outbox[c] \o << >> = outbox[c]
      /\ outbox[c] \o <<"STATUS">> = Append(outbox[c], "STATUS")
      /\ outbox[c] \o <<"DELIVER">> = Append(outbox[c], "DELIVER")
      /\ outbox[c] \o <<"ERROR", "EOF">> = Append(Append(outbox[c], "ERROR"), "EOF")
  BY <1>1, <1>2, Concatenations
<1> HIDE <1>1, <1>2
<1>5. CASE c = Conn(t) /\ client[c].main # "exited"
  BY <1>3, <1>4, <1>5, OutputIs DEF Sends
<1>6. CASE ~(c = Conn(t) /\ client[c].main # "exited")
  BY <1>3, <1>6
<1> QED  BY <1>5, <1>6

LEMMA InboxShrinks ==
  ASSUME BaseInv, NEW t \in Workers, Worker(t), NEW c \in Conns
  PROVE  \/ inbox'[c] = inbox[c] /\ (Conn(t) = c => ~RecvRegister(t) /\ ~RecvSend(t))
         \/ /\ Conn(t) = c /\ inbox[c] # << >> /\ inbox'[c] = Tail(inbox[c])
            /\ \/ RecvRegister(t) /\ MsgType(Head(inbox[c])) = "REGISTER"
               \/ RecvSend(t) /\ MsgType(Head(inbox[c])) = "SEND"
               \/ RecvBad(t)
               \/ RecvStatus(t) /\ MsgType(Head(inbox[c])) \in {"STATUS_GOOD", "REFUSED"}
<1>a. inbox \in [Conns -> Seq(MsgKinds)]
  BY DEF BaseInv, SocketTyped
<1>1. CASE RecvRegister(t) \/ RecvSend(t) \/ RecvBad(t) \/ RecvStatus(t)
  <2>1. inbox[Conn(t)] # << >> /\ inbox' = [inbox EXCEPT ![Conn(t)] = Tail(@)]
    BY <1>1 DEF RecvRegister, RecvSend, RecvBad, RecvStatus, Receives
  <2>2. CASE Conn(t) = c
    <3>1. /\ RecvRegister(t) => MsgType(Head(inbox[c])) = "REGISTER"
          /\ RecvSend(t) => MsgType(Head(inbox[c])) = "SEND"
          /\ RecvStatus(t) => MsgType(Head(inbox[c])) \in {"STATUS_GOOD", "REFUSED"}
      BY <2>2 DEF RecvRegister, RecvSend, RecvStatus, Receives
    <3> QED  BY <1>a, <1>1, <2>1, <2>2, <3>1
  <2>3. CASE Conn(t) # c
    BY <1>a, <2>1, <2>3
  <2> QED  BY <2>2, <2>3
<1>2. CASE ~RecvRegister(t) /\ ~RecvSend(t) /\ ~RecvBad(t) /\ ~RecvStatus(t)
  <2>1. UNCHANGED inbox
    BY <1>2 DEF Worker, RequeueTask, CountJob, TakeTask, StartJob, TryLock, BufferFails,
       TryLockFails, HeartbeatOk, HeartbeatTimeout, RecvNothing, Rearm, FindUser, SetUsername,
       BroadcastLock, BroadcastDeliver, BroadcastNoMemory, BroadcastSkip, BroadcastDone, Reply,
       Replied, StartSendMsg, SendStatus, SendDeliver, SendFails, SigPipe, Postpone, ProcError,
       CloseEpollDel, ClosingLater, ClosingNow, DestroyUnlock, DestroyMutex, Unlink, Fail,
       socket, vars
  <2> QED  BY <1>2, <2>1
<1> QED  BY <1>1, <1>2

LEMMA AsideFrame ==
  ASSUME BaseInv, Aside
  PROVE  /\ UNCHANGED <<inbox, status, awaiting, owed, client, outbox>>
         /\ \A t \in Workers : th'[t] = th[t]
<1>1. CASE MainThread
  <2>1. UNCHANGED <<inbox, status, awaiting, owed>>
    BY <1>1 DEF MainThread, EventThread, CountJob, EpollWait, EpollInterrupted, HandleEvent,
       HandleNewConnection, ConnectionNoMemory, ConnectionUnwatched, EventNoMemory, AcceptFails,
       HandleSigInt, HandleSigAlrm, AuditNext, AuditNoMemory, AuditDone, Shutdown, conn, socket,
       ghost
  <2> QED  BY <1>1, <2>1, MainLocal, ServerAssumption DEF Aside, BaseInv, ThreadsOK, Threads
<1>2. CASE Tick \/ Undefined \/ Halted \/ UNCHANGED vars
  BY <1>2 DEF Aside, Tick, Undefined, Halted, vars, conn, socket, ghost
<1> QED  BY <1>1, <1>2 DEF Aside

(* A client's step changes nothing of the other connections.               *)
LEMMA ClientFrame ==
  ASSUME BaseInv, ClientTyped, NEW d \in Conns, ClientStep(d)
  PROVE  /\ UNCHANGED <<th, status, open>>
         /\ \A c \in Conns \ {d} : /\ client'[c] = client[c] /\ outbox'[c] = outbox[c]
                                   /\ inbox'[c] = inbox[c] /\ awaiting'[c] = awaiting[c]
                                   /\ owed'[c] = owed[c]
<1>a. /\ client \in [Conns -> [state   : {"SETUP", "READY", "PENDING_STATUS", "SHUTDOWN"},
                               main    : {"connect", "register", "test", "input", "sent", "exited"},
                               inbound : {"running", "exited"},
                               reset   : BOOLEAN,
                               astray  : BOOLEAN]]
      /\ outbox \in [Conns -> Seq(ServerKinds)] /\ inbox \in [Conns -> Seq(ClientKinds)]
      /\ awaiting \in [Conns -> BOOLEAN] /\ owed \in [Conns -> Nat]
  BY DEF ClientTyped, BaseInv, GhostTyped
<1>1. UNCHANGED <<th, status, open>>
  BY ClientEnvironment DEF Connect, ClientLeaves, ClientAcks, ClientRefuses, ClientSends, Arrives, vars, conn,
     socket
<1>2. \A c \in Conns \ {d} : inbox'[c] = inbox[c] /\ awaiting'[c] = awaiting[c] /\ owed'[c] = owed[c]
  BY <1>a, ClientEnvironment DEF Connect, ClientLeaves, ClientAcks, ClientRefuses, ClientSends, Arrives, vars,
     socket, ghost
<1>3. \A c \in Conns \ {d} : client'[c] = client[c] /\ outbox'[c] = outbox[c]
  BY <1>a DEF ClientStep, SetupSocket, RegisterClient, TestState, SendSend, SendLost, SetPending,
     UserLeaves, HandleStat, HandleDeliver, Misread, ServerGone, MainGoes
<1> QED  BY <1>1, <1>2, <1>3

LEMMA WorkerGhosts ==
  ASSUME NEW t \in Workers, Worker(t)
  PROVE  (SendStatus(t) \/ UNCHANGED awaiting) /\ (SendDeliver(t) \/ UNCHANGED owed)
  BY DEF Worker, RequeueTask, CountJob, TakeTask, StartJob, TryLock, BufferFails, TryLockFails,
     HeartbeatOk, HeartbeatTimeout, RecvNothing, RecvRegister, RecvSend, RecvBad, RecvStatus,
     Rearm, FindUser, SetUsername, BroadcastLock, BroadcastDeliver, BroadcastNoMemory,
     BroadcastSkip, BroadcastDone, Reply, Replied, StartSendMsg, SendStatus, SendDeliver,
     SendFails, SigPipe, Postpone, ProcError, CloseEpollDel, ClosingLater, ClosingNow,
     DestroyUnlock, DestroyMutex, Unlink, Fail, ghost, vars
-----------------------------------------------------------------------------
(* Types.                                                                  *)

LEMMA SeqUpdate ==
  ASSUME NEW T, NEW f \in [Conns -> Seq(T)], NEW d \in Conns, NEW s \in Seq(T)
  PROVE  [f EXCEPT ![d] = s] \in [Conns -> Seq(T)]
  OBVIOUS

LEMMA TypedServer ==
  ASSUME BaseInv, ClientTyped, NEW t \in Workers, Sends(t)
  PROVE  ClientTyped'
<1>a. inbox \in [Conns -> Seq(ClientKinds)] /\ outbox \in [Conns -> Seq(ServerKinds)]
  BY DEF ClientTyped
<1>1. inbox' \in [Conns -> Seq(ClientKinds)]
  <2>1. CASE UNCHANGED inbox
    BY <1>a, <2>1
  <2>2. CASE RecvRegister(t) \/ RecvSend(t) \/ RecvBad(t) \/ RecvStatus(t)
    <3>1. inbox[Conn(t)] # << >> /\ inbox' = [inbox EXCEPT ![Conn(t)] = Tail(@)]
      BY <2>2 DEF RecvRegister, RecvSend, RecvBad, RecvStatus, Receives
    <3>2. Conn(t) \in Conns
      BY <2>2, HasTask DEF RecvRegister, RecvSend, RecvBad, RecvStatus, Receives, Reading, In, At,
         WithTask, Locked
    <3>3. Tail(inbox[Conn(t)]) \in Seq(ClientKinds)
      BY <1>a, <3>1, <3>2
    <3> QED  BY <1>a, <3>1, <3>2, <3>3, SeqUpdate
  <2>3. UNCHANGED inbox \/ RecvRegister(t) \/ RecvSend(t) \/ RecvBad(t) \/ RecvStatus(t)
    BY DEF Sends, Worker, RequeueTask, CountJob, TakeTask, StartJob, TryLock, BufferFails,
       TryLockFails, HeartbeatOk, HeartbeatTimeout, RecvNothing, Rearm, FindUser, SetUsername,
       BroadcastLock, BroadcastDeliver, BroadcastNoMemory, BroadcastSkip, BroadcastDone, Reply,
       Replied, StartSendMsg, SendStatus, SendDeliver, SendFails, SigPipe, Postpone, ProcError,
       CloseEpollDel, ClosingLater, ClosingNow, DestroyUnlock, DestroyMutex, Unlink, Fail,
       socket, vars
  <2> QED  BY <2>1, <2>2, <2>3
<1>2. outbox' \in [Conns -> Seq(ServerKinds)]
  <2>1. ASSUME NEW c \in Conns PROVE outbox'[c] \in Seq(ServerKinds)
    <3>1. {"STATUS", "DELIVER", "ERROR", "EOF"} \subseteq ServerKinds /\ outbox[c] \in Seq(ServerKinds)
      BY <1>a DEF ServerKinds
    <3>2. \A s \in Seq(ServerKinds) : \A m \in ServerKinds : Append(s, m) \in Seq(ServerKinds)
      OBVIOUS
    <3> QED  BY <3>1, <3>2, OutboxGrows
  <2>2. outbox' = [c \in Conns |-> outbox'[c]]
    BY DEF Sends
  <2> QED  BY <2>1, <2>2
<1> QED  BY <1>1, <1>2 DEF ClientTyped, Sends

LEMMA TypedClient ==
  ASSUME BaseInv, ClientTyped, NEW d \in Conns, ClientStep(d)
  PROVE  ClientTyped'
<1>a. inbox \in [Conns -> Seq(ClientKinds)] /\ outbox \in [Conns -> Seq(ServerKinds)]
  BY DEF ClientTyped
<1>1. inbox' \in [Conns -> Seq(ClientKinds)]
  <2>1. \/ UNCHANGED inbox
        \/ \E s \in {<<"REGISTER">>, <<"SEND">>, <<"STATUS_BAD">>, <<"STATUS_GOOD">>,
                   <<"STATUS_GOOD", "OTHER">>} :
             inbox' = [inbox EXCEPT ![d] = @ \o s]
    BY ClientEnvironment DEF Connect, ClientLeaves, ClientAcks, ClientRefuses, ClientSends, Arrives, socket, vars
  <2>2. \A m \in ClientKinds, n \in ClientKinds : <<m>> \in Seq(ClientKinds) /\ <<m, n>> \in Seq(ClientKinds)
    OBVIOUS
  <2>3. {"REGISTER", "SEND", "STATUS_BAD", "STATUS_GOOD", "OTHER"} \subseteq ClientKinds
    BY DEF ClientKinds
  <2>4. ASSUME NEW s \in Seq(ClientKinds) PROVE inbox[d] \o s \in Seq(ClientKinds)
    BY <1>a
  <2>5. ASSUME NEW s \in Seq(ClientKinds), inbox' = [inbox EXCEPT ![d] = @ \o s]
        PROVE  inbox' \in [Conns -> Seq(ClientKinds)]
    BY <1>a, <2>4, <2>5, SeqUpdate
  <2>6. {<<"REGISTER">>, <<"SEND">>, <<"STATUS_BAD">>, <<"STATUS_GOOD">>,
         <<"STATUS_GOOD", "OTHER">>} \subseteq Seq(ClientKinds)
    BY <2>2, <2>3
  <2> QED  BY <1>a, <2>1, <2>5, <2>6
<1>2. outbox' \in [Conns -> Seq(ServerKinds)]
  <2>1. \/ UNCHANGED outbox
        \/ outbox[d] # << >> /\ outbox' = [outbox EXCEPT ![d] = Tail(@)]
        \/ \E s \in {<<"EOF">>, << >>} : outbox' = [outbox EXCEPT ![d] = s]
    BY DEF ClientStep, SetupSocket, RegisterClient, TestState, SendSend, SendLost, SetPending,
       UserLeaves, HandleStat, HandleDeliver, Misread, ServerGone, Incoming, Running
  <2>2. <<"EOF">> \in Seq(ServerKinds) /\ << >> \in Seq(ServerKinds)
    BY DEF ServerKinds
  <2>3. outbox[d] # << >> => Tail(outbox[d]) \in Seq(ServerKinds)
    BY <1>a
  <2> QED  BY <1>a, <2>1, <2>2, <2>3, SeqUpdate
<1>3. client' \in [Conns -> [state   : {"SETUP", "READY", "PENDING_STATUS", "SHUTDOWN"},
                             main    : {"connect", "register", "test", "input", "sent", "exited"},
                             inbound : {"running", "exited"},
                             reset   : BOOLEAN,
                             astray  : BOOLEAN]]
  <2> USE DEF ClientTyped, MainGoes
  <2>1. CASE SetupSocket(d)
    BY <2>1, ZenonT(60) DEF SetupSocket
  <2>2. CASE RegisterClient(d)
    BY <2>2, ZenonT(60) DEF RegisterClient
  <2>3. CASE SendSend(d)
    BY <2>3, ZenonT(60) DEF SendSend
  <2>4. CASE SetPending(d)
    BY <2>4, ZenonT(60) DEF SetPending
  <2>5. CASE UserLeaves(d)
    BY <2>5, ZenonT(60) DEF UserLeaves
  <2>6. CASE TestState(d)
    <3> DEFINE m == IF client[d].state = "SHUTDOWN" THEN "exited" ELSE "input"
    <3>1. client' = [client EXCEPT ![d].main = m]
      BY <2>6 DEF TestState
    <3>2. m \in {"exited", "input"}
      OBVIOUS
    <3> HIDE DEF m
    <3> QED  BY <3>1, <3>2, ZenonT(60)
  <2>7. CASE SendLost(d)
    <3> DEFINE m == CASE client[d].reset -> "exited"
                      [] client[d].main = "register" -> "test"
                      [] OTHER -> "sent"
    <3>1. client' = [client EXCEPT ![d].main = m, ![d].reset = TRUE]
      BY <2>7 DEF SendLost
    <3>2. m \in {"exited", "sent", "test"}
      OBVIOUS
    <3> HIDE DEF m
    <3> QED  BY <3>1, <3>2, ZenonT(60)
  <2>8. CASE HandleStat(d) \/ Misread(d)
    <3>1. UNCHANGED client \/ client' = [client EXCEPT ![d].state = "READY"]
      BY <2>8 DEF HandleStat, Misread
    <3>2. CASE client' = [client EXCEPT ![d].state = "READY"]
      BY <3>2, ZenonT(60)
    <3>3. CASE UNCHANGED client
      BY <3>3
    <3> QED  BY <3>1, <3>2, <3>3
  <2>9. CASE HandleDeliver(d)
    <3>1. \/ UNCHANGED client \/ client' = [client EXCEPT ![d].reset = TRUE]
          \/ client' = [client EXCEPT ![d].astray = TRUE]
      BY <2>9 DEF HandleDeliver
    <3>2. CASE client' = [client EXCEPT ![d].astray = TRUE]
      BY <3>2, ZenonT(60)
    <3>3. CASE client' = [client EXCEPT ![d].reset = TRUE]
      BY <3>3, ZenonT(60)
    <3>4. CASE UNCHANGED client
      BY <3>4
    <3> QED  BY <3>1, <3>2, <3>3, <3>4
  <2>10. CASE ServerGone(d)
    BY <2>10, ZenonT(60) DEF ServerGone
  <2> QED  BY <2>1, <2>2, <2>3, <2>4, <2>5, <2>6, <2>7, <2>8, <2>9, <2>10 DEF ClientStep
<1> QED  BY <1>1, <1>2, <1>3 DEF ClientTyped

LEMMA TypedInit == ClientInit => ClientTyped
  BY DEF ClientInit, Init, NewClient, ClientTyped

LEMMA TypedStep ==
  ASSUME BaseInv, ClientTyped, [ClientNext]_cvars
  PROVE  ClientTyped'
<1>1. CASE Aside
  BY <1>1, AsideFrame DEF ClientTyped
<1> QED  BY <1>1, TypedServer, TypedClient, ClientCases

LEMMA TypedHolds == ClientSpec => []ClientTyped
<1>1. BaseInv /\ ClientTyped /\ [ClientNext]_cvars => ClientTyped'
  BY TypedStep
<1> QED  BY <1>1, TypedInit, ServerHolds, PTL DEF ClientSpec, ServerInv

(* The two threads of a client stay within the states of client.py, and    *)
(* what travels is of the kinds that the two programs know.                *)
THEOREM ClientTypes == ClientSpec => []ClientTypeOK
<1>1. ClientTyped => ClientTypeOK
  BY DEF ClientTyped, ClientTypeOK, ServerKinds
<1> QED  BY <1>1, TypedHolds, PTL
-----------------------------------------------------------------------------
(* One request at a time.                                                  *)

(* The connection is not accepted yet, or up at both ends.                 *)
Alive(c) == peer[c] \in {"out", "backlog"} \/ Connected(c)

(* A worker answers a request of c: it has read it and has not set         *)
(* SEND_STAT.                                                              *)
Work       == {"find", "name", "broadcast", "next", "reply"}
Working(c) == \E t \in Workers : Place(t) \in Work /\ Conn(t) = c

(* A request of c has no STATUS yet; nothing of c is under way; the main   *)
(* thread of c is about to send a request, or to ask for one.              *)
Busy(c)     == ~None(inbox[c], Requests) \/ Working(c) \/ status[c] = "SEND_STAT"
Quiet(c)    == ~awaiting[c] /\ None(outbox[c], {"STATUS"})
Prompted(c) == \/ client[c].main \in {"connect", "register", "input"}
               \/ client[c].main = "test" /\ client[c].state = "READY"

OneRequest(c) ==
  /\ Busy(c) => awaiting[c]
  /\ awaiting[c] => None(outbox[c], {"STATUS"})
  /\ Once(outbox[c], {"STATUS"})
  /\ Once(inbox[c], Requests)
  /\ ~None(inbox[c], Requests) => ~Working(c) /\ status[c] # "SEND_STAT"
  /\ Prompted(c) => Quiet(c)
  /\ None(outbox[c], {"ERROR", "EOF"})
  /\ client[c].main \in {"connect", "register"} => client[c].state # "READY"

(* A client that the server has not accepted has got nothing from it.      *)
Unaccepted(c) ==
  /\ outbox[c] = << >> /\ ~client[c].astray
  /\ peer[c] = "out" => client[c].main = "connect"
  /\ client[c].state = "SETUP" /\ client[c].main \in {"connect", "register", "test"}

PromptInv ==
  \A c \in Conns : /\ peer[c] \in {"out", "backlog"} => Unaccepted(c)
                   /\ Alive(c) /\ ~client[c].astray => OneRequest(c)

(* A connection that failed at one end is not alive again.                 *)
LEMMA AliveBack ==
  ASSUME BaseInv, [Next]_vars, NEW c \in Conns
  PROVE  /\ peer'[c] \in {"out", "backlog"} => peer[c] \in {"out", "backlog"}
         /\ peer'[c] = "out" => peer[c] = "out"
         /\ Alive(c)' => Alive(c)
<1>a. /\ peer \in [Conns -> {"out", "backlog", "open", "closed", "reset"}]
      /\ open \in [Conns -> BOOLEAN]
  BY DEF BaseInv, SocketTyped
<1>1. \/ peer'[c] = peer[c] \/ peer[c] \in {"out", "backlog"}
      \/ peer'[c] \in {"closed", "reset"}
  BY <1>a, PeerWriters DEF SendStatus, SendDeliver, ProcError, SendOk, HandleNewConnection,
     ConnectionNoMemory, ConnectionUnwatched, Connect, ClientLeaves
<1>2. peer'[c] = "out" => peer[c] = "out"
  BY <1>a, PeerWriters DEF SendStatus, SendDeliver, ProcError, SendOk, HandleNewConnection,
     ConnectionNoMemory, ConnectionUnwatched, Connect, ClientLeaves
<1>3. open'[c] => open[c] \/ peer[c] = "backlog"
  BY <1>a, SocketWriters DEF ProcError, HandleNewConnection, ConnectionNoMemory,
     ConnectionUnwatched
<1> QED  BY <1>1, <1>2, <1>3 DEF Alive, Connected

(* A worker that holds the mutex of a connection is alone with it, and if  *)
(* the connection is alive, it was accepted and is not being closed.       *)
LEMMA AloneWith ==
  ASSUME BaseInv, Owners, SocketClosedOnce, NEW t \in Workers, Place(t) \in Locked,
         NEW c \in Conns, Conn(t) = c
  PROVE  /\ peer[c] \notin {"out", "backlog"}
         /\ Alive(c) => status[c] # "CLOSING" /\ open[c]
         /\ \A u \in Workers : Place(u) \in Locked /\ Conn(u) = c => u = t
<1>1. mem[c] # "none"
  BY AtPlace DEF WithTask
<1>2. peer[c] \notin {"out", "backlog"}
  BY <1>1 DEF BaseInv, Fresh
<1>3. Alive(c) => status[c] # "CLOSING" /\ open[c]
  BY <1>1, <1>2 DEF Alive, Connected, SocketClosedOnce
<1> QED  BY <1>2, <1>3 DEF Owners

LEMMA BeforeWork ==
  ASSUME BaseInv, NEW t \in Workers, Worker(t), Place(t)' \in Work
  PROVE  /\ Place(t) \in Locked /\ Conn(t)' = Conn(t)
         /\ \/ Place(t) \in Work
            \/ th[t].pc = "proc" /\ (RecvRegister(t) \/ RecvSend(t) \/ ClosingNow(t))
<1>a. th \in [Threads -> Locals] /\ t \in Threads /\ WorkerShape(th[t])
  BY DEF BaseInv, ThreadsOK, Threads
<1>b. Place(t) \in Locked /\ Conn(t)' = Conn(t)
  <2>1. ~TryLock(t)
    BY <1>a DEF TryLock, Place, At, Locals, Work
  <2> QED  BY <2>1, LockedMove DEF Locked, Work, Conn
<1> USE <1>a DEF WorkerShape, WithTask, Locked, Locals, At, In, Place, Work
<1>1. CASE \/ RequeueTask(t) \/ StartJob(t) \/ RecvStatus(t)
           \/ Reply(t) \/ SendStatus(t) \/ SendDeliver(t) \/ ProcError(t)
           \/ DestroyMutex(t) \/ TakeTask(t) \/ TryLock(t) \/ DestroyUnlock(t)
  BY <1>1 DEF RequeueTask, StartJob, RecvStatus, Reply, SendStatus, SendDeliver,
     ProcError, DestroyMutex, Goto, TakeTask, TryLock, DestroyUnlock
<1>2. CASE CountJob(t)
  BY <1>b, <1>2 DEF CountJob
<1>3. CASE \/ HeartbeatOk(t) \/ BufferFails(t) \/ Rearm(t) \/ Replied(t) \/ SendFails(t)
           \/ ClosingLater(t) \/ Unlink(t)
  BY <1>3 DEF HeartbeatOk, BufferFails, Rearm, Replied, SendFails,
     ClosingLater, Unlink, Cleanup, IdleWorker, Local
<1>4. CASE \/ TryLockFails(t) \/ RecvNothing(t) \/ RecvBad(t) \/ StartSendMsg(t)
           \/ Postpone(t) \/ CloseEpollDel(t)
  <2>1. RequeueNoUnlock(t) \/ RequeueFreed(t)
    BY <1>4 DEF TryLockFails, RecvNothing, RecvBad, StartSendMsg, Postpone, CloseEpollDel,
       Fail, Requeue
  <2> QED  BY <2>1 DEF RequeueNoUnlock, RequeueFreed, Local
<1>5. CASE HeartbeatTimeout(t) \/ SigPipe(t) \/ BroadcastSkip(t)
  BY <1>b, <1>5 DEF HeartbeatTimeout, SigPipe, BroadcastSkip, vars
<1>6. CASE \/ FindUser(t) \/ SetUsername(t) \/ BroadcastLock(t) \/ BroadcastDeliver(t)
           \/ BroadcastNoMemory(t) \/ BroadcastDone(t)
  BY <1>b, <1>6 DEF FindUser, SetUsername, BroadcastLock, BroadcastDeliver, BroadcastNoMemory,
     BroadcastDone
<1>7. CASE RecvRegister(t) \/ RecvSend(t) \/ ClosingNow(t)
  <2>1. th[t].pc = "proc"
    BY <1>7 DEF RecvRegister, RecvSend, ClosingNow, Receives, Reading
  <2> QED  BY <1>b, <1>7, <2>1
<1> QED  BY <1>1, <1>2, <1>3, <1>4, <1>5, <1>6, <1>7 DEF Worker

(* Work on a connection begins with a request that was read.               *)
LEMMA WorkBegins ==
  ASSUME BaseInv, Owners, SocketClosedOnce, NEW t \in Workers, Worker(t), NEW c \in Conns,
         Alive(c), Working(c)'
  PROVE  Working(c) \/ (Conn(t) = c /\ (RecvRegister(t) \/ RecvSend(t)))
<1>1. PICK u \in Workers : Place(u)' \in Work /\ Conn(u)' = c
  BY DEF Working
<1>2. CASE u # t
  <2>1. th'[u] = th[u]
    BY <1>2, WorkerLocal DEF BaseInv, ThreadsOK, Threads
  <2> QED  BY <1>1, <2>1 DEF Working, Place, Conn
<1>3. CASE u = t
  <2>1. ~ClosingNow(t) \/ Conn(t) # c
    BY <1>1, <1>3, BeforeWork, AloneWith DEF ClosingNow, In
  <2> QED  BY <1>1, <1>3, <2>1, BeforeWork DEF Working
<1> QED  BY <1>2, <1>3

LEMMA ReplyBegins ==
  ASSUME BaseInv, StatusAt, [Next]_vars, NEW c \in Conns,
         status'[c] = "SEND_STAT", status[c] # "SEND_STAT"
  PROVE  Working(c)
<1>1. PICK t \in Workers : Conn(t) = c /\ Reply(t)
  BY StatusMoves DEF Moves
<1>2. Place(t) = "reply"
  BY <1>1 DEF Reply, At, Place
<1> QED  BY <1>1, <1>2 DEF Working, Work

(* A step of the server: what is read was sent once, what is sent was due. *)
LEMMA RequestServer ==
  ASSUME ServerInv, ClientTyped, [Next]_vars, NEW t \in Workers, Sends(t), NEW c \in Conns,
         Alive(c), Alive(c)', OneRequest(c)
  PROVE  OneRequest(c)'
<1>a. /\ BaseInv /\ Owners /\ StatusAt /\ SocketClosedOnce /\ OutboxInv /\ Worker(t)
      /\ inbox[c] \in Seq(ClientKinds) /\ outbox[c] \in Seq(ServerKinds)
      /\ awaiting \in [Conns -> BOOLEAN] /\ UNCHANGED client
  BY DEF ServerInv, ClientTyped, BaseInv, GhostTyped, Sends
<1>1. ASSUME Conn(t) = c, SendStatus(t)
      PROVE  /\ status[c] = "SEND_STAT" /\ status'[c] = "AVAILABLE" /\ ~Working(c)
             /\ ~RecvRegister(t) /\ ~RecvSend(t) /\ ~awaiting'[c]
  <2>1. status[c] = "SEND_STAT"
    BY <1>a, <1>1, StatusInSendStat
  <2>2. th[t].pc = "proc" /\ Place(t) = "proc" /\ th'[t].pc = "arm" /\ In(t, {"SEND_STAT"})
    BY <1>a, <1>1, <2>1 DEF SendStatus, Sending, In, At, Place, Goto, BaseInv, ThreadsOK, Threads,
       Locals
  <2>3. ~Working(c)
    BY <1>a, <1>1, <2>2, AloneWith DEF Working, Work, Locked
  <2>4. ~RecvRegister(t) /\ ~RecvSend(t)
    BY <1>a, <2>2 DEF RecvRegister, RecvSend, Goto, BaseInv, ThreadsOK, Threads, Locals
  <2> QED  BY <1>a, <1>1, <2>1, <2>2, <2>3, <2>4 DEF SendStatus, SetStatus, BaseInv, ConnTyped
<1>2. ~(Conn(t) = c /\ SendStatus(t)) => awaiting'[c] = awaiting[c]
  BY <1>a, WorkerGhosts DEF SendStatus
<1>3. ~(Conn(t) = c /\ ProcError(t))
  <2>1. ASSUME Conn(t) = c, ProcError(t) PROVE FALSE
    <3>1. th[t].pc = "proc"
      BY <2>1 DEF ProcError, In, At
    <3>2. peer[c] \notin {"out", "backlog"}
      BY <1>a, <2>1, <3>1, AloneWith DEF Place, Locked
    <3>3. ~open'[c]
      BY <1>a, <2>1 DEF ProcError, BaseInv, SocketTyped
    <3>4. peer'[c] \notin {"out", "backlog"}
      BY <1>a, <3>2, AliveBack
    <3> QED  BY <3>3, <3>4 DEF Alive, Connected
  <2> QED  BY <2>1
(* What arrived.                                                           *)
<1>4. /\ Once(inbox'[c], Requests)
      /\ ~None(inbox'[c], Requests) => ~None(inbox[c], Requests)
      /\ Conn(t) = c /\ (RecvRegister(t) \/ RecvSend(t)) =>
           ~None(inbox[c], Requests) /\ None(inbox'[c], Requests)
  <2>1. CASE inbox'[c] = inbox[c] /\ (Conn(t) = c => ~RecvRegister(t) /\ ~RecvSend(t))
    BY <2>1 DEF OneRequest
  <2>2. CASE inbox[c] # << >> /\ inbox'[c] = Tail(inbox[c])
    <3>1. /\ Once(inbox[c], Requests)
          /\ None(inbox[c], Requests) <=> None(inbox'[c], Requests) /\ Head(inbox[c]) \notin Requests
          /\ Once(inbox'[c], Requests)
          /\ Head(inbox[c]) \in Requests => None(inbox'[c], Requests)
          /\ Head(inbox[c]) \in ClientKinds
      BY <1>a, <2>2, NoneTail DEF OneRequest
    <3>2. Conn(t) = c /\ (RecvRegister(t) \/ RecvSend(t)) => Head(inbox[c]) \in Requests
      BY <3>1 DEF RecvRegister, RecvSend, Receives, MsgType, Requests, ClientKinds
    <3> QED  BY <3>1, <3>2
  <2> QED  BY <1>a, <2>1, <2>2, InboxShrinks
(* What was sent.                                                          *)
<1>5. /\ None(outbox'[c], {"ERROR", "EOF"})
      /\ \/ Conn(t) = c /\ SendStatus(t) /\ (None(outbox[c], {"STATUS"}) => Once(outbox'[c], {"STATUS"}))
         \/ /\ None(outbox[c], {"STATUS"}) => None(outbox'[c], {"STATUS"})
            /\ Once(outbox'[c], {"STATUS"})
  <2>1. Once(outbox[c], {"STATUS"}) /\ None(outbox[c], {"ERROR", "EOF"})
    BY DEF OneRequest
  <2>2. CASE Conn(t) = c /\ SendStatus(t) /\ outbox'[c] = Append(outbox[c], "STATUS")
    <3>1. "STATUS" \in ServerKinds
      BY DEF ServerKinds
    <3>2. None(outbox[c], {"STATUS"}) => Once(outbox'[c], {"STATUS"})
      BY <1>a, <2>1, <2>2, <3>1, NoneAppend
    <3>3. None(outbox'[c], {"ERROR", "EOF"})
      BY <1>a, <2>1, <2>2, <3>1, NoneAppend
    <3> QED  BY <2>2, <3>2, <3>3
  <2>3. CASE outbox'[c] = Append(outbox[c], "DELIVER")
    <3>1. "DELIVER" \in ServerKinds
      BY DEF ServerKinds
    <3>2. /\ None(outbox[c], {"STATUS"}) => None(outbox'[c], {"STATUS"})
          /\ Once(outbox'[c], {"STATUS"})
      BY <1>a, <2>1, <2>3, <3>1, NoneAppend
    <3>3. None(outbox'[c], {"ERROR", "EOF"})
      BY <1>a, <2>1, <2>3, <3>1, NoneAppend
    <3> QED  BY <3>2, <3>3
  <2>4. CASE outbox'[c] = outbox[c]
    BY <2>1, <2>4
  <2> QED  BY <1>a, <1>3, <2>2, <2>3, <2>4, OutboxGrows
<1>6. Working(c)' => Working(c) \/ (Conn(t) = c /\ (RecvRegister(t) \/ RecvSend(t)))
  BY <1>a, WorkBegins
<1>7. status'[c] = "SEND_STAT" => status[c] = "SEND_STAT" \/ Working(c)
  BY <1>a, ReplyBegins
<1>8. Prompted(c)' <=> Prompted(c)
  BY <1>a DEF Prompted
<1>9. Busy(c)' => Busy(c)
  BY <1>4, <1>6, <1>7 DEF Busy
<1>10. CASE Conn(t) = c /\ SendStatus(t)
  <2>1. Busy(c) /\ awaiting[c] /\ None(outbox[c], {"STATUS"}) /\ None(inbox[c], Requests)
    BY <1>1, <1>10 DEF OneRequest, Busy
  <2>2. ~Busy(c)'
    BY <1>1, <1>4, <1>6, <1>10, <2>1 DEF Busy
  <2>3. ~Prompted(c)'
    BY <1>8, <2>1 DEF OneRequest, Quiet
  <2>4. Once(outbox'[c], {"STATUS"}) /\ None(inbox'[c], Requests)
    BY <1>4, <1>5, <2>1 DEF None, Once
  <2> QED  BY <1>a, <1>1, <1>4, <1>5, <1>10, <2>2, <2>3, <2>4 DEF OneRequest
<1>11. CASE ~(Conn(t) = c /\ SendStatus(t))
  <2>1. awaiting'[c] = awaiting[c]
    BY <1>2, <1>11
  <2>2. /\ None(outbox[c], {"STATUS"}) => None(outbox'[c], {"STATUS"})
        /\ Once(outbox'[c], {"STATUS"})
    BY <1>5, <1>11
  <2>3. ~None(inbox'[c], Requests) => ~Working(c)' /\ status'[c] # "SEND_STAT"
    BY <1>4, <1>6, <1>7 DEF OneRequest
  <2>4. Prompted(c)' => Quiet(c)'
    BY <1>8, <2>1, <2>2 DEF OneRequest, Quiet
  <2> QED  BY <1>a, <1>4, <1>5, <1>9, <2>1, <2>2, <2>3, <2>4 DEF OneRequest
<1> QED  BY <1>10, <1>11

(* A request of the client: there was none before it.                      *)
LEMMA RequestSent ==
  ASSUME BaseInv, ClientTyped, NEW c \in Conns, NEW m \in Requests, ClientSends(c, m),
         OneRequest(c), Prompted(c), ~Prompted(c)', UNCHANGED outbox,
         UNCHANGED <<th, status>>,
         client'[c].main \notin {"connect", "register"}
  PROVE  OneRequest(c)'
<1>1. inbox[c] \in Seq(ClientKinds) /\ m \in ClientKinds
  BY DEF ClientTyped, Requests, ClientKinds
<1>2. inbox'[c] = inbox[c] \o <<m>> /\ awaiting'[c] = TRUE
  BY DEF ClientSends, Arrives, BaseInv, GhostTyped, ClientTyped, Requests
<1>3. inbox'[c] = Append(inbox[c], m)
  BY <1>1, <1>2, Concatenations
<1>4. ~Busy(c) /\ None(inbox[c], Requests) /\ None(outbox[c], {"STATUS"})
  BY DEF OneRequest, Quiet, Busy
<1>5. Once(inbox'[c], Requests)
  BY <1>1, <1>3, <1>4, NoneAppend DEF OneRequest
<1>6. Working(c)' <=> Working(c)
  BY DEF Working, Place, Conn
<1> QED  BY <1>2, <1>4, <1>5, <1>6 DEF OneRequest, Busy

(* A step of the client itself.                                            *)
LEMMA RequestOwn ==
  ASSUME BaseInv, ClientTyped, NEW c \in Conns, ClientStep(c), Alive(c)', OneRequest(c),
         Alive(c), ~client[c].astray, ~client'[c].astray, peer[c] \in {"out", "backlog"} => Unaccepted(c)
  PROVE  OneRequest(c)'
<1>a. /\ client \in [Conns -> [state   : {"SETUP", "READY", "PENDING_STATUS", "SHUTDOWN"},
                               main    : {"connect", "register", "test", "input", "sent", "exited"},
                               inbound : {"running", "exited"},
                               reset   : BOOLEAN,
                               astray  : BOOLEAN]]
      /\ outbox \in [Conns -> Seq(ServerKinds)] /\ inbox \in [Conns -> Seq(ClientKinds)]
      /\ peer \in [Conns -> {"out", "backlog", "open", "closed", "reset"}]
  BY DEF ClientTyped, BaseInv, SocketTyped
<1>b. UNCHANGED <<th, status, open>>
  BY ClientFrame
<1>c. Working(c)' <=> Working(c)
  BY <1>b DEF Working, Place, Conn
<1>1. CASE SetupSocket(c)
  <2>1. /\ client[c].main = "connect" /\ client'[c].main = "register"
        /\ client'[c].state = client[c].state /\ UNCHANGED <<inbox, awaiting, outbox>>
    BY <1>a, <1>1 DEF SetupSocket, MainAt, MainGoes, Connect, ghost
  <2> QED  BY <1>b, <1>c, <2>1 DEF OneRequest, Busy, Prompted, Quiet
<1>2. CASE RegisterClient(c)
  <2>1. /\ client[c].main = "register" /\ client'[c].main = "test"
        /\ client'[c].state = client[c].state /\ ClientSends(c, "REGISTER") /\ UNCHANGED outbox
    BY <1>a, <1>2 DEF RegisterClient, MainAt, MainGoes
  <2>2. Prompted(c) /\ ~Prompted(c)' /\ "REGISTER" \in Requests
    BY <2>1 DEF Prompted, OneRequest, Requests
  <2> QED  BY <1>b, <2>1, <2>2, RequestSent
<1>3. CASE SendSend(c)
  <2>1. /\ client[c].main = "input" /\ client'[c].main = "sent"
        /\ ClientSends(c, "SEND") /\ UNCHANGED outbox
    BY <1>a, <1>3 DEF SendSend, MainAt, MainGoes
  <2>2. Prompted(c) /\ ~Prompted(c)' /\ "SEND" \in Requests
    BY <2>1 DEF Prompted, Requests
  <2> QED  BY <1>b, <2>1, <2>2, RequestSent
<1>4. CASE TestState(c) \/ SetPending(c)
  <2>1. /\ UNCHANGED <<inbox, awaiting, outbox>>
        /\ client'[c].main \notin {"connect", "register"}
        /\ Prompted(c)' => Prompted(c)
    BY <1>a, <1>4 DEF TestState, SetPending, MainAt, MainGoes, vars, socket, ghost, Prompted
  <2> QED  BY <1>b, <1>c, <2>1 DEF OneRequest, Busy, Quiet
<1>5. CASE SendLost(c)
  BY <1>5 DEF SendLost, MainAt, Alive, Connected, Unaccepted
<1>6. CASE UserLeaves(c)
  <2>1. peer'[c] = "closed"
    BY <1>a, <1>6 DEF UserLeaves, ClientLeaves
  <2> QED  BY <2>1 DEF Alive, Connected
<1>7. CASE HandleStat(c)
  <2>1. /\ outbox[c] # << >> /\ Head(outbox[c]) \in {"STATUS", "ERROR"}
        /\ outbox'[c] = Tail(outbox[c]) /\ UNCHANGED <<inbox, awaiting>>
        /\ client'[c].main = client[c].main
    BY <1>a, <1>7 DEF HandleStat, Incoming, vars, socket, ghost
  <2>2. /\ None(outbox[c], {"ERROR", "EOF"}) <=>
             None(Tail(outbox[c]), {"ERROR", "EOF"}) /\ Head(outbox[c]) \notin {"ERROR", "EOF"}
        /\ None(outbox[c], {"STATUS"}) <=>
             None(Tail(outbox[c]), {"STATUS"}) /\ Head(outbox[c]) \notin {"STATUS"}
        /\ Once(outbox[c], {"STATUS"}) => Once(Tail(outbox[c]), {"STATUS"})
        /\ Once(outbox[c], {"STATUS"}) /\ Head(outbox[c]) \in {"STATUS"} => None(Tail(outbox[c]), {"STATUS"})
    BY <1>a, <2>1, NoneTail
  <2>3. /\ ~None(outbox[c], {"STATUS"}) /\ None(outbox'[c], {"STATUS"})
        /\ Once(outbox'[c], {"STATUS"}) /\ None(outbox'[c], {"ERROR", "EOF"})
    BY <2>1, <2>2 DEF OneRequest
  <2>4. ~awaiting[c] /\ ~Prompted(c) /\ ~Busy(c)
    BY <2>3 DEF OneRequest, Quiet
  <2>5. Quiet(c)' /\ ~Busy(c)'
    BY <1>b, <1>c, <2>1, <2>3, <2>4 DEF Quiet, Busy
  <2>6. client'[c].main \notin {"connect", "register"}
    BY <2>1, <2>4 DEF Prompted
  <2> QED  BY <1>b, <1>c, <2>1, <2>3, <2>5, <2>6 DEF OneRequest, Quiet
<1>8. CASE HandleDeliver(c)
  <2>1. outbox[c] # << >> /\ Head(outbox[c]) = "DELIVER"
    BY <1>8 DEF HandleDeliver, Incoming
  <2>2. open[c]
    BY <2>1 DEF Alive, Connected, Unaccepted
  <2>3. ClientAcks(c) /\ outbox'[c] = Tail(outbox[c]) /\ UNCHANGED client
    <3>1. client' # [client EXCEPT ![c].astray = TRUE]
      BY <1>a
    <3> QED  BY <1>a, <1>8, <2>2, <3>1 DEF HandleDeliver
  <2>4. /\ UNCHANGED awaiting
        /\ \/ inbox'[c] = inbox[c] \o <<"STATUS_GOOD">>
           \/ inbox'[c] = inbox[c] \o <<"STATUS_GOOD", "OTHER">>
    BY <1>a, <2>3 DEF ClientAcks, ClientRefuses, Arrives
  <2>5. /\ None(inbox'[c], Requests) <=> None(inbox[c], Requests)
        /\ Once(inbox[c], Requests) => Once(inbox'[c], Requests)
    <3>1. /\ inbox[c] \in Seq(ClientKinds)
          /\ {"STATUS_GOOD", "OTHER"} \subseteq ClientKinds \ Requests
      BY <1>a DEF ClientKinds, Requests
    <3>2. LET s == Append(inbox[c], "STATUS_GOOD")
          IN  /\ s \in Seq(ClientKinds) /\ (None(s, Requests) <=> None(inbox[c], Requests))
              /\ Once(inbox[c], Requests) => Once(s, Requests)
              /\ None(Append(s, "OTHER"), Requests) <=> None(s, Requests)
              /\ Once(s, Requests) => Once(Append(s, "OTHER"), Requests)
      BY <3>1, NoneAppend
    <3>3. /\ inbox[c] \o <<"STATUS_GOOD">> = Append(inbox[c], "STATUS_GOOD")
          /\ inbox[c] \o <<"STATUS_GOOD", "OTHER">> = Append(Append(inbox[c], "STATUS_GOOD"), "OTHER")
      BY <3>1, Concatenations
    <3> QED  BY <2>4, <3>2, <3>3
  <2>6. /\ None(outbox[c], {"ERROR", "EOF"}) => None(outbox'[c], {"ERROR", "EOF"})
        /\ None(outbox[c], {"STATUS"}) => None(outbox'[c], {"STATUS"})
        /\ Once(outbox[c], {"STATUS"}) => Once(outbox'[c], {"STATUS"})
    BY <1>a, <2>1, <2>3, NoneTail
  <2> QED  BY <1>b, <1>c, <2>3, <2>4, <2>5, <2>6 DEF OneRequest, Busy, Prompted, Quiet
<1>9. CASE ServerGone(c)
  <2>1. outbox[c] # << >> /\ Head(outbox[c]) = "EOF"
    BY <1>9 DEF ServerGone, Incoming, Running
  <2> QED  BY <1>a, <2>1, NoneTail DEF OneRequest
<1>10. ~Misread(c)
  BY DEF Misread
<1> QED  BY <1>1, <1>2, <1>3, <1>4, <1>5, <1>6, <1>7, <1>8, <1>9, <1>10 DEF ClientStep

(* What was read short stays read short.                                   *)
LEMMA AstrayStays ==
  ASSUME BaseInv, ClientTyped, [ClientNext]_cvars, NEW c \in Conns, client[c].astray
  PROVE  client'[c].astray
<1>1. CASE UNCHANGED client
  BY <1>1
<1>2. ASSUME NEW d \in Conns, ClientStep(d) PROVE client'[c].astray
  <2>1. CASE d # c
    BY <1>2, <2>1, ClientFrame
  <2>2. CASE d = c
    <3>a. c \in DOMAIN client /\ "astray" \in DOMAIN client[c]
      BY DEF ClientTyped
    <3>1. \/ \E m : client' = [client EXCEPT ![c].main = m]
          \/ \E m, r : client' = [client EXCEPT ![c].main = m, ![c].reset = r]
          \/ \E m, r : client' = [client EXCEPT ![c].main = m, ![c].state = r]
          \/ \E m, r : client' = [client EXCEPT ![c].main = m, ![c].inbound = r]
          \/ \E m, r : client' = [client EXCEPT ![c].state = m, ![c].inbound = r]
          \/ \E m : client' = [client EXCEPT ![c].state = m]
          \/ client' = [client EXCEPT ![c].reset = TRUE]
          \/ client' = [client EXCEPT ![c].astray = TRUE]
          \/ UNCHANGED client
      BY <1>2, <2>2 DEF ClientStep, SetupSocket, RegisterClient, TestState, SendSend, SendLost,
         SetPending, UserLeaves, HandleStat, HandleDeliver, Misread, ServerGone, MainGoes
    <3> QED  BY <3>a, <3>1
  <2> QED  BY <2>1, <2>2
<1> QED  BY <1>1, <1>2, ClientCases DEF Sends, Aside

LEMMA UnacceptedStep ==
  ASSUME ServerInv, ClientTyped, PromptInv, [ClientNext]_cvars, NEW c \in Conns,
         peer'[c] \in {"out", "backlog"}
  PROVE  Unaccepted(c)'
<1>1. BaseInv /\ Owners /\ SocketClosedOnce /\ [Next]_vars
  BY ClientAllowed DEF ServerInv
<1>2. peer[c] \in {"out", "backlog"} /\ Unaccepted(c)
  BY <1>1, AliveBack DEF PromptInv
<1>3. ASSUME NEW t \in Workers, Sends(t) PROVE Unaccepted(c)'
  <2>1. outbox'[c] = outbox[c]
    <3>1. ASSUME Conn(t) = c, SendStatus(t) \/ SendDeliver(t) \/ ProcError(t) PROVE FALSE
      <4>1. Place(t) \in Locked
        BY <3>1 DEF SendStatus, SendDeliver, ProcError, Sending, In, At, Place, Locked
      <4> QED  BY <1>1, <1>2, <3>1, <4>1, AloneWith
    <3> QED  BY <1>1, <1>3, <3>1, OutboxGrows
  <2> QED  BY <1>1, <1>2, <1>3, <2>1, AliveBack DEF Unaccepted, Sends
<1>4. CASE Aside
  BY <1>1, <1>2, <1>4, AsideFrame, AliveBack DEF Unaccepted
<1>5. ASSUME NEW d \in Conns, ClientStep(d), d # c PROVE Unaccepted(c)'
  BY <1>1, <1>2, <1>5, ClientFrame, AliveBack DEF Unaccepted
<1>6. CASE ClientStep(c)
  <2>a. /\ outbox[c] = << >> /\ ~client[c].astray /\ client[c].state = "SETUP"
        /\ client[c].main \in {"connect", "register", "test"}
        /\ peer[c] = "out" => client[c].main = "connect"
    BY <1>2 DEF Unaccepted
  <2> USE <2>a DEF ClientTyped, MainAt, MainGoes, Incoming, Running
  <2>1. CASE SetupSocket(c)
    <3>1. peer'[c] = "backlog"
      BY <1>1, <2>1 DEF SetupSocket, Connect, BaseInv, SocketTyped
    <3> QED  BY <2>1, <3>1 DEF SetupSocket, Unaccepted
  <2>2. CASE RegisterClient(c)
    <3>1. peer'[c] # "out"
      BY <1>1, <2>2, AliveBack DEF RegisterClient
    <3> QED  BY <2>2, <3>1 DEF RegisterClient, Unaccepted
  <2>3. CASE \/ TestState(c) \/ SendSend(c) \/ SetPending(c) \/ HandleStat(c) \/ HandleDeliver(c)
             \/ ServerGone(c) \/ Misread(c)
    BY <2>3 DEF TestState, SendSend, SetPending, HandleStat, HandleDeliver, ServerGone, Misread
  <2>4. CASE SendLost(c)
    BY <1>2, <2>4 DEF SendLost
  <2>5. CASE UserLeaves(c)
    BY <1>2, <2>5 DEF UserLeaves, ClientLeaves
  <2> QED  BY <1>6, <2>1, <2>2, <2>3, <2>4, <2>5 DEF ClientStep
<1> QED  BY <1>3, <1>4, <1>5, <1>6, ClientCases

LEMMA PromptStep ==
  ASSUME ServerInv, ClientTyped, PromptInv, [ClientNext]_cvars
  PROVE  PromptInv'
<1>1. BaseInv /\ [Next]_vars
  BY ClientAllowed DEF ServerInv
<1>2. ASSUME NEW c \in Conns, Alive(c)', ~client'[c].astray PROVE OneRequest(c)'
  <2>1. /\ Alive(c) /\ ~client[c].astray /\ OneRequest(c)
        /\ peer[c] \in {"out", "backlog"} => Unaccepted(c)
    BY <1>1, <1>2, AliveBack, AstrayStays DEF PromptInv
  <2>2. ASSUME NEW t \in Workers, Sends(t) PROVE OneRequest(c)'
    BY <1>1, <1>2, <2>1, <2>2, RequestServer
  <2>3. CASE Aside
    <3>1. /\ UNCHANGED <<inbox, status, awaiting, client, outbox>>
          /\ \A t \in Workers : th'[t] = th[t]
      BY <1>1, <2>3, AsideFrame
    <3>2. Working(c)' <=> Working(c)
      BY <3>1 DEF Working, Place, Conn
    <3> QED  BY <2>1, <3>1, <3>2 DEF OneRequest, Busy, Prompted, Quiet
  <2>4. ASSUME NEW d \in Conns, ClientStep(d), d # c PROVE OneRequest(c)'
    <3>1. /\ UNCHANGED <<th, status>> /\ client'[c] = client[c] /\ outbox'[c] = outbox[c]
          /\ inbox'[c] = inbox[c] /\ awaiting'[c] = awaiting[c]
      BY <1>1, <2>4, ClientFrame
    <3>2. Working(c)' <=> Working(c)
      BY <3>1 DEF Working, Place, Conn
    <3> QED  BY <2>1, <3>1, <3>2 DEF OneRequest, Busy, Prompted, Quiet
  <2>5. CASE ClientStep(c)
    BY <1>1, <1>2, <2>1, <2>5, RequestOwn
  <2> QED  BY <2>2, <2>3, <2>4, <2>5, ClientCases
<1> QED  BY <1>2, UnacceptedStep DEF PromptInv

LEMMA PromptInit == ClientInit => PromptInv
<1> SUFFICES ASSUME ClientInit, NEW c \in Conns PROVE Unaccepted(c) /\ OneRequest(c)
  BY DEF PromptInv
<1>1. /\ outbox[c] = << >> /\ inbox[c] = << >> /\ ~awaiting[c] /\ status[c] = "PRE_REGISTER"
      /\ client[c].state = "SETUP" /\ client[c].main = "connect" /\ ~client[c].astray
      /\ \A t \in Workers : th[t] = IdleWorker
  BY ServerAssumption DEF ClientInit, Init, NewClient, Threads
<1>2. \A M : None(<< >>, M) /\ Once(<< >>, M)
  BY DEF None, Once
<1>3. ~Working(c)
  BY <1>1 DEF Working, Work, Place, IdleWorker, Local
<1> QED  BY <1>1, <1>2, <1>3 DEF Unaccepted, OneRequest, Busy, Prompted, Quiet

(* handle_outbound of client.py asks the user for a line only when the     *)
(* server has answered the line before, and the answer was read - although *)
(* PENDING_STATUS is set after the line was sent, outside of the critical  *)
(* section that reads the STATUS, and whatever DELIVERs come in between:   *)
(* handle_inbound sets READY for a STATUS, and there is one for every      *)
(* request.                                                                *)
THEOREM PromptsAfterAnswer == ClientSpec => []PromptMeansAnswered
<1>1. ServerInv /\ ClientTyped /\ PromptInv /\ [ClientNext]_cvars => PromptInv'
  BY PromptStep
<1>2. ClientSpec => []PromptInv
  BY <1>1, PromptInit, TypedHolds, ServerHolds, PTL DEF ClientSpec
<1>3. ClientTyped /\ PromptInv => PromptMeansAnswered
  <2> SUFFICES ASSUME PromptInv, ClientTyped, NEW c \in Conns, client[c].main = "input", Connected(c),
                      ~client[c].astray
               PROVE  ~awaiting[c] /\ InTransit(c, "STATUS") = 0
    BY DEF PromptMeansAnswered
  <2>1. ~awaiting[c] /\ None(outbox[c], {"STATUS"})
    BY DEF PromptInv, Alive, OneRequest, Prompted, Quiet
  <2>2. {i \in DOMAIN outbox[c] : outbox[c][i] = "STATUS"} = {}
    BY <2>1 DEF None
  <2> QED  BY <2>1, <2>2, FS_EmptySet DEF InTransit, Count
<1> QED  BY <1>2, <1>3, TypedHolds, PTL
-----------------------------------------------------------------------------
(* The acknowledgements.                                                   *)

Unread(c) == SeqCount(outbox[c], {"DELIVER"})

Answers   == {"STATUS_GOOD", "STATUS_BAD"}

AckInv ==
  \A c \in Conns :
    /\ Alive(c) /\ client[c].main # "exited" /\ ~client[c].astray => owed[c] = Unread(c)
    /\ status[c] = "PENDING_STATUS" => owed[c] > 0 \/ ~None(inbox[c], Answers)

(* The server counts what it sends.                                        *)
LEMMA DeliversServer ==
  ASSUME ServerInv, ClientTyped, PromptInv, [Next]_vars, NEW t \in Workers, Sends(t),
         NEW c \in Conns, Alive(c)', client[c].main # "exited", owed[c] = Unread(c)
  PROVE  owed'[c] = Unread(c)'
<1>a. /\ BaseInv /\ Owners /\ SocketClosedOnce /\ Worker(t) /\ Alive(c) /\ Alive(c)'
      /\ outbox[c] \in Seq(ServerKinds) /\ owed \in [Conns -> Nat]
      /\ {"STATUS", "DELIVER"} \subseteq ServerKinds
  BY AliveBack DEF ServerInv, ClientTyped, BaseInv, GhostTyped, Sends, ServerKinds
<1>1. CASE SendDeliver(t) /\ Conn(t) = c
  <2>1. ~SendStatus(t) /\ ~ProcError(t) /\ owed'[c] = owed[c] + 1
    BY <1>a, <1>1 DEF SendDeliver, SendStatus, ProcError, Sending, In, BaseInv, ThreadsOK, Threads,
       Locals
  <2>2. outbox'[c] = Append(outbox[c], "DELIVER")
    BY <1>a, <1>1, <2>1, OutboxGrows
  <2>3. Unread(c)' = Unread(c) + One("DELIVER", {"DELIVER"})
    BY <1>a, <2>2, SeqCountAppend DEF Unread
  <2> QED  BY <2>1, <2>3 DEF One
<1>2. CASE ~(SendDeliver(t) /\ Conn(t) = c)
  <2>1. owed'[c] = owed[c]
    BY <1>a, <1>2, WorkerGhosts DEF SendDeliver
  <2>2. ~(Conn(t) = c /\ ProcError(t))
    <3>1. ASSUME Conn(t) = c, ProcError(t) PROVE FALSE
      <4>1. th[t].pc = "proc"
        BY <3>1 DEF ProcError, In, At
      <4>2. peer[c] \notin {"out", "backlog"}
        BY <1>a, <3>1, <4>1, AloneWith DEF Place, Locked
      <4>3. ~open'[c]
        BY <1>a, <3>1 DEF ProcError, BaseInv, SocketTyped
      <4>4. peer'[c] \notin {"out", "backlog"}
        BY <1>a, <4>2, AliveBack
      <4> QED  BY <1>a, <4>3, <4>4 DEF Alive, Connected
    <3> QED  BY <3>1
  <2>3. outbox'[c] = outbox[c] \/ outbox'[c] = Append(outbox[c], "STATUS")
    BY <1>a, <1>2, <2>2, OutboxGrows
  <2>4. CASE outbox'[c] = Append(outbox[c], "STATUS")
    <3>1. Unread(c)' = Unread(c) + One("STATUS", {"DELIVER"})
      BY <1>a, <2>4, SeqCountAppend DEF Unread
    <3>2. Unread(c) \in Nat
      BY <1>a, SeqCountType DEF Unread
    <3> QED  BY <2>1, <3>1, <3>2 DEF One
  <2> QED  BY <2>1, <2>3, <2>4 DEF Unread
<1> QED  BY <1>1, <1>2

(* ... and the client acknowledges what it reads.                          *)
LEMMA DeliversOwn ==
  ASSUME ServerInv, ClientTyped, PromptInv, NEW c \in Conns, ClientStep(c), Alive(c)', Alive(c),
         client[c].main # "exited", client'[c].main # "exited",
         ~client[c].astray, ~client'[c].astray, owed[c] = Unread(c)
  PROVE  owed'[c] = Unread(c)'
<1>a. /\ outbox \in [Conns -> Seq(ServerKinds)] /\ owed \in [Conns -> Nat]
      /\ peer[c] \in {"out", "backlog"} => Unaccepted(c)
      /\ None(outbox[c], {"ERROR", "EOF"})
      /\ client \in [Conns -> [state   : {"SETUP", "READY", "PENDING_STATUS", "SHUTDOWN"},
                               main    : {"connect", "register", "test", "input", "sent", "exited"},
                               inbound : {"running", "exited"},
                               reset   : BOOLEAN,
                               astray  : BOOLEAN]]
  BY DEF ServerInv, ClientTyped, BaseInv, GhostTyped, PromptInv, OneRequest
<1>1. CASE SetupSocket(c) \/ RegisterClient(c) \/ TestState(c) \/ SendSend(c) \/ SetPending(c)
  <2>1. UNCHANGED <<outbox, owed>>
    BY <1>1 DEF SetupSocket, RegisterClient, TestState, SendSend, SetPending, Connect, ClientSends,
       vars, ghost
  <2> QED  BY <2>1 DEF Unread
<1>2. CASE SendLost(c)
  BY <1>a, <1>2 DEF SendLost, MainAt, Alive, Connected, Unaccepted
<1>3. CASE UserLeaves(c)
  BY <1>a, <1>3 DEF UserLeaves
<1>4. CASE ServerGone(c)
  <2>1. outbox[c] # << >> /\ Head(outbox[c]) = "EOF"
    BY <1>4 DEF ServerGone, Incoming, Running
  <2> QED  BY <1>a, <2>1, NoneTail
<1>5. CASE HandleStat(c)
  <2>1. /\ outbox[c] # << >> /\ Head(outbox[c]) \in {"STATUS", "ERROR"}
        /\ outbox'[c] = Tail(outbox[c]) /\ UNCHANGED owed
    BY <1>a, <1>5 DEF HandleStat, Incoming, vars, ghost
  <2>2. Unread(c)' = Unread(c) - One(Head(outbox[c]), {"DELIVER"})
    BY <1>a, <2>1, SeqCountTail DEF Unread
  <2>3. Unread(c) \in Nat
    BY <1>a, SeqCountType DEF Unread
  <2> QED  BY <2>1, <2>2, <2>3 DEF One
<1>6. CASE HandleDeliver(c)
  <2>1. outbox[c] # << >> /\ Head(outbox[c]) = "DELIVER"
    BY <1>6 DEF HandleDeliver, Incoming
  <2>2. open[c]
    BY <1>a, <2>1 DEF Alive, Connected, Unaccepted
  <2>3. outbox'[c] = Tail(outbox[c]) /\ owed'[c] = owed[c] - 1
    BY <1>a, <1>6, <2>2 DEF HandleDeliver, ClientAcks, ClientRefuses
  <2>4. Unread(c)' = Unread(c) - One("DELIVER", {"DELIVER"})
    BY <1>a, <2>1, <2>3, SeqCountTail DEF Unread
  <2> QED  BY <2>3, <2>4 DEF One
<1>7. ~Misread(c)
  BY DEF Misread
<1> QED  BY <1>1, <1>2, <1>3, <1>4, <1>5, <1>6, <1>7 DEF ClientStep

(* A connection enters PENDING_STATUS with a DELIVER, and leaves it with   *)
(* the STATUS that it reads.                                               *)
LEMMA AckKept ==
  ASSUME ServerInv, ClientTyped, [ClientNext]_cvars, NEW c \in Conns,
         status[c] = "PENDING_STATUS" => owed[c] > 0 \/ ~None(inbox[c], Answers),
         status'[c] = "PENDING_STATUS"
  PROVE  owed'[c] > 0 \/ ~None(inbox'[c], Answers)
<1>a. /\ BaseInv /\ StatusAt /\ OutboxInv /\ [Next]_vars /\ owed \in [Conns -> Nat]
      /\ inbox \in [Conns -> Seq(ClientKinds)] /\ status \in [Conns -> Status]
  BY ClientAllowed DEF ServerInv, ClientTyped, BaseInv, GhostTyped, ConnTyped
<1>1. CASE status[c] # "PENDING_STATUS"
  <2>1. PICK t \in Workers : Conn(t) = c /\ (SendDeliver(t) \/ (SendStatus(t) /\ status[c] = "SEND_MSG"))
    BY <1>a, <1>1, StatusMoves DEF Moves
  <2>2. SendDeliver(t)
    BY <1>a, <2>1, StatusInSendStat
  <2> QED  BY <1>a, <2>1, <2>2 DEF SendDeliver
<1>2. ASSUME status[c] = "PENDING_STATUS", NEW t \in Workers, Sends(t)
      PROVE  owed'[c] > 0 \/ ~None(inbox'[c], Answers)
  <2>1. owed'[c] >= owed[c] /\ owed[c] \in Nat /\ owed'[c] \in Nat
    <3>1. UNCHANGED owed \/ owed' = [owed EXCEPT ![Conn(t)] = @ + 1]
      BY <1>2, WorkerGhosts DEF Sends, SendDeliver
    <3>2. CASE UNCHANGED owed \/ Conn(t) # c
      BY <1>a, <3>1, <3>2
    <3>3. CASE Conn(t) = c
      BY <1>a, <3>1, <3>3
    <3> QED  BY <3>2, <3>3
  <2>2. ~None(inbox[c], Answers) => ~None(inbox'[c], Answers)
    <3>1. CASE inbox'[c] = inbox[c]
      BY <3>1
    <3>2. CASE inbox[c] # << >> /\ inbox'[c] = Tail(inbox[c]) /\ MsgType(Head(inbox[c])) \in Requests
      <4>1. Head(inbox[c]) \notin Answers
        BY <3>2 DEF MsgType, Requests, Answers
      <4> QED  BY <1>a, <3>2, <4>1, NoneTail
    <3>3. ASSUME Conn(t) = c, RecvBad(t) \/ RecvStatus(t) PROVE FALSE
      BY <1>a, <3>3 DEF RecvBad, RecvStatus, Fail, SetStatus
    <3> QED  BY <1>a, <1>2, <3>1, <3>2, <3>3, InboxShrinks DEF Sends, Requests
  <2> QED  BY <1>2, <2>1, <2>2
<1>3. CASE status[c] = "PENDING_STATUS" /\ Aside
  BY <1>a, <1>3, AsideFrame
<1>4. ASSUME status[c] = "PENDING_STATUS", NEW d \in Conns, ClientStep(d)
      PROVE  owed'[c] > 0 \/ ~None(inbox'[c], Answers)
  <2>1. CASE d # c
    BY <1>a, <1>4, <2>1, ClientFrame
  <2>2. ASSUME d = c, NEW m \in ClientKinds, inbox'[c] = Append(inbox[c], m),
               m \in Answers \/ UNCHANGED owed
        PROVE  owed'[c] > 0 \/ ~None(inbox'[c], Answers)
    BY <1>a, <1>4, <2>2, NoneAppend
  <2>3. CASE d = c /\ inbox'[c] = inbox[c] /\ UNCHANGED owed
    BY <1>4, <2>3
  <2>4. CASE d = c /\ ClientAcks(c)
    <3>1. \/ inbox'[c] = inbox[c] \o <<"STATUS_GOOD">>
          \/ inbox'[c] = inbox[c] \o <<"STATUS_GOOD", "OTHER">>
      BY <1>a, <2>4 DEF ClientAcks, Arrives
    <3>2. {"STATUS_GOOD", "OTHER"} \subseteq ClientKinds
      BY DEF ClientKinds
    <3>3. /\ inbox[c] \o <<"STATUS_GOOD">> = Append(inbox[c], "STATUS_GOOD")
          /\ inbox[c] \o <<"STATUS_GOOD", "OTHER">> = Append(Append(inbox[c], "STATUS_GOOD"), "OTHER")
      BY <1>a, <3>2, Concatenations
    <3> DEFINE s == Append(inbox[c], "STATUS_GOOD")
    <3>4. s \in Seq(ClientKinds) /\ ~None(s, Answers)
      BY <1>a, <3>2, NoneAppend DEF Answers
    <3>5. None(Append(s, "OTHER"), Answers) => None(s, Answers)
      <4> HIDE DEF s
      <4> QED  BY <3>2, <3>4, NoneAppend
    <3> QED  BY <3>1, <3>3, <3>4, <3>5
  <2>5. ASSUME d = c, NEW m \in {"REGISTER", "SEND"}, ClientSends(c, m)
        PROVE  owed'[c] > 0 \/ ~None(inbox'[c], Answers)
    <3>1. inbox'[c] = inbox[c] \o <<m>> /\ m \in ClientKinds /\ UNCHANGED owed
      BY <1>a, <2>5 DEF ClientSends, Arrives, ClientKinds
    <3>2. inbox'[c] = Append(inbox[c], m)
      BY <1>a, <3>1, Concatenations
    <3> QED  BY <2>2, <2>5, <3>1, <3>2
  <2>6. CASE d = c /\ ClientRefuses(c)
    <3>1. inbox'[c] = inbox[c] \o <<"STATUS_BAD">> /\ "STATUS_BAD" \in ClientKinds \cap Answers
      BY <1>a, <2>6 DEF ClientRefuses, Arrives, ClientKinds, Answers
    <3>2. inbox'[c] = Append(inbox[c], "STATUS_BAD")
      BY <1>a, <3>1, Concatenations
    <3> QED  BY <2>2, <2>6, <3>1, <3>2
  <2>7. Connect(c) \/ ClientLeaves(c) \/ UNCHANGED vars => inbox'[c] = inbox[c] /\ UNCHANGED owed
    BY DEF Connect, ClientLeaves, vars, socket, ghost
  <2> QED  BY <1>4, <2>1, <2>3, <2>4, <2>5, <2>6, <2>7, ClientEnvironment
<1> QED  BY <1>1, <1>2, <1>3, <1>4, ClientCases

LEMMA AckStep ==
  ASSUME ServerInv, ClientTyped, PromptInv, AckInv, [ClientNext]_cvars
  PROVE  AckInv'
<1>1. BaseInv /\ [Next]_vars
  BY ClientAllowed DEF ServerInv
<1>2. ASSUME NEW c \in Conns, Alive(c)', client'[c].main # "exited", ~client'[c].astray
      PROVE  owed'[c] = Unread(c)'
  <2>1. /\ Alive(c) /\ ~client[c].astray
        /\ client[c].main # "exited" => owed[c] = Unread(c)
    BY <1>1, <1>2, AliveBack, AstrayStays DEF AckInv
  <2>2. ASSUME NEW t \in Workers, Sends(t) PROVE owed'[c] = Unread(c)'
    BY <1>1, <1>2, <2>1, <2>2, DeliversServer DEF Sends
  <2>3. CASE Aside
    BY <1>1, <1>2, <2>1, <2>3, AsideFrame DEF Unread
  <2>4. ASSUME NEW d \in Conns, ClientStep(d), d # c PROVE owed'[c] = Unread(c)'
    BY <1>1, <1>2, <2>1, <2>4, ClientFrame DEF Unread
  <2>5. CASE ClientStep(c)
    <3>1. client[c].main # "exited"
      BY <1>2, <2>5 DEF ClientStep, SetupSocket, RegisterClient, TestState, SendSend, SendLost,
         SetPending, UserLeaves, HandleStat, HandleDeliver, Misread, ServerGone, MainAt, Incoming, Running
    <3> QED  BY <1>2, <2>1, <2>5, <3>1, DeliversOwn
  <2> QED  BY <2>2, <2>3, <2>4, <2>5, ClientCases
<1>3. ASSUME NEW c \in Conns, status'[c] = "PENDING_STATUS"
      PROVE  owed'[c] > 0 \/ ~None(inbox'[c], Answers)
  BY <1>3, AckKept DEF AckInv
<1> QED  BY <1>2, <1>3 DEF AckInv

LEMMA AckInit == ClientInit => AckInv
<1>1. SeqCount(<< >>, {"DELIVER"}) = 0
  BY FS_EmptySet DEF SeqCount, Count
<1> QED  BY <1>1 DEF ClientInit, Init, AckInv, Unread

(* handle_deliver of client.py and rpchat_conn_info_submit_msg agree about *)
(* the DELIVERs: while the client reads whole messages, those not answered *)
(* are those not read; and however it reads, a connection that the server  *)
(* keeps in PENDING_STATUS has an answer to come, or one to read, of code  *)
(* 0 or 1.  The server does not wait for nothing.                          *)
THEOREM AcksAreComing == ClientSpec => []AckComing
<1>1. ServerInv /\ ClientTyped /\ PromptInv /\ AckInv /\ [ClientNext]_cvars => AckInv'
  BY AckStep
<1>2. ServerInv /\ ClientTyped /\ PromptInv /\ [ClientNext]_cvars => PromptInv'
  BY PromptStep
<1>3. ClientSpec => []AckInv
  BY <1>1, <1>2, AckInit, PromptInit, TypedHolds, ServerHolds, PTL DEF ClientSpec
<1>4. AckInv => AckComing
  <2> SUFFICES ASSUME AckInv, NEW c \in Conns, Connected(c), client[c].main # "exited"
               PROVE  /\ ~client[c].astray => owed[c] = InTransit(c, "DELIVER")
                      /\ status[c] = "PENDING_STATUS" =>
                           \/ owed[c] > 0
                           \/ \E i \in DOMAIN inbox[c] : inbox[c][i] \in Answers
    BY DEF AckComing, Answers
  <2>1. {i \in DOMAIN outbox[c] : outbox[c][i] = "DELIVER"}
          = {i \in DOMAIN outbox[c] : outbox[c][i] \in {"DELIVER"}}
    OBVIOUS
  <2>2. ~client[c].astray => owed[c] = InTransit(c, "DELIVER")
    BY <2>1 DEF AckInv, Alive, Unread, SeqCount, InTransit
  <2>3. status[c] = "PENDING_STATUS" =>
          owed[c] > 0 \/ \E i \in DOMAIN inbox[c] : inbox[c][i] \in Answers
    BY DEF AckInv, None
  <2> QED  BY <2>2, <2>3
<1> QED  BY <1>3, <1>4, PTL
=============================================================================
