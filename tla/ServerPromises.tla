--------------------------- MODULE ServerPromises ---------------------------
(***************************************************************************)
(* What ChatServer promises each client.  Every step is, for each          *)
(* connection, a transition of the state diagram of README.md, one of the  *)
(* four departures from it that ConnProtocol names, or none                *)
(* (DepartsAsListed).                                                      *)
(*                                                                         *)
(* The steps that change conn_status are those of ServerProtocol (Moves);  *)
(* that no STATUS is sent in SEND_MSG is the outbox of ServerCounts, and   *)
(* that the socket is open at every transition but the last is             *)
(* SocketClosedOnce with the ownership of mutex_conn.                      *)
(*                                                                         *)
(* Two more: how many DELIVERs a client has to acknowledge at a time       *)
(* (WaitForStatus, invariant WaitInv), and what alone makes the server     *)
(* deaf to a client (ListeningKept).                                       *)
(***************************************************************************)
EXTENDS ServerCounts

(* A worker that has mutex_conn finds the socket open until it closed it.  *)
LEMMA OwnerOpen ==
  ASSUME BaseInv, Owners, SocketClosedOnce, NEW t \in Workers, th[t].pc \in Locked
  PROVE  /\ Conn(t) \in Conns
         /\ th[t].pc = "del" => ~open[Conn(t)]
         /\ th[t].pc # "del" => (open[Conn(t)] <=> status[Conn(t)] # "CLOSING")
<1>1. Conn(t) \in Conns /\ mem[Conn(t)] # "none"
  BY HasTask DEF WithTask, BaseInv, InUse, Threads, Conn
<1>2. open[Conn(t)] <=> /\ status[Conn(t)] # "CLOSING"
                        /\ \A u \in Workers : th[u].pc = "del" => th[u].task.conn # Conn(t)
  BY <1>1 DEF SocketClosedOnce
<1>3. lock[Conn(t)] = t
  BY DEF Owners, Place, Locked
<1>4. ASSUME NEW u \in Workers, th[u].pc = "del", th[u].task.conn = Conn(t) PROVE u = t
  BY <1>3, <1>4 DEF Owners, Place, Locked, Conn
<1> QED  BY <1>1, <1>2, <1>4 DEF Conn

(* A STATUS is sent in SEND_STAT only: SEND_MSG has no STATUS task.        *)
LEMMA StatusInSendStat ==
  ASSUME BaseInv, OutboxInv, NEW t \in Workers, SendStatus(t)
  PROVE  status[Conn(t)] = "SEND_STAT"
<1>1. th[t].pc = "proc" /\ IsOut(t) /\ IsStatus(t) /\ status[Conn(t)] \in {"SEND_STAT", "SEND_MSG"}
  BY DEF SendStatus, Sending, In, At, IsStatus
<1>2. Conn(t) \in Conns /\ th[t].task \in Replies(Conn(t))
  BY <1>1, OutboundKind
<1>3. Unsent(Replies(Conn(t))) > 0
  BY <1>1, <1>2, HoldingPositive
<1>4. CASE status[Conn(t)] = "SEND_MSG"
  <2>1. Unsent(Replies(Conn(t))) = 0
    BY <1>2, <1>4 DEF OutboxInv, Outbox
  <2> QED  BY <1>3, <2>1
<1> QED  BY <1>1, <1>4
-----------------------------------------------------------------------------
(* What a step does to what the diagram does not see as one transition.    *)

LEMMA StatusAlone ==
  ASSUME BaseInv, [Next]_vars, NEW c \in Conns, status'[c] # status[c]
  PROVE  /\ registered'[c] = registered[c] /\ open'[c] = open[c]
         /\ \/ awaiting'[c] = awaiting[c] /\ owed'[c] = owed[c]
            \/ \E t \in Workers : Conn(t) = c /\ (SendStatus(t) \/ SendDeliver(t))
<1>1. registered'[c] = registered[c]
  BY NameWriters DEF SetUsername, TryLock, BufferFails, Tick
<1>2. open'[c] = open[c]
  BY SocketWriters DEF ProcError, HandleNewConnection, ConnectionNoMemory, ConnectionUnwatched, conn
<1>3. \/ awaiting'[c] = awaiting[c] /\ owed'[c] = owed[c]
      \/ \E t \in Workers : Conn(t) = c /\ (SendStatus(t) \/ SendDeliver(t))
  <2>1. ASSUME NEW t \in Workers, SetUsername(t) \/ BroadcastDeliver(t)
        PROVE  FALSE
    BY <2>1 DEF SetUsername, BroadcastDeliver, conn
  <2>2. ASSUME NEW t \in Workers, SendStatus(t) \/ SendDeliver(t)
        PROVE  Conn(t) = c
    BY <2>2 DEF SendStatus, SendDeliver, SetStatus, BaseInv, ConnTyped
  <2>3. ASSUME NEW d \in Conns, NEW m, ClientAcks(d) \/ ClientRefuses(d) \/ ClientSends(d, m)
        PROVE  FALSE
    BY <2>3 DEF ClientAcks, ClientRefuses, ClientSends, Arrives, conn
  <2>4. ASSUME NEW t \in Workers, RecvStatus(t) \/ BroadcastDone(t)
        PROVE  UNCHANGED <<awaiting, owed>>
    BY <2>4 DEF RecvStatus, BroadcastDone
  <2> QED  BY <2>1, <2>2, <2>3, <2>4, GhostWriters
<1> QED  BY <1>1, <1>2, <1>3

(* The transitions of conn_status.                                         *)
LEMMA DiagramMoves ==
  ASSUME BaseInv, Owners, StatusAt, SocketClosedOnce, OutboxInv, [Next]_vars,
         NEW c \in Conns, status'[c] # status[c]
  PROVE  Protocol(c)!Diagram \/ Protocol(c)!Departures
<1>1. PICK t \in Workers : Conn(t) = c /\ th[t].pc \in Locked /\ Moves(t, status[c], status'[c])
  BY StatusMoves
<1>2. /\ th[t].pc = "del" => ~open[c]
      /\ th[t].pc # "del" => (open[c] <=> status[c] # "CLOSING")
      /\ th[t].pc = "del" => status[c] = "ERR"
  BY <1>1, OwnerOpen DEF StatusAt, StatusFits, Place
<1>3. registered'[c] = registered[c] /\ open'[c] = open[c]
  BY StatusAlone
<1>4. ASSUME NEW u \in Workers, SendStatus(u), Conn(u) = c
      PROVE  Protocol(c)!Answer
  <2>1. status[c] = "SEND_STAT" /\ In(u, {"SEND_STAT"})
    BY <1>4, StatusInSendStat DEF SendStatus, Sending, In
  <2>2. status'[c] = "AVAILABLE" /\ awaiting'[c] = FALSE /\ owed'[c] = owed[c]
    BY <1>4, <2>1 DEF SendStatus, SetStatus, BaseInv, ConnTyped, GhostTyped
  <2> QED  BY <1>2, <1>3, <2>1, <2>2 DEF Protocol!Answer, Protocol!Move
<1>5. ASSUME NEW u \in Workers, SendDeliver(u), Conn(u) = c
      PROVE  Protocol(c)!Deliver
  <2>1. status[c] = "SEND_MSG"
    BY <1>5 DEF SendDeliver, Sending, In
  <2>2. status'[c] = "PENDING_STATUS" /\ awaiting'[c] = awaiting[c] /\ owed'[c] = owed[c] + 1
    BY <1>5 DEF SendDeliver, SetStatus, BaseInv, ConnTyped, GhostTyped
  <2> QED  BY <1>2, <1>3, <2>1, <2>2 DEF Protocol!Deliver, Protocol!Move
<1>6. CASE \E u \in Workers : Conn(u) = c /\ (SendStatus(u) \/ SendDeliver(u))
  BY <1>4, <1>5, <1>6 DEF Protocol!Diagram
<1>7. CASE \A u \in Workers : Conn(u) = c => ~SendStatus(u) /\ ~SendDeliver(u)
  <2>1. awaiting'[c] = awaiting[c] /\ owed'[c] = owed[c]
    BY <1>7, StatusAlone
  <2>2. CASE status[c] \notin {"ERR", "CLOSING"} /\ status'[c] = "ERR"
    <3>1. Protocol(c)!Fail
      BY <1>2, <1>3, <2>1, <2>2 DEF Protocol!Fail
    <3> QED  BY <3>1 DEF Protocol!Diagram
  <2>3. CASE status[c] \in {"PRE_REGISTER", "AVAILABLE"} /\ status'[c] = "SEND_STAT"
    <3>1. Protocol(c)!Owe \/ Protocol(c)!OweUnregistered
      BY <1>2, <1>3, <2>1, <2>3 DEF Protocol!Owe, Protocol!OweUnregistered, Protocol!Move
    <3> QED  BY <3>1 DEF Protocol!Diagram, Protocol!Departures
  <2>4. CASE status[c] \in {"PRE_REGISTER", "AVAILABLE"} /\ status'[c] = "SEND_MSG"
    <3>1. Protocol(c)!Announce \/ Protocol(c)!AnnounceEarly
      BY <1>2, <1>3, <2>1, <2>4 DEF Protocol!Announce, Protocol!AnnounceEarly, Protocol!Move
    <3> QED  BY <3>1 DEF Protocol!Diagram, Protocol!Departures
  <2>5. CASE status[c] = "PENDING_STATUS" /\ status'[c] = "AVAILABLE"
    <3>1. RecvStatus(t) \/ BroadcastDone(t)
      BY <1>1, <2>5 DEF Moves
    <3>2. CASE BroadcastDone(t)
      <4>1. inbox'[c] = inbox[c]
        BY <3>2 DEF BroadcastDone, socket
      <4>2. Protocol(c)!EndWait
        BY <1>2, <1>3, <2>1, <2>5, <4>1 DEF Protocol!EndWait, Protocol!Move
      <4> QED  BY <4>2 DEF Protocol!Departures
    <3>3. CASE RecvStatus(t)
      <4>1. /\ inbox[c] # << >> /\ inbox'[c] = Tail(inbox[c])
            /\ Head(inbox[c]) \in {"STATUS_GOOD", "REFUSED"}
        BY <1>1, <3>3 DEF RecvStatus, Receives, MsgType, BaseInv, SocketTyped
      <4>2. Protocol(c)!Acknowledged \/ Protocol(c)!EndWait
        BY <1>2, <1>3, <2>1, <2>5, <4>1 DEF Protocol!Acknowledged, Protocol!EndWait,
           Protocol!Takes, Protocol!Move
      <4> QED  BY <4>2 DEF Protocol!Diagram, Protocol!Departures
    <3> QED  BY <3>1, <3>2, <3>3
  <2>6. CASE status[c] = "ERR" /\ status'[c] = "CLOSING" /\ CloseEpollDel(t)
    <3>1. ~open[c]
      BY <1>2, <2>6 DEF CloseEpollDel, At
    <3>2. Protocol(c)!Closing \/ Protocol(c)!ClosingEarly
      BY <1>3, <2>1, <2>6, <3>1 DEF Protocol!Closing, Protocol!ClosingEarly
    <3> QED  BY <3>2 DEF Protocol!Diagram, Protocol!Departures
  <2> QED  BY <1>1, <1>7, <2>2, <2>3, <2>4, <2>5, <2>6 DEF Moves
<1> QED  BY <1>6, <1>7

(* The steps that leave conn_status alone.                                 *)
LEMMA DiagramRest ==
  ASSUME BaseInv, Owners, StatusAt, SocketClosedOnce, OutboxInv, [Next]_vars,
         NEW c \in Conns, status'[c] = status[c]
  PROVE  [Protocol(c)!Diagram]_(Protocol(c)!pvars)
<1> DEFINE Same == registered'[c] = registered[c] /\ open'[c] = open[c]
                   /\ awaiting'[c] = awaiting[c] /\ owed'[c] = owed[c]
           Goal == Protocol(c)!Diagram \/ Same
<1>a. /\ registered \in [Conns -> BOOLEAN] /\ open \in [Conns -> BOOLEAN]
      /\ awaiting \in [Conns -> BOOLEAN] /\ owed \in [Conns -> Nat] /\ status \in [Conns -> Status]
  BY DEF BaseInv, ConnTyped, SocketTyped, GhostTyped
<1>1. ASSUME NEW t \in Workers, SetUsername(t) PROVE Goal
  <2>1. /\ th[t].pc = "name" /\ registered' = [registered EXCEPT ![Conn(t)] = TRUE]
        /\ UNCHANGED <<open, awaiting, owed>>
    BY <1>1 DEF SetUsername, At, socket
  <2>2. CASE Conn(t) = c
    <3>1. status[c] = "PRE_REGISTER" /\ open[c]
      BY <2>1, <2>2, OwnerOpen DEF StatusAt, StatusFits, Place, Locked
    <3> QED  BY <1>a, <2>1, <2>2, <3>1 DEF Protocol!Diagram, Protocol!Register
  <2>3. CASE Conn(t) # c
    BY <1>a, <2>1, <2>3
  <2> QED  BY <2>2, <2>3
<1>2. ASSUME NEW t \in Workers, ProcError(t) PROVE Goal
  <2>1. /\ status[Conn(t)] = "ERR" /\ open' = [open EXCEPT ![Conn(t)] = FALSE]
        /\ UNCHANGED <<registered, awaiting, owed>>
    BY <1>2 DEF ProcError, In, conn, ghost
  <2> QED  BY <1>a, <2>1 DEF Protocol!Diagram, Protocol!Close
<1>3. ASSUME NEW d \in Conns,
             HandleNewConnection(d) \/ ConnectionNoMemory(d) \/ ConnectionUnwatched(d)
      PROVE  Goal
  <2>1. /\ peer[d] = "backlog" /\ open' = [open EXCEPT ![d] = TRUE]
        /\ UNCHANGED <<registered, awaiting, owed>>
    BY <1>3 DEF HandleNewConnection, ConnectionNoMemory, ConnectionUnwatched, conn, ghost
  <2>2. ~open[d] /\ status[d] = "PRE_REGISTER"
    BY <2>1 DEF BaseInv, Fresh
  <2> QED  BY <1>a, <2>1, <2>2 DEF Protocol!Diagram, Protocol!Accept
<1>4. ASSUME NEW d \in Conns, NEW m, ClientSends(d, m) PROVE Goal
  <2>1. UNCHANGED <<registered, open, owed>>
    BY <1>4 DEF ClientSends, Arrives, conn
  <2>2. awaiting'[c] = awaiting[c] \/ awaiting'[c] = TRUE
    <3>1. awaiting' = [awaiting EXCEPT ![d] = awaiting[d] \/ m \in {"REGISTER", "SEND"}]
      BY <1>4 DEF ClientSends
    <3>2. CASE awaiting[d] \/ m \in {"REGISTER", "SEND"}
      BY <1>a, <3>1, <3>2
    <3>3. CASE ~(awaiting[d] \/ m \in {"REGISTER", "SEND"})
      BY <1>a, <3>1, <3>3
    <3> QED  BY <3>2, <3>3
  <2>3. owed'[c] >= 0
    BY <1>a, <2>1
  <2>4. Protocol(c)!ClientTalks
    BY <2>1, <2>2, <2>3, Zenon DEF Protocol!ClientTalks
  <2> QED  BY <2>4 DEF Protocol!Diagram
<1>5. ASSUME NEW d \in Conns, ClientAcks(d) \/ ClientRefuses(d) PROVE Goal
  <2>1. /\ owed[d] > 0 /\ owed' = [owed EXCEPT ![d] = @ - 1]
        /\ UNCHANGED <<registered, open, awaiting>>
    BY <1>5 DEF ClientAcks, ClientRefuses, Arrives, conn
  <2> QED  BY <1>a, <2>1 DEF Protocol!Diagram, Protocol!ClientTalks
<1>6. ASSUME NEW t \in Workers, SendStatus(t) \/ SendDeliver(t) PROVE Goal
  <2>1. th[t].pc = "proc" /\ status[Conn(t)] \in {"SEND_STAT", "SEND_MSG"}
    BY <1>6 DEF SendStatus, SendDeliver, Sending, In, At
  <2>2. status' = [status EXCEPT ![Conn(t)] = "AVAILABLE"]
        \/ status' = [status EXCEPT ![Conn(t)] = "PENDING_STATUS"]
    BY <1>6 DEF SendStatus, SendDeliver, SetStatus
  <2>3. Conn(t) # c
    BY <1>a, <2>1, <2>2
  <2>4. UNCHANGED <<registered, open>>
    BY <1>6 DEF SendStatus, SendDeliver
  <2>5. awaiting'[c] = awaiting[c] /\ owed'[c] = owed[c]
    BY <1>a, <1>6, <2>3 DEF SendStatus, SendDeliver
  <2> QED  BY <2>4, <2>5
<1>7. ASSUME \A t \in Workers : /\ ~SetUsername(t) /\ ~ProcError(t)
                                /\ ~SendStatus(t) /\ ~SendDeliver(t),
             \A d \in Conns : /\ ~HandleNewConnection(d) /\ ~ConnectionNoMemory(d)
                              /\ ~ConnectionUnwatched(d) /\ ~ClientAcks(d) /\ ~ClientRefuses(d)
                              /\ \A m \in ClientMsgs : ~ClientSends(d, m)
      PROVE  Goal
  <2>1. UNCHANGED registered
    BY <1>7, NameWriters DEF TryLock, BufferFails, Tick
  <2>2. UNCHANGED open
    BY <1>7, SocketWriters
  <2>3. UNCHANGED <<awaiting, owed>>
    BY <1>7, GhostWriters DEF BroadcastDeliver, RecvStatus, BroadcastDone
  <2>4. Same
    BY <2>1, <2>2, <2>3
  <2> QED  BY <2>4
<1>8. Goal
  <2> HIDE DEF Goal
  <2> QED  BY <1>1, <1>2, <1>3, <1>4, <1>5, <1>6, <1>7
<1> QED  BY <1>8 DEF Protocol!pvars

(* Every connection takes only transitions of README.md's diagram and the  *)
(* four departures, with what is sent and closed at each, whatever the     *)
(* order in which the workers of rpchat_task_conn_proc_event run its       *)
(* tasks: for any number of clients and workers, failing sends,            *)
(* allocations and accepts included.                                       *)
THEOREM DeparturesAreListed == Spec => DepartsAsListed
<1> DEFINE Listed == \A c \in Conns :
                       [Protocol(c)!Diagram \/ Protocol(c)!Departures]_(Protocol(c)!pvars)
<1>1. Init => \A c \in Conns : Protocol(c)!Init
  BY DEF Init, Protocol!Init
<1>2. BaseInv /\ Owners /\ StatusAt /\ SocketClosedOnce /\ OutboxInv /\ [Next]_vars => Listed
  BY DiagramMoves, DiagramRest
<1> HIDE DEF Listed
<1>3. Spec => [][Listed]_vars
  BY <1>2, ServerInductive, OwnersHold, SocketsClosedOnce, OutboxHolds, PTL DEF Spec
<1> USE DEF Listed
<1> QED  BY <1>1, <1>3, PTL DEF Spec, DepartsAsListed
-----------------------------------------------------------------------------
(* The wait for a client's STATUS.                                         *)

(* A connection that waits has one DELIVER out, whose acknowledgement is   *)
(* on its way, unread or not yet sent; one that does not wait has none,    *)
(* but for those whose wait something else has ended.                      *)
Acks(c)  == SeqCount(inbox[c], {"STATUS_GOOD"})
Waits(c) == owed[c] + Acks(c)
              <= crossed[c] + One(status[c], {"PENDING_STATUS", "ERR", "CLOSING"})
WaitInv  == \A c \in Conns : Waits(c)

(* What arrives: at most one acknowledgement.                              *)
LEMMA AcksArrive ==
  ASSUME NEW s \in Seq(MsgKinds), NEW m \in MsgKinds
  PROVE  /\ SeqCount(s \o <<m>>, {"STATUS_GOOD"})
              = SeqCount(s, {"STATUS_GOOD"}) + One(m, {"STATUS_GOOD"})
         /\ SeqCount(s \o <<m, "OTHER">>, {"STATUS_GOOD"})
              = SeqCount(s, {"STATUS_GOOD"}) + One(m, {"STATUS_GOOD"})
<1>1. "OTHER" \in MsgKinds /\ Append(s, m) \in Seq(MsgKinds)
  BY DEF MsgKinds
<1>2. s \o <<m>> = Append(s, m) /\ s \o <<m, "OTHER">> = Append(Append(s, m), "OTHER")
  OBVIOUS
<1>3. SeqCount(Append(s, m), {"STATUS_GOOD"})
        = SeqCount(s, {"STATUS_GOOD"}) + One(m, {"STATUS_GOOD"})
  BY SeqCountAppend
<1>4. SeqCount(Append(Append(s, m), "OTHER"), {"STATUS_GOOD"})
        = SeqCount(Append(s, m), {"STATUS_GOOD"}) + One("OTHER", {"STATUS_GOOD"})
  BY <1>1, SeqCountAppend
<1>5. One("OTHER", {"STATUS_GOOD"}) = 0 /\ SeqCount(Append(s, m), {"STATUS_GOOD"}) \in Nat
  BY <1>1, SeqCountType DEF One
<1>6. SeqCount(Append(Append(s, m), "OTHER"), {"STATUS_GOOD"})
        = SeqCount(Append(s, m), {"STATUS_GOOD"})
  BY ONLY <1>4, <1>5
<1> QED  BY ONLY <1>2, <1>3, <1>6

LEMMA WaitTypes ==
  ASSUME BaseInv, NEW c \in Conns
  PROVE  /\ inbox[c] \in Seq(MsgKinds) /\ Acks(c) \in Nat
         /\ owed[c] \in Nat /\ crossed[c] \in Nat /\ status[c] \in Status
  BY SeqCountType DEF BaseInv, SocketTyped, GhostTyped, ConnTyped, Acks

(* A step of a worker that reads a message of its connection.              *)
LEMMA WaitsRead ==
  ASSUME BaseInv, BaseInv', WaitInv, NEW t \in Workers, NEW c \in Conns,
         RecvRegister(t) \/ RecvSend(t) \/ RecvBad(t) \/ RecvStatus(t)
  PROVE  Waits(c)'
<1>a. /\ Waits(c) /\ inbox \in [Conns -> Seq(MsgKinds)]
      /\ status \in [Conns -> Status] /\ crossed \in [Conns -> Nat]
  BY DEF WaitInv, BaseInv, SocketTyped, ConnTyped, GhostTyped
<1>b. Acks(c) \in Nat /\ owed[c] \in Nat /\ crossed[c] \in Nat /\ inbox[c] \in Seq(MsgKinds)
  BY WaitTypes
<1>1. /\ inbox[Conn(t)] # << >> /\ inbox' = [inbox EXCEPT ![Conn(t)] = Tail(@)]
      /\ UNCHANGED owed
  BY DEF RecvRegister, RecvSend, RecvBad, RecvStatus, Receives, Fail, ghost
<1>2. \/ UNCHANGED <<status, crossed>>
      \/ status' = [status EXCEPT ![Conn(t)] = "ERR"] /\ UNCHANGED crossed
      \/ /\ status[Conn(t)] = "PENDING_STATUS"
         /\ status' = [status EXCEPT ![Conn(t)] = "AVAILABLE"]
         /\ \/ Head(inbox[Conn(t)]) = "STATUS_GOOD" /\ UNCHANGED crossed
            \/ crossed' = [crossed EXCEPT ![Conn(t)] = @ + 1]
  BY DEF RecvRegister, RecvSend, RecvBad, RecvStatus, Receives, MsgType, Crosses, In,
     Fail, SetStatus, conn, ghost
<1>3. CASE Conn(t) # c
  <2>1. /\ inbox'[c] = inbox[c] /\ status'[c] = status[c] /\ crossed'[c] = crossed[c]
        /\ owed'[c] = owed[c]
    BY <1>a, <1>1, <1>2, <1>3
  <2> QED  BY <1>a, <2>1 DEF Waits, Acks
<1>4. CASE Conn(t) = c
  <2>1. inbox'[c] = Tail(inbox[c]) /\ owed'[c] = owed[c] /\ inbox[c] # << >>
    BY <1>a, <1>1, <1>4
  <2>2. Acks(c)' = Acks(c) - One(Head(inbox[c]), {"STATUS_GOOD"})
    BY <1>b, <2>1, SeqCountTail DEF Acks
  <2>3. One(Head(inbox[c]), {"STATUS_GOOD"}) \in {0, 1}
    BY DEF One
  <2>4. CASE UNCHANGED <<status, crossed>>
    BY <1>a, <1>b, <2>1, <2>2, <2>3, <2>4 DEF Waits, One
  <2>5. CASE status' = [status EXCEPT ![Conn(t)] = "ERR"] /\ UNCHANGED crossed
    <3>1. status'[c] = "ERR" /\ crossed'[c] = crossed[c]
      BY <1>a, <1>4, <2>5
    <3> QED  BY <1>a, <1>b, <2>1, <2>2, <2>3, <3>1 DEF Waits, One
  <2>6. CASE /\ status[Conn(t)] = "PENDING_STATUS"
             /\ status' = [status EXCEPT ![Conn(t)] = "AVAILABLE"]
             /\ \/ Head(inbox[Conn(t)]) = "STATUS_GOOD" /\ UNCHANGED crossed
                \/ crossed' = [crossed EXCEPT ![Conn(t)] = @ + 1]
    <3>1. /\ status[c] = "PENDING_STATUS" /\ status'[c] = "AVAILABLE"
          /\ \/ One(Head(inbox[c]), {"STATUS_GOOD"}) = 1 /\ crossed'[c] = crossed[c]
             \/ crossed'[c] = crossed[c] + 1
      BY <1>a, <1>4, <2>6 DEF One
    <3> QED  BY <1>a, <1>b, <2>1, <2>2, <2>3, <3>1 DEF Waits, One
  <2> QED  BY <1>2, <2>4, <2>5, <2>6
<1> QED  BY <1>3, <1>4

LEMMA WaitsTalk ==
  ASSUME BaseInv, WaitInv, NEW c \in Conns, NEW d \in Conns,
         ClientAcks(d) \/ ClientRefuses(d) \/ \E m \in ClientMsgs : ClientSends(d, m)
  PROVE  Waits(c)'
<1>a. /\ Waits(c) /\ inbox \in [Conns -> Seq(MsgKinds)] /\ UNCHANGED status
      /\ owed \in [Conns -> Nat] /\ crossed \in [Conns -> Nat]
  BY DEF WaitInv, BaseInv, SocketTyped, GhostTyped, ClientAcks, ClientRefuses, ClientSends,
     Arrives, conn
<1>b. /\ Acks(c) \in Nat /\ owed[c] \in Nat /\ crossed[c] \in Nat
      /\ inbox[c] \in Seq(MsgKinds) /\ One(status[c], {"PENDING_STATUS", "ERR", "CLOSING"}) \in Nat
  BY WaitTypes DEF One
<1>1. CASE d # c
  <2>1. inbox'[c] = inbox[c] /\ owed'[c] = owed[c] /\ crossed'[c] = crossed[c]
    BY <1>a, <1>1 DEF ClientAcks, ClientRefuses, ClientSends, Crosses, Arrives
  <2> QED  BY <1>a, <2>1 DEF Waits, Acks
<1>2. CASE d = c /\ (ClientAcks(c) \/ ClientRefuses(c))
  <2>1. /\ owed[c] > 0 /\ owed'[c] = owed[c] - 1 /\ crossed'[c] = crossed[c]
        /\ \/ inbox'[c] = inbox[c] \o <<"STATUS_GOOD", "OTHER">>
           \/ inbox'[c] = inbox[c] \o <<"STATUS_GOOD">>
           \/ inbox'[c] = inbox[c] \o <<"STATUS_BAD">>
    BY <1>a, <1>2 DEF ClientAcks, ClientRefuses, Arrives
  <2>2. "STATUS_GOOD" \in MsgKinds /\ "STATUS_BAD" \in MsgKinds
    BY DEF MsgKinds
  <2>3. \/ SeqCount(inbox'[c], {"STATUS_GOOD"}) = Acks(c) + One("STATUS_GOOD", {"STATUS_GOOD"})
           \/ SeqCount(inbox'[c], {"STATUS_GOOD"}) = Acks(c) + One("STATUS_BAD", {"STATUS_GOOD"})
    BY <1>b, <2>1, <2>2, AcksArrive DEF Acks
  <2>4. Acks(c)' \in {Acks(c), Acks(c) + 1}
    BY <1>b, <2>3 DEF Acks, One
  <2> QED  BY <1>a, <1>b, <2>1, <2>4 DEF Waits
<1>3. ASSUME d = c, NEW m \in ClientMsgs, ClientSends(c, m) PROVE Waits(c)'
  <2>1. /\ m \in MsgKinds /\ inbox'[c] = inbox[c] \o <<m>> /\ owed'[c] = owed[c]
        /\ crossed'[c] = crossed[c] + One(m, {"STATUS_GOOD"})
    BY <1>a, <1>b, <1>3, ClientAssumption DEF ClientSends, Crosses, Arrives, One
  <2>2. Acks(c)' = Acks(c) + One(m, {"STATUS_GOOD"}) /\ One(m, {"STATUS_GOOD"}) \in Nat
    BY <1>b, <2>1, AcksArrive DEF Acks, One
  <2> QED  BY <1>a, <1>b, <2>1, <2>2 DEF Waits
<1> QED  BY <1>1, <1>2, <1>3

LEMMA WaitStep ==
  ASSUME BaseInv, BaseInv', StatusAt, WaitInv, [Next]_vars
  PROVE  WaitInv'
<1> SUFFICES ASSUME NEW c \in Conns PROVE Waits(c)'
  BY DEF WaitInv
<1>a. /\ Waits(c) /\ owed \in [Conns -> Nat] /\ status \in [Conns -> Status]
      /\ crossed \in [Conns -> Nat]
  BY DEF WaitInv, BaseInv, GhostTyped, ConnTyped
<1>b. Acks(c) \in Nat /\ owed[c] \in Nat /\ crossed[c] \in Nat
  BY WaitTypes
<1>1. ASSUME NEW t \in Workers, RecvRegister(t) \/ RecvSend(t) \/ RecvBad(t) \/ RecvStatus(t)
      PROVE  Waits(c)'
  BY <1>1, WaitsRead
<1>2. ASSUME NEW d \in Conns,
             ClientAcks(d) \/ ClientRefuses(d) \/ \E m \in ClientMsgs : ClientSends(d, m)
      PROVE  Waits(c)'
  BY <1>2, WaitsTalk
<1>3. ASSUME NEW t \in Workers, SendDeliver(t) PROVE Waits(c)'
  <2>1. /\ status[Conn(t)] = "SEND_MSG" /\ status' = [status EXCEPT ![Conn(t)] = "PENDING_STATUS"]
        /\ owed' = [owed EXCEPT ![Conn(t)] = @ + 1] /\ UNCHANGED <<inbox, crossed>>
    BY <1>3 DEF SendDeliver, SetStatus, Sending, In
  <2>2. CASE Conn(t) = c
    <3>1. status[c] = "SEND_MSG" /\ status'[c] = "PENDING_STATUS" /\ owed'[c] = owed[c] + 1
      BY <1>a, <2>1, <2>2
    <3> QED  BY <1>a, <1>b, <2>1, <3>1 DEF Waits, Acks, One
  <2>3. CASE Conn(t) # c
    <3>1. status'[c] = status[c] /\ owed'[c] = owed[c]
      BY <1>a, <2>1, <2>3
    <3> QED  BY <1>a, <2>1, <3>1 DEF Waits, Acks
  <2> QED  BY <2>2, <2>3
<1>4. ASSUME NEW t \in Workers, BroadcastDone(t) PROVE Waits(c)'
  <2>1. /\ UNCHANGED <<inbox, owed>>
        /\ \/ UNCHANGED <<status, crossed>>
           \/ /\ status' = [status EXCEPT ![Conn(t)] = "AVAILABLE"]
              /\ crossed' = [crossed EXCEPT ![Conn(t)] = @ + 1]
    BY <1>4 DEF BroadcastDone, SetStatus, Crosses, socket
  <2>2. \/ status'[c] = status[c] /\ crossed'[c] = crossed[c]
        \/ status'[c] = "AVAILABLE" /\ crossed'[c] = crossed[c] + 1
    BY <1>a, <2>1
  <2> QED  BY <1>a, <1>b, <2>1, <2>2 DEF Waits, Acks, One
<1>5. ASSUME \A t \in Workers : /\ ~RecvRegister(t) /\ ~RecvSend(t) /\ ~RecvBad(t)
                                /\ ~RecvStatus(t) /\ ~SendDeliver(t) /\ ~BroadcastDone(t),
             \A d \in Conns : /\ ~ClientAcks(d) /\ ~ClientRefuses(d)
                              /\ \A m \in ClientMsgs : ~ClientSends(d, m)
      PROVE  Waits(c)'
  <2>1. UNCHANGED inbox
    BY <1>5, InboxWriters
  <2>2. UNCHANGED <<owed, crossed>>
    BY <1>5, GhostWriters DEF SetUsername, BroadcastDeliver, SendStatus
  <2>3. status[c] \in {"PENDING_STATUS", "ERR", "CLOSING"}
          => status'[c] \in {"PENDING_STATUS", "ERR", "CLOSING"}
    BY <1>5, StatusMoves DEF Moves
  <2> QED  BY <1>a, <1>b, <2>1, <2>2, <2>3 DEF Waits, Acks, One
<1> QED  BY <1>1, <1>2, <1>3, <1>4, <1>5

(* rpchat_task_conn_proc_event sends the next DELIVER after the STATUS for *)
(* the one before: a client never has more than one to acknowledge, but    *)
(* for one more each time that a message of its own other than a STATUS    *)
(* ended the wait, or that it sent a STATUS for nothing.                   *)
THEOREM WaitsForStatus == Spec => []WaitForStatus
<1>1. Init => WaitInv
  <2> SUFFICES ASSUME Init, NEW c \in Conns PROVE Waits(c)
    BY DEF WaitInv
  <2>1. inbox[c] = << >> /\ owed[c] = 0 /\ crossed[c] = 0 /\ status[c] = "PRE_REGISTER"
    BY DEF Init
  <2>2. {i \in DOMAIN inbox[c] : inbox[c][i] \in {"STATUS_GOOD"}} = {}
    BY <2>1
  <2>3. Acks(c) = 0
    BY <2>2, FS_EmptySet DEF Acks, SeqCount, Count
  <2> QED  BY <2>1, <2>3 DEF Waits, One
<1>2. BaseInv /\ BaseInv' /\ StatusAt /\ WaitInv /\ [Next]_vars => WaitInv'
  BY WaitStep
<1>3. BaseInv /\ WaitInv => WaitForStatus
  <2> SUFFICES ASSUME BaseInv, WaitInv, NEW c \in Conns PROVE owed[c] <= 1 + crossed[c]
    BY DEF WaitForStatus
  <2>1. Acks(c) \in Nat /\ owed[c] \in Nat /\ crossed[c] \in Nat /\ Waits(c)
    BY WaitTypes DEF WaitInv
  <2> QED  BY <2>1 DEF Waits, One
<1> QED  BY <1>1, <1>2, <1>3, OwnersHold, ServerInductive, PTL DEF Spec
-----------------------------------------------------------------------------
(* The edges of epoll.                                                     *)

(* A closed descriptor leaves the set by itself.                           *)
ArmedOpen == \A c \in Conns : armed[c] => open[c]

(* The INBOUND tasks of a connection: queued, or in the hands of a worker. *)
ReadTasks(c) == {k \in Tasks : k.conn = c /\ k.type = "INBOUND"}
ReadHeld(l, c) == l.task \in ReadTasks(c) \/ (l.pc = "requeue" /\ l.out \in ReadTasks(c))
Reader(c) ==
  \/ \E i \in DOMAIN queue : queue[i] \in ReadTasks(c)
  \/ \E t \in Workers : ReadHeld(th[t], c)

(* Listening, with the tasks themselves instead of their number.           *)
Heard(c) ==
  /\ Reads(c) => armed[c] \/ c \in batch \/ Reader(c) \/ Arming(c)
  /\ Serves(c) /\ armed[c] /\ inbox[c] # << >> => edge[c] \/ c \in batch
Deafened(c) == RemovedForAnother(c) \/ BatchDropped(c) \/ NotAllocated(c)

(* EPOLL_CTL_DEL removes the socket it is meant for, and another one only  *)
(* if that has the same number.                                            *)
LEMMA DelIsOwn ==
  ASSUME ArmedOpen, NEW c \in Conns, NEW d \in Conns, EpollDel(fd[d])
  PROVE  /\ armed'[c] => armed[c] /\ (edge'[c] <=> edge[c])
         /\ c = d => ~armed'[c]
         /\ armed[c] /\ fd[d] # fd[c] => armed'[c]
<1>1. /\ armed'[c] = (armed[c] /\ ~(open[c] /\ fd[c] = fd[d]))
      /\ edge'[c] = (armed[c] /\ ~(open[c] /\ fd[c] = fd[d]) /\ edge[c])
  BY DEF EpollDel
<1>2. armed[c] => open[c]
  BY DEF ArmedOpen
<1> QED  BY <1>1, <1>2

LEMMA ArmedOpenStep ==
  ASSUME BaseInv, Owners, StatusAt, SocketClosedOnce, ArmedOpen, [Next]_vars
  PROVE  ArmedOpen'
<1> SUFFICES ASSUME NEW c \in Conns, armed'[c] PROVE open'[c]
  BY DEF ArmedOpen
<1>a. /\ open \in [Conns -> BOOLEAN] /\ armed \in [Conns -> BOOLEAN]
      /\ armed[c] => open[c]
  BY DEF BaseInv, SocketTyped, ArmedOpen
<1>1. ASSUME NEW t \in Workers, ProcError(t) PROVE open'[c]
  <2>1. /\ open' = [open EXCEPT ![Conn(t)] = FALSE] /\ armed' = [armed EXCEPT ![Conn(t)] = FALSE]
    BY <1>1 DEF ProcError
  <2> QED  BY <1>a, <2>1
<1>2. ASSUME NEW t \in Workers, Rearm(t) PROVE open'[c]
  <2>1. UNCHANGED open /\ armed' = [armed EXCEPT ![Conn(t)] = TRUE] /\ th[t].pc = "arm"
    BY <1>2 DEF Rearm, EpollAdd, At
  <2>2. open[Conn(t)]
    BY <2>1, OwnerOpen DEF StatusAt, StatusFits, Place, Locked
  <2> QED  BY <1>a, <2>1, <2>2
<1>3. ASSUME NEW d \in Conns, HandleNewConnection(d) PROVE open'[c]
  <2>1. open' = [open EXCEPT ![d] = TRUE] /\ armed' = [armed EXCEPT ![d] = TRUE]
    BY <1>3 DEF HandleNewConnection, EpollAdd
  <2> QED  BY <1>a, <2>1
<1>4. ASSUME NEW d \in Conns, ConnectionNoMemory(d) \/ ConnectionUnwatched(d) PROVE open'[c]
  <2>1. open' = [open EXCEPT ![d] = TRUE] /\ UNCHANGED armed
    BY <1>4 DEF ConnectionNoMemory, ConnectionUnwatched
  <2> QED  BY <1>a, <2>1
<1>5. ASSUME NEW d \in Conns, EpollDel(fd[d]), UNCHANGED open PROVE open'[c]
  BY <1>a, <1>5 DEF EpollDel
<1>6. ASSUME UNCHANGED <<armed, open>> PROVE open'[c]
  BY <1>a, <1>6
<1>7. ASSUME NEW t \in Workers, CloseEpollDel(t) PROVE open'[c]
  <2>1. EpollDel(fd[Conn(t)]) /\ UNCHANGED open /\ Conn(t) \in Conns
    BY <1>7, HasTask DEF CloseEpollDel, At, WithTask, Locked
  <2> QED  BY <1>5, <2>1
<1>8. ASSUME NEW d \in Conns, HandleEvent(d) PROVE open'[c]
  BY <1>5, <1>8 DEF HandleEvent
<1>9. CASE EpollWait
  BY <1>6, <1>9 DEF EpollWait
<1>10. ASSUME NEW d \in Conns, NEW m, ClientAcks(d) \/ ClientRefuses(d) \/ ClientLeaves(d)
             \/ ClientSends(d, m)
       PROVE  open'[c]
  BY <1>6, <1>10 DEF ClientAcks, ClientRefuses, ClientLeaves, ClientSends, Arrives
<1>11. CASE UNCHANGED <<armed, edge>>
  BY <1>1, <1>3, <1>4, <1>6, <1>11, SocketWriters
<1> QED  BY <1>1, <1>2, <1>3, <1>7, <1>8, <1>9, <1>10, <1>11, EpollWriters

(* Once it shuts down, the main thread does nothing else.                  *)
LEMMA DrainStays ==
  ASSUME BaseInv, [Next]_vars, th[Main].pc = "drain"
  PROVE  th'[Main].pc = "drain"
<1>1. ASSUME NEW t \in Workers, Worker(t) PROVE th'[Main] = th[Main]
  BY <1>1, WorkerLocal, ServerAssumption DEF BaseInv, ThreadsOK, Threads
<1>2. CASE MainThread
  BY <1>2 DEF MainThread, EventThread, CountJob, EpollWait, EpollInterrupted, HandleEvent, HandleNewConnection,
     ConnectionNoMemory, ConnectionUnwatched, EventNoMemory, AcceptFails, HandleSigInt,
     HandleSigAlrm, AuditNext, AuditNoMemory, AuditDone, Shutdown, MainIs, At, Waiting
<1> QED  BY <1>1, <1>2, OthersLocal, NextCases

(* An event leaves the batch as an INBOUND task, or the server shuts down, *)
(* or the batch is dropped.                                                *)
LEMMA BatchLeaves ==
  ASSUME BaseInv, [Next]_vars, NEW c \in Conns, c \in batch, c \notin batch'
  PROVE  HandleEvent(c) \/ th'[Main].pc = "drain" \/ BatchDropped(c)
<1>a. c \notin {"server", "signal", "first"} /\ th \in [Threads -> Locals] /\ Main \in Threads
  BY ServerAssumption DEF BaseInv, ThreadsOK, Threads
<1>1. MainThread
  BY BatchWriters
<1>2. CASE HandleSigInt
  BY <1>a, <1>2 DEF HandleSigInt, Goto, Locals
<1>3. CASE HandleSigAlrm \/ \E d \in Conns : HandleNewConnection(d)
  BY <1>a, <1>3 DEF HandleSigAlrm, HandleNewConnection, Handled
<1>4. ASSUME NEW d \in Conns, HandleEvent(d) PROVE HandleEvent(c)
  BY <1>a, <1>4 DEF HandleEvent, Handled
<1>5. CASE EpollWait
  BY <1>5 DEF EpollWait, Waiting
<1>6. CASE \/ CountJob(Main) \/ EpollInterrupted \/ AuditNext \/ AuditDone \/ Shutdown
  BY <1>6 DEF CountJob, EpollInterrupted, AuditNext, AuditDone, Shutdown, event
<1>7. CASE \/ EventNoMemory \/ AcceptFails
           \/ \E d \in Conns : ConnectionNoMemory(d) \/ ConnectionUnwatched(d)
  BY <1>7 DEF BatchDropped
<1>8. CASE AuditNoMemory
  BY <1>a, <1>8 DEF AuditNoMemory, Locals
<1> QED  BY <1>1, <1>2, <1>3, <1>4, <1>5, <1>6, <1>7, <1>8 DEF MainThread, EventThread

(* What has arrived at a socket in the epoll set is known to epoll or to   *)
(* the main thread.                                                        *)
LEMMA EdgeStep ==
  ASSUME BaseInv, ArmedOpen, [Next]_vars, NEW c \in Conns, Heard(c), ~Deafened(c),
         Serves(c)', armed'[c], inbox'[c] # << >>
  PROVE  edge'[c] \/ c \in batch'
<1>0. th'[Main].pc # "drain" /\ th[Main].pc # "drain" /\ proc = "up"
  <2>1. th'[Main].pc # "drain" /\ proc' = "up"
    BY DEF Serves
  <2>2. th[Main].pc # "drain"
    BY <2>1, DrainStays
  <2>3. proc = "up"
    BY <2>1, ProcWriters
  <2> QED  BY <2>1, <2>2, <2>3
<1>k. ASSUME armed[c], inbox[c] # << >> PROVE edge[c] \/ c \in batch
  <2>1. mem[c] = "live"
    <3>1. mem[c] # "none"
      BY <1>k DEF BaseInv, Fresh
    <3>2. mem'[c] = "live"
      BY DEF Serves
    <3>3. ~HandleNewConnection(c) /\ ~ConnectionUnwatched(c)
      BY <3>1 DEF HandleNewConnection, ConnectionUnwatched, BaseInv, Fresh
    <3>4. mem \in [Conns -> {"none", "live", "dead", "freed"}]
      BY DEF BaseInv, ConnTyped
    <3> QED  BY <3>2, <3>3, <3>4, MemWriters DEF DestroyMutex, Unlink, HandleNewConnection,
             ConnectionUnwatched
  <2> QED  BY <1>0, <1>k, <2>1 DEF Heard, Serves
<1>a. /\ armed \in [Conns -> BOOLEAN] /\ edge \in [Conns -> BOOLEAN]
      /\ inbox \in [Conns -> Seq(MsgKinds)]
  BY DEF BaseInv, SocketTyped
<1>b. c \in batch => c \in batch' \/ HandleEvent(c)
  BY <1>0, BatchLeaves DEF Deafened
<1>c. ~HandleEvent(c)
  BY DelIsOwn DEF HandleEvent
<1>1. ASSUME NEW d \in Conns, ClientAcks(d) \/ ClientRefuses(d) \/ ClientLeaves(d)
                                \/ \E m \in ClientMsgs : ClientSends(d, m)
      PROVE  edge'[c] \/ c \in batch'
  <2>1. /\ edge' = [edge EXCEPT ![d] = armed[d]] /\ UNCHANGED armed
        /\ \A e \in Conns \ {d} : inbox'[e] = inbox[e]
    BY <1>a, <1>1 DEF ClientAcks, ClientRefuses, ClientLeaves, ClientSends, Arrives
  <2>2. CASE d = c
    BY <1>a, <2>1, <2>2
  <2>3. CASE d # c
    BY <1>k, <1>a, <1>b, <1>c, <2>1, <2>3
  <2> QED  BY <2>2, <2>3
<1>2. ASSUME NEW t \in Workers, Rearm(t) PROVE edge'[c] \/ c \in batch'
  <2>1. /\ edge' = [edge EXCEPT ![Conn(t)] = IF armed[Conn(t)] THEN @ ELSE Readable(Conn(t))]
        /\ armed' = [armed EXCEPT ![Conn(t)] = TRUE] /\ UNCHANGED inbox
    BY <1>2 DEF Rearm, EpollAdd
  <2>2. CASE Conn(t) = c /\ ~armed[c]
    BY <1>a, <2>1, <2>2 DEF Readable
  <2>3. CASE Conn(t) # c \/ armed[c]
    <3>1. armed[c] /\ edge'[c] = edge[c]
      BY <1>a, <2>1, <2>3
    <3> QED  BY <1>k, <1>b, <1>c, <2>1, <3>1
  <2> QED  BY <2>2, <2>3
<1>3. ASSUME NEW t \in Workers, ProcError(t) PROVE edge'[c] \/ c \in batch'
  <2>1. /\ edge' = [edge EXCEPT ![Conn(t)] = FALSE]
        /\ armed' = [armed EXCEPT ![Conn(t)] = FALSE] /\ UNCHANGED inbox
    BY <1>3 DEF ProcError
  <2>2. armed[c] /\ edge'[c] = edge[c]
    BY <1>a, <2>1
  <2> QED  BY <1>k, <1>b, <1>c, <2>1, <2>2
<1>4. ASSUME NEW d \in Conns, EpollDel(fd[d]), UNCHANGED inbox
      PROVE  edge'[c] \/ c \in batch'
  <2>1. armed[c] /\ (edge'[c] <=> edge[c])
    BY <1>4, DelIsOwn
  <2> QED  BY <1>k, <1>b, <1>c, <1>4, <2>1
<1>5. ASSUME NEW t \in Workers, CloseEpollDel(t) PROVE edge'[c] \/ c \in batch'
  <2>1. EpollDel(fd[Conn(t)]) /\ UNCHANGED inbox /\ Conn(t) \in Conns
    BY <1>5, HasTask DEF CloseEpollDel, At, WithTask, Locked
  <2> QED  BY <1>4, <2>1
<1>6. ASSUME NEW d \in Conns, HandleEvent(d) PROVE edge'[c] \/ c \in batch'
  BY <1>4, <1>6 DEF HandleEvent
<1>7. CASE EpollWait
  <2>1. UNCHANGED <<armed, inbox>> /\ batch = {} /\ ReadyEvents \subseteq batch'
    BY <1>7 DEF EpollWait, Waiting
  <2>2. edge[c] => c \in ReadyEvents
    BY <2>1 DEF ReadyEvents
  <2> QED  BY <1>k, <2>1, <2>2
<1>8. ASSUME NEW d \in Conns, HandleNewConnection(d) PROVE edge'[c] \/ c \in batch'
  <2>1. /\ edge' = [edge EXCEPT ![d] = IF armed[d] THEN @ ELSE Readable(d)]
        /\ armed' = [armed EXCEPT ![d] = TRUE] /\ UNCHANGED inbox
    BY <1>8 DEF HandleNewConnection, EpollAdd
  <2>2. CASE d = c /\ ~armed[c]
    BY <1>a, <2>1, <2>2 DEF Readable
  <2>3. CASE d # c \/ armed[c]
    <3>1. armed[c] /\ edge'[c] = edge[c]
      BY <1>a, <2>1, <2>3
    <3> QED  BY <1>k, <1>b, <1>c, <2>1, <3>1
  <2> QED  BY <2>2, <2>3
<1>9. ASSUME UNCHANGED <<armed, edge>>,
             \A d \in Conns : ~ClientAcks(d) /\ ~ClientRefuses(d) /\ \A m \in ClientMsgs : ~ClientSends(d, m)
      PROVE  edge'[c] \/ c \in batch'
  <2>1. inbox[c] # << >>
    <3>1. ASSUME NEW t \in Workers, RecvRegister(t) \/ RecvSend(t) \/ RecvBad(t) \/ RecvStatus(t)
          PROVE  inbox[c] # << >>
      <4>1. inbox[Conn(t)] # << >> /\ inbox' = [inbox EXCEPT ![Conn(t)] = Tail(@)]
        BY <3>1 DEF RecvRegister, RecvSend, RecvBad, RecvStatus, Receives
      <4> QED  BY <1>a, <4>1
    <3> QED  BY <1>9, <3>1, InboxWriters
  <2> QED  BY <1>k, <1>b, <1>c, <1>9, <2>1
<1> QED
  BY <1>1, <1>2, <1>3, <1>5, <1>6, <1>7, <1>8, <1>9, EpollWriters

(* "arm" lies before the end of a task, which adds the socket.             *)
LEMMA AfterArm ==
  ASSUME NEW t \in Workers, Worker(t), th[t].pc = "arm"
  PROVE  Rearm(t)
  BY DEF Worker, RequeueTask, CountJob, TakeTask, StartJob, TryLock, BufferFails, TryLockFails,
     HeartbeatOk, HeartbeatTimeout, RecvNothing, RecvRegister, RecvSend, RecvBad,
     RecvStatus, FindUser, SetUsername, BroadcastLock, BroadcastDeliver,
     BroadcastNoMemory, BroadcastSkip, BroadcastDone, Reply, Replied, StartSendMsg,
     SendStatus, SendDeliver, SendFails, SigPipe, Postpone, ProcError, CloseEpollDel,
     ClosingLater, ClosingNow, DestroyUnlock, DestroyMutex, Unlink, At, In, Receives, Reading,
     Sending

(* The steps that end an INBOUND task.                                     *)
EndsRead(t) == Rearm(t) \/ Replied(t) \/ ClosingLater(t) \/ Unlink(t)

(* A worker keeps its INBOUND task until it puts it back or ends it.       *)
LEMMA ReadKept ==
  ASSUME BaseInv, StatusAt, NEW t \in Workers, Worker(t), NEW c \in Conns,
         ReadHeld(th[t], c), ~RequeueTask(t), ~EndsRead(t), ~BufferFails(t)
  PROVE  ReadHeld(th'[t], c)
<1>a. /\ th \in [Threads -> Locals] /\ t \in Threads /\ th[t] \in Locals
      /\ WorkerShape(th[t]) /\ StatusFits(t)
  BY DEF BaseInv, ThreadsOK, Threads, StatusAt
<1>b. /\ \A k \in ReadTasks(c) : k \in Tasks /\ k.type = "INBOUND"
      /\ NoTask \notin ReadTasks(c)
  BY NoTaskIsNone DEF ReadTasks
<1> USE <1>a, <1>b DEF WorkerShape, WithTask, Locked, Locals, At, In, ReadHeld
<1>c. th[t].pc # "requeue" /\ th[t].task \in ReadTasks(c)
  <2>1. CASE th[t].pc = "requeue"
    BY <2>1 DEF EndsRead, Worker, CountJob, TakeTask, StartJob, TryLock, BufferFails, TryLockFails,
       HeartbeatOk, HeartbeatTimeout, RecvNothing, RecvRegister, RecvSend, RecvBad,
       RecvStatus, Rearm, FindUser, SetUsername, BroadcastLock, BroadcastDeliver,
       BroadcastNoMemory, BroadcastSkip, BroadcastDone, Reply, Replied, StartSendMsg,
       SendStatus, SendDeliver, SendFails, SigPipe, Postpone, ProcError, CloseEpollDel,
       ClosingLater, ClosingNow, DestroyUnlock, DestroyMutex, Unlink, Receives, Reading, Sending
  <2> QED  BY <2>1
<1>1. CASE \/ StartJob(t) \/ RecvRegister(t) \/ RecvSend(t) \/ SetUsername(t) \/ Reply(t)
           \/ ProcError(t) \/ ClosingNow(t) \/ DestroyMutex(t) \/ DestroyUnlock(t)
           \/ BroadcastLock(t) \/ BroadcastNoMemory(t) \/ RecvStatus(t)
  <2>1. th'[t].task = th[t].task
    BY <1>1 DEF StartJob, RecvRegister, RecvSend, SetUsername, Reply, ProcError, ClosingNow,
       DestroyMutex, DestroyUnlock, BroadcastLock, BroadcastNoMemory, RecvStatus, Goto
  <2> QED  BY <1>c, <2>1
<1>2. CASE BroadcastDeliver(t) \/ CountJob(t)
  <2>1. th'[t].task = th[t].task
    BY <1>2 DEF BroadcastDeliver, CountJob
  <2> QED  BY <1>c, <2>1
<1>3. CASE TryLock(t)
  <2>1. th'[t].task = WithBuffer(th[t].task)
    BY <1>3 DEF TryLock
  <2>2. WithBuffer(th[t].task) \in ReadTasks(c)
    BY <1>c, BufferMade DEF ReadTasks
  <2> QED  BY <2>1, <2>2
<1>4. CASE TakeTask(t)
  BY <1>c, <1>4 DEF TakeTask
<1>5. CASE HeartbeatOk(t) \/ SendFails(t) \/ SendStatus(t) \/ SendDeliver(t)
  BY <1>c, <1>5 DEF HeartbeatOk, SendFails, SendStatus, SendDeliver, Sending, IsOut, IsStatus
<1>6. ASSUME RequeueNoUnlock(t) PROVE ReadHeld(th'[t], c)
  <2>1. th'[t].out = th[t].task /\ th'[t].pc = "requeue"
    BY <1>6 DEF RequeueNoUnlock, Local
  <2> QED  BY <1>c, <2>1
<1>7. CASE \/ TryLockFails(t) \/ RecvBad(t) \/ StartSendMsg(t)
           \/ Postpone(t) \/ CloseEpollDel(t)
  <2>1. RequeueNoUnlock(t)
    BY <1>7 DEF TryLockFails, RecvBad, StartSendMsg, Postpone, CloseEpollDel,
       Fail, Requeue
  <2> QED  BY <1>6, <2>1
<1>8. CASE FindUser(t)
  <2>1. RequeueNoUnlock(t) \/ Goto(t, "name")
    BY <1>8 DEF FindUser, Fail, Requeue
  <2>2. CASE Goto(t, "name")
    BY <1>c, <2>2 DEF Goto
  <2> QED  BY <1>6, <2>1, <2>2
<1>9. CASE HeartbeatTimeout(t) \/ SigPipe(t) \/ BroadcastSkip(t)
  BY <1>9 DEF HeartbeatTimeout, SigPipe, BroadcastSkip, vars
<1>10. CASE BroadcastDone(t)
  <2>1. Goto(t, "reply") \/ Goto(t, "destroy") \/ Goto(t, "arm")
    BY <1>10 DEF BroadcastDone
  <2>2. th'[t].task = th[t].task
    BY <2>1 DEF Goto
  <2> QED  BY <1>c, <2>2
<1>11. CASE RecvNothing(t)
  <2>1. th'[t].out = Inbound(Conn(t)) /\ th'[t].pc = "requeue"
    BY <1>11 DEF RecvNothing, RequeueFreed, Local
  <2>2. Inbound(Conn(t)) \in ReadTasks(c)
    BY <1>c, TasksMade DEF ReadTasks, Inbound, Task, Conn
  <2> QED  BY <2>1, <2>2
<1> QED
  BY <1>1, <1>2, <1>3, <1>4, <1>5, <1>7, <1>8, <1>9, <1>10, <1>11 DEF Worker, EndsRead

LEMMA ReaderQueued ==
  ASSUME BaseInv, NEW c \in Conns, NEW k \in Tasks, queue' = Append(queue, k)
  PROVE  /\ k \in ReadTasks(c) => Reader(c)'
         /\ \A i \in DOMAIN queue : queue[i] \in ReadTasks(c) => Reader(c)'
<1>1. /\ DOMAIN queue' = 1 .. Len(queue) + 1 /\ Len(queue) \in Nat
      /\ queue'[Len(queue) + 1] = k
      /\ \A i \in DOMAIN queue : i \in DOMAIN queue' /\ queue'[i] = queue[i]
  BY DEF BaseInv, QueueTyped
<1>2. Len(queue) + 1 \in DOMAIN queue'
  BY <1>1
<1> QED  BY <1>1, <1>2 DEF Reader

(* An INBOUND task does not get lost, but for the steps that end it and    *)
(* for the one that finds no memory for its buffer.                        *)
LEMMA ReaderStep ==
  ASSUME BaseInv, StatusAt, [Next]_vars, NEW c \in Conns, Reader(c)
  PROVE  Reader(c)' \/ \E t \in Workers : /\ (Worker(t) /\ EndsRead(t)) \/ BufferFails(t)
                                          /\ th[t].task \in ReadTasks(c)
<1>a. queue \in Seq(Tasks) /\ th \in [Threads -> Locals]
  BY DEF BaseInv, QueueTyped, ThreadsOK
<1>1. ASSUME NEW i \in DOMAIN queue, queue[i] \in ReadTasks(c) PROVE Reader(c)'
  <2>1. ASSUME NEW k \in Tasks, queue' = Append(queue, k) PROVE Reader(c)'
    BY <1>1, <2>1, ReaderQueued
  <2>2. CASE UNCHANGED queue
    BY <1>1, <2>2 DEF Reader
  <2>3. ASSUME NEW t \in Workers, TakeTask(t) PROVE Reader(c)'
    <3>1. /\ queue # << >> /\ queue' = Tail(queue)
          /\ th' = [th EXCEPT ![t].pc = "start", ![t].task = Head(queue)]
      BY <2>3 DEF TakeTask
    <3>2. CASE i = 1
      <4>1. th'[t].task = queue[1]
        BY <1>a, <3>1 DEF Threads, Locals
      <4> QED  BY <1>1, <3>2, <4>1 DEF Reader, ReadHeld
    <3>3. CASE i # 1
      <4>1. i - 1 \in DOMAIN queue' /\ queue'[i - 1] = queue[i]
        BY <1>a, <3>1, <3>3
      <4> QED  BY <1>1, <4>1 DEF Reader
    <3> QED  BY <3>2, <3>3
  <2>4. ASSUME NEW t \in Workers, RequeueTask(t) \/ SetUsername(t) \/ BroadcastDeliver(t) \/ Reply(t)
        PROVE  UNCHANGED queue \/ \E k \in Tasks : queue' = Append(queue, k)
    <3>1. /\ th[t].pc = "requeue" => th[t].out \in Tasks
          /\ th[t].pc \in {"name", "reply"} => Conn(t) \in Conns
          /\ th[t].cur \in Conns \cup {NULL}
      BY HasTask DEF BaseInv, ThreadsOK, WorkerShape, WithTask, Locked, Threads, Locals
    <3> QED  BY <2>4, <3>1, TasksMade DEF RequeueTask, SetUsername, BroadcastDeliver, Reply,
             EnqueueTask, EnqueueOwn, At
  <2>5. ASSUME AuditNext \/ \E d \in Conns : HandleEvent(d)
        PROVE  \E k \in Tasks : queue' = Append(queue, k)
    <3>1. th[Main].cur \in Conns \cup {NULL}
      BY <1>a DEF Threads, Locals
    <3> QED  BY <2>5, <3>1, TasksMade DEF AuditNext, HandleEvent, EnqueueTask
  <2> QED  BY <2>1, <2>2, <2>3, <2>4, <2>5, QueueWriters
<1>2. ASSUME NEW u \in Workers, ReadHeld(th[u], c)
      PROVE  Reader(c)' \/ (((Worker(u) /\ EndsRead(u)) \/ BufferFails(u)) /\ th[u].task \in ReadTasks(c))
  <2>1. CASE ~Worker(u)
    <3>1. th'[u] = th[u]
      BY <2>1, OthersStay
    <3> QED  BY <1>2, <3>1 DEF Reader
  <2>2. CASE RequeueTask(u)
    <3>1. /\ queue' = Append(queue, th[u].out) /\ th[u].pc = "requeue"
          /\ th[u].out \in Tasks /\ th[u].task = NoTask
      BY <2>2 DEF RequeueTask, EnqueueTask, At, BaseInv, ThreadsOK, WorkerShape, WithTask, Locked
    <3>2. th[u].out \in ReadTasks(c)
      BY <1>2, <3>1, NoTaskIsNone DEF ReadHeld, ReadTasks
    <3> QED  BY <3>1, <3>2, ReaderQueued
  <2>3. CASE (Worker(u) /\ EndsRead(u)) \/ BufferFails(u)
    <3>1. th[u].pc # "requeue"
      BY <2>3 DEF EndsRead, Rearm, Replied, ClosingLater, Unlink, BufferFails, At, In
    <3> QED  BY <1>2, <2>3, <3>1 DEF ReadHeld
  <2>4. CASE Worker(u) /\ ~RequeueTask(u) /\ ~EndsRead(u) /\ ~BufferFails(u)
    BY <1>2, <2>4, ReadKept DEF Reader
  <2> QED  BY <2>1, <2>2, <2>3, <2>4
<1> QED  BY <1>1, <1>2 DEF Reader

(* The event of a connection becomes an INBOUND task.                      *)
LEMMA EventIsRead ==
  ASSUME BaseInv, NEW c \in Conns, HandleEvent(c)
  PROVE  Reader(c)'
<1>1. Inbound(c) \in Tasks /\ Inbound(c) \in ReadTasks(c)
  BY TasksMade DEF ReadTasks, Inbound, Task
<1>2. queue' = Append(queue, Inbound(c))
  BY DEF HandleEvent, EnqueueTask
<1> QED  BY <1>1, <1>2, ReaderQueued

(* A connection whose state reads is listened to.                          *)
LEMMA ListenedStep ==
  ASSUME BaseInv, Owners, StatusAt, ArmedOpen, [Next]_vars, NEW c \in Conns,
         Heard(c), ~Deafened(c), Reads(c)'
  PROVE  armed'[c] \/ c \in batch' \/ Reader(c)' \/ Arming(c)'
<1> DEFINE ReadStates == {"PRE_REGISTER", "AVAILABLE", "PENDING_STATUS"}
<1>0. /\ th'[Main].pc # "drain" /\ th[Main].pc # "drain" /\ proc = "up"
      /\ mem'[c] = "live" /\ status'[c] \in ReadStates
  <2>1. /\ th'[Main].pc # "drain" /\ proc' = "up"
        /\ mem'[c] = "live" /\ status'[c] \in ReadStates
    BY DEF Reads, Serves
  <2>2. th[Main].pc # "drain"
    BY <2>1, DrainStays
  <2>3. proc = "up"
    BY <2>1, ProcWriters
  <2> QED  BY <2>1, <2>2, <2>3
<1>a. /\ armed \in [Conns -> BOOLEAN] /\ status \in [Conns -> Status]
      /\ mem \in [Conns -> {"none", "live", "dead", "freed"}] /\ th \in [Threads -> Locals]
  BY DEF BaseInv, SocketTyped, ConnTyped, ThreadsOK
<1>b. ASSUME NEW t \in Workers, Rearm(t), Conn(t) = c PROVE armed'[c]
  BY <1>a, <1>b DEF Rearm, EpollAdd
<1>1. CASE mem[c] # "live"
  <2>1. HandleNewConnection(c)
    <3>1. ~ConnectionUnwatched(c)
      BY DEF Deafened, NotAllocated
    <3> QED  BY <1>0, <1>a, <1>1, <3>1, MemWriters DEF DestroyMutex, Unlink, HandleNewConnection,
             ConnectionUnwatched
  <2> QED  BY <1>a, <2>1 DEF HandleNewConnection, EpollAdd
<1>2. CASE status[c] \notin ReadStates
  <2>1. PICK t \in Workers : Moves(t, status[c], status'[c]) /\ Conn(t) = c
    BY <1>0, <1>2, StatusMoves
  <2>2. SendStatus(t) \/ SendDeliver(t)
    BY <1>0, <1>2, <2>1 DEF Moves
  <2>3. th'[t].pc = "arm" /\ th'[t].task.conn = c
    BY <1>a, <2>1, <2>2 DEF SendStatus, SendDeliver, Goto, Locals, Threads, Conn
  <2> QED  BY <2>3 DEF Arming
<1>3. CASE armed[c]
  <2>1. ASSUME NEW t \in Workers, ProcError(t) PROVE armed'[c]
    <3>1. /\ armed' = [armed EXCEPT ![Conn(t)] = FALSE] /\ status[Conn(t)] = "ERR"
          /\ UNCHANGED status
      BY <2>1 DEF ProcError, In, conn
    <3> QED  BY <1>0, <1>a, <1>3, <3>1
  <2>2. ASSUME NEW t \in Workers, CloseEpollDel(t) PROVE armed'[c]
    <3>1. EpollDel(fd[Conn(t)]) /\ Conn(t) \in Conns
      BY <2>2, HasTask DEF CloseEpollDel, At, WithTask, Locked
    <3>2. Conn(t) # c
      BY <1>0, <1>a, <2>2 DEF CloseEpollDel, SetStatus
    <3>3. fd[Conn(t)] # fd[c]
      BY <2>2, <3>2 DEF Deafened, RemovedForAnother
    <3> QED  BY <1>3, <3>1, <3>3, DelIsOwn
  <2>3. ASSUME NEW d \in Conns, HandleEvent(d) PROVE armed'[c] \/ Reader(c)'
    <3>1. CASE d = c
      BY <2>3, <3>1, EventIsRead
    <3>2. CASE d # c
      <4>1. fd[d] # fd[c]
        BY <2>3, <3>2 DEF Deafened, RemovedForAnother
      <4> QED  BY <1>3, <2>3, <4>1, DelIsOwn DEF HandleEvent
    <3> QED  BY <3>1, <3>2
  <2>4. ASSUME NEW t \in Workers, Rearm(t) PROVE armed'[c]
    BY <1>a, <1>3, <2>4 DEF Rearm, EpollAdd
  <2>5. ASSUME NEW d \in Conns, NEW m,
               HandleNewConnection(d) \/ ClientAcks(d) \/ ClientRefuses(d) \/ ClientLeaves(d)
             \/ ClientSends(d, m)
        PROVE  armed'[c]
    BY <1>a, <1>3, <2>5 DEF HandleNewConnection, EpollAdd, ClientAcks, ClientRefuses, ClientLeaves, ClientSends,
       Arrives
  <2>6. CASE EpollWait \/ UNCHANGED <<armed, edge>>
    BY <1>3, <2>6 DEF EpollWait
  <2> QED  BY <2>1, <2>2, <2>3, <2>4, <2>5, <2>6, EpollWriters
<1>4. CASE c \in batch
  BY <1>0, <1>4, BatchLeaves, EventIsRead DEF Deafened
<1>5. CASE Reader(c)
  <2>1. ASSUME NEW t \in Workers, Worker(t), EndsRead(t), th[t].task \in ReadTasks(c)
        PROVE  armed'[c]
    <3>1. Conn(t) = c
      BY <2>1 DEF ReadTasks, Conn
    <3>2. ~Replied(t)
      BY <1>0, <1>a, <3>1 DEF Replied, At, StatusAt, StatusFits, Place
    <3>3. ~ClosingLater(t)
      BY <1>0, <1>a, <3>1 DEF ClosingLater, In
    <3>4. ~Unlink(t)
      BY <1>0, <1>a, <3>1 DEF Unlink, At, StatusAt, StatusFits, Place
    <3> QED  BY <1>b, <2>1, <3>1, <3>2, <3>3, <3>4 DEF EndsRead
  <2>2. ASSUME NEW t \in Workers, BufferFails(t), th[t].task \in ReadTasks(c) PROVE FALSE
    BY <2>2 DEF Deafened, NotAllocated, ReadTasks, Conn, IsIn
  <2> QED  BY <1>5, <2>1, <2>2, ReaderStep
<1>6. CASE Arming(c)
  <2>1. PICK t \in Workers : th[t].pc = "arm" /\ th[t].task.conn = c
    BY <1>6 DEF Arming
  <2>2. CASE Worker(t)
    BY <1>b, <2>1, <2>2, AfterArm DEF Conn
  <2>3. CASE ~Worker(t)
    BY <2>1, <2>3, OthersStay DEF Arming
  <2> QED  BY <2>2, <2>3
<1>7. ASSUME mem[c] = "live", status[c] \in ReadStates
      PROVE  armed[c] \/ c \in batch \/ Reader(c) \/ Arming(c)
  BY <1>0, <1>7 DEF Heard, Reads, Serves
<1> QED  BY <1>1, <1>2, <1>3, <1>4, <1>5, <1>6, <1>7

(* Reader is what Listening counts.                                        *)
LEMMA ReaderIs ==
  ASSUME BaseInv, NEW c \in Conns
  PROVE  Reader(c) <=> Outstanding(c, IsInbound) > 0
<1> DEFINE Q == {i \in DOMAIN queue : queue[i].conn = c /\ IsInbound(queue[i])}
           H == {t \in Threads : th[t].task.conn = c /\ IsInbound(th[t].task)}
           B == {t \in Threads : th[t].pc = "requeue" /\ th[t].out.conn = c /\ IsInbound(th[t].out)}
<1>1. IsFiniteSet(Q) /\ IsFiniteSet(H) /\ IsFiniteSet(B)
  <2>1. IsFiniteSet(1 .. Len(queue)) /\ DOMAIN queue = 1 .. Len(queue)
    BY FS_Interval DEF BaseInv, QueueTyped
  <2> QED  BY <2>1, FiniteThreads, FS_Subset
<1>2. Reader(c) <=> Q # {} \/ H # {} \/ B # {}
  <2>1. \A i \in DOMAIN queue : queue[i] \in ReadTasks(c) <=> i \in Q
    BY DEF ReadTasks, IsInbound, BaseInv, QueueTyped
  <2>2. \A t \in Workers : th[t].task \in ReadTasks(c) <=> t \in H
    <3>1. \A t \in Workers : th[t].task \in Tasks \cup {NoTask} /\ t \in Threads
      BY DEF BaseInv, ThreadsOK, Locals, Threads
    <3> QED  BY <3>1, NoTaskIsNone DEF ReadTasks, IsInbound, NoTask, Task
  <2>3. \A t \in Workers : th[t].pc = "requeue" /\ th[t].out \in ReadTasks(c) <=> t \in B
    <3>1. \A t \in Workers : th[t].out \in Tasks \cup {NoTask} /\ t \in Threads
      BY DEF BaseInv, ThreadsOK, Locals, Threads
    <3> QED  BY <3>1, NoTaskIsNone DEF ReadTasks, IsInbound, NoTask, Task
  <2>4. Main \notin H /\ Main \notin B
    BY DEF BaseInv, ThreadsOK, MainShape, IsInbound, NoTask, Task
  <2>5. Q \subseteq DOMAIN queue /\ H \subseteq Workers /\ B \subseteq Workers
    BY <2>4 DEF Threads
  <2> HIDE DEF Q, H, B
  <2> QED  BY <2>1, <2>2, <2>3, <2>5 DEF Reader, ReadHeld
<1>3. Outstanding(c, IsInbound) = Cardinality(Q) + Cardinality(H) + Cardinality(B)
  BY DEF Outstanding, InQueue, TaskHeld, BeingQueued, Count
<1> HIDE DEF Q, H, B
<1>4. Cardinality(Q) \in Nat /\ Cardinality(H) \in Nat /\ Cardinality(B) \in Nat
  BY <1>1, FS_CardinalityType
<1>5. (Q # {} \/ H # {} \/ B # {}) <=> Cardinality(Q) # 0 \/ Cardinality(H) # 0 \/ Cardinality(B) # 0
  BY <1>1, FS_EmptySet
<1>6. (Cardinality(Q) # 0 \/ Cardinality(H) # 0 \/ Cardinality(B) # 0)
        <=> Cardinality(Q) + Cardinality(H) + Cardinality(B) > 0
  BY ONLY <1>4
<1> QED  BY <1>2, <1>3, <1>5, <1>6

LEMMA ListeningIsHeard ==
  ASSUME BaseInv, NEW c \in Conns
  PROVE  Listening(c) <=> Heard(c)
  BY ReaderIs DEF Listening, Heard

LEMMA HeardStep ==
  ASSUME BaseInv, Owners, StatusAt, ArmedOpen, [Next]_vars, NEW c \in Conns, Heard(c)
  PROVE  Heard(c)' \/ Deafened(c)
<1> SUFFICES ASSUME ~Deafened(c) PROVE Heard(c)'
  OBVIOUS
<1>1. Reads(c)' => armed'[c] \/ c \in batch' \/ Reader(c)' \/ Arming(c)'
  BY ListenedStep
<1>2. Serves(c)' /\ armed'[c] /\ inbox'[c] # << >> => edge'[c] \/ c \in batch'
  BY EdgeStep
<1> QED  BY <1>1, <1>2 DEF Heard

(* Edge-triggered epoll tells once, and rpchat_handle_events removes the   *)
(* socket from the set when it does.  Still the server goes deaf to a      *)
(* client whose connection reads only in the ways that ListeningKept       *)
(* lists, whichever worker runs its tasks and however often they are put   *)
(* back: rpchat_close_connection's late EPOLL_CTL_DEL of a number that is  *)
(* another client's by now, a batch of events that is dropped, and memory  *)
(* that is not there.                                                      *)
THEOREM ListeningIsKept == Spec => ListeningKept
<1> DEFINE E == \A c \in Conns : Listening(c) <=> Heard(c)
           S == \A c \in Conns : Heard(c) => Heard(c)' \/ Deafened(c)
           A == \A c \in Conns : Listening(c) /\ ~Listening(c)' =>
                  RemovedForAnother(c) \/ BatchDropped(c) \/ NotAllocated(c)
<1>1. Init => ArmedOpen
  BY DEF Init, ArmedOpen
<1>2. BaseInv /\ Owners /\ StatusAt /\ SocketClosedOnce /\ ArmedOpen /\ [Next]_vars => ArmedOpen'
  BY ArmedOpenStep
<1>3. BaseInv => E
  BY ListeningIsHeard
<1>4. BaseInv /\ Owners /\ StatusAt /\ ArmedOpen /\ [Next]_vars => S
  BY HeardStep
<1>5. E /\ E' /\ S => A
  BY DEF Deafened
<1>6. ListeningKept <=> [][A]_vars
  BY DEF ListeningKept
<1> HIDE DEF E, S, A
<1> QED
  BY <1>1, <1>2, <1>3, <1>4, <1>5, <1>6, ServerInductive, OwnersHold, SocketsClosedOnce, PTL DEF Spec
=============================================================================
