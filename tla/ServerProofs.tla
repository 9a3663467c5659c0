---------------------------- MODULE ServerProofs ----------------------------
(***************************************************************************)
(* Proofs about ChatServer, for every number of clients and workers and    *)
(* for everything the environment may do: types, and the facts about       *)
(* threads, mutexes and connection objects that all other proofs need.     *)
(*                                                                         *)
(* An object that is not freed is linked (LinkedWhileUsed), which is what  *)
(* keeps the walks over the list inside the list, and nobody has a task of *)
(* a client that was not accepted yet (InUse).  A lemma per variable names *)
(* the actions that write it, so that a proof looks at those only.         *)
(***************************************************************************)
EXTENDS ChatServer, TLAPS, FiniteSetTheorems, WellFoundedInduction

(* A worker has a task at these places, and holds the mutex of the task's  *)
(* connection at those.  A worker that counts a DELIVER of a broadcast is  *)
(* still in the broadcast: Place.                                          *)
Locked   == {"proc", "find", "name", "broadcast", "next", "reply", "unlock", "arm",
             "del", "destroy"}
WithTask == {"start", "lock", "mutex", "unlink"} \cup Locked
Place(t) == IF th[t].pc = "count" THEN th[t].ret ELSE th[t].pc

WorkerShape(l) ==
  /\ l.pc \in WithTask \cup {"idle", "requeue", "count"}
  /\ l.task \in IF l.pc \in WithTask \/ (l.pc = "count" /\ l.ret = "next")
                THEN Tasks ELSE {NoTask}
  /\ l.out \in IF l.pc \in {"count", "requeue"} THEN Tasks ELSE {NoTask}
  /\ l.ret \in IF l.pc = "count" THEN {"idle", "next"} ELSE {"idle"}
MainShape(l) ==
  /\ l.pc \in {"events", "audit", "drain", "count"}
  /\ l.task = NoTask
  /\ l.out \in IF l.pc = "count" THEN Tasks ELSE {NoTask}
  /\ l.ret \in IF l.pc = "count" THEN {"events", "audit"} ELSE {"idle"}
ThreadsOK ==
  /\ th \in [Threads -> Locals]
  /\ \A t \in Workers : WorkerShape(th[t])
  /\ MainShape(th[Main])

(* The other parts of TypeOK, by who writes them.                          *)
QueueTyped == queue \in Seq(Tasks)
ListTyped ==
  /\ list \in Seq(Conns) /\ \A i, j \in DOMAIN list : list[i] = list[j] => i = j
  /\ ll \in Threads \cup {NULL}
ConnTyped ==
  /\ mem \in [Conns -> {"none", "live", "dead", "freed"}]
  /\ lock \in [Conns -> Workers \cup {NULL}]
  /\ status \in [Conns -> Status]
  /\ pending \in [Conns -> Int]
  /\ registered \in [Conns -> BOOLEAN]
  /\ idle \in [Conns -> 0 .. TIMEOUT + 1]
SocketTyped ==
  /\ fd \in [Conns -> 0 .. Cardinality(Conns)]
  /\ open \in [Conns -> BOOLEAN]
  /\ armed \in [Conns -> BOOLEAN]
  /\ edge \in [Conns -> BOOLEAN]
  /\ inbox \in [Conns -> Seq(MsgKinds)]
  /\ peer \in [Conns -> {"out", "backlog", "open", "closed", "reset"}]
EventTyped ==
  /\ batch \subseteq Conns \cup {"server", "signal", "first"}
  /\ sig \subseteq {"SIGINT", "SIGALRM"}
  /\ proc \in {"up", "stopped", "killed", "undefined"}
GhostTyped ==
  /\ due \in [Conns -> Int]
  /\ owed \in [Conns -> Nat]
  /\ awaiting \in [Conns -> BOOLEAN]
  /\ crossed \in [Conns -> Nat]
  /\ sent \in [Conns -> Nat]

(* A client that was not accepted has no object and no descriptor, and an  *)
(* object that was never made is as it was.                                *)
Fresh ==
  \A c \in Conns :
    /\ peer[c] \in {"out", "backlog"} => mem[c] = "none" /\ ~open[c] /\ fd[c] = 0
    /\ mem[c] = "none" => /\ status[c] = "PRE_REGISTER" /\ ~registered[c]
                          /\ ~armed[c] /\ c \notin batch

(* Every connection that a task, a thread or the list knows has an object. *)
InUse ==
  /\ \A i \in DOMAIN queue : mem[queue[i].conn] # "none"
  /\ \A i \in DOMAIN list : mem[list[i]] # "none"
  /\ \A t \in Threads :
       /\ th[t].task # NoTask => mem[th[t].task.conn] # "none"
       /\ th[t].out # NoTask => mem[th[t].out.conn] # "none"
       /\ th[t].cur # NULL => mem[th[t].cur] # "none"

(* The object is freed when its node is unlinked, and not before.          *)
LinkedWhileUsed == \A c \in Conns : mem[c] \in {"live", "dead"} => Linked(c)

BaseInv ==
  /\ ThreadsOK /\ QueueTyped /\ ListTyped /\ ConnTyped /\ SocketTyped /\ EventTyped /\ GhostTyped
  /\ Fresh /\ InUse /\ LinkedWhileUsed
-----------------------------------------------------------------------------
(* Tasks.                                                                  *)
LEMMA NoTaskIsNone == NoTask \notin Tasks
  BY DEF NoTask, Task, Tasks

LEMMA TasksMade ==
  ASSUME NEW c \in Conns
  PROVE  /\ {Inbound(c), Heartbeat(c), Deliver(c), StatusGood(c)} \subseteq Tasks
         /\ \A k \in {Inbound(c), Heartbeat(c), Deliver(c), StatusGood(c)} : k.conn = c
  BY DEF Task, Tasks, Inbound, Heartbeat, Deliver, StatusGood

LEMMA TaskFields ==
  ASSUME NEW k \in Tasks
  PROVE  /\ k.conn \in Conns
         /\ k.type \in {"INBOUND", "HEARTBEAT", "OUTBOUND"}
         /\ k.type = "OUTBOUND" <=> k.msg \in {"DELIVER", "STATUS"}
  BY DEF Tasks

(* The buffer of a task does not make it another task.                     *)
LEMMA BufferMade ==
  ASSUME NEW k \in Tasks
  PROVE  /\ WithBuffer(k) \in Tasks
         /\ WithBuffer(k).conn = k.conn /\ WithBuffer(k).type = k.type
         /\ k.type = "OUTBOUND" => WithBuffer(k) = k
  BY DEF WithBuffer, Tasks
-----------------------------------------------------------------------------
(* The connection list.                                                    *)

LEMMA PositionIs ==
  ASSUME NEW c, Linked(c)
  PROVE  Position(c) \in DOMAIN list /\ list[Position(c)] = c
  BY DEF Linked, Position

(* The node behind a node of the list is one of the list.                  *)
LEMMA NextNodeLinked ==
  ASSUME ListTyped, NEW c \in Conns, Linked(c), NextNode(c) # NULL
  PROVE  NextNode(c) \in Conns /\ Linked(NextNode(c))
<1>1. Position(c) \in 1 .. Len(list) /\ list \in Seq(Conns)
  BY PositionIs DEF ListTyped
<1>2. Position(c) + 1 \in 1 .. Len(list) /\ NextNode(c) = list[Position(c) + 1]
  BY <1>1 DEF NextNode
<1> QED  BY <1>1, <1>2 DEF Linked

LEMMA FrontLinked ==
  ASSUME ListTyped
  PROVE  Front = NULL \/ (Front \in Conns /\ Linked(Front))
  BY DEF ListTyped, Front, Linked

(* So the walk of a broadcast goes from node to node of the list.          *)
LEMMA WalkToLinked ==
  ASSUME ListTyped, NEW t, NEW c, c = NULL \/ (c \in Conns /\ Linked(c)), Conn(t) \in Conns
  PROVE  WalkTo(t, c) = NULL \/ (WalkTo(t, c) \in Conns /\ Linked(WalkTo(t, c)))
<1>1. CASE c # Conn(t)
  BY <1>1 DEF WalkTo
<1>2. CASE c = Conn(t)
  <2>1. c \in Conns /\ Linked(c) /\ WalkTo(t, c) = NextNode(c)
    BY <1>2, ServerAssumption DEF WalkTo
  <2> QED  BY <2>1, NextNodeLinked
<1> QED  BY <1>1, <1>2

(* rplib_ll_remove_node keeps the other nodes and their order.             *)
LEMMA UnlinkedList ==
  ASSUME ListTyped, NEW c \in Conns, list' = Unlinked(c)
  PROVE  /\ list' \in Seq(Conns)
         /\ \A i, j \in DOMAIN list' : list'[i] = list'[j] => i = j
         /\ \A i \in DOMAIN list' : \E j \in DOMAIN list : list'[i] = list[j]
         /\ \A d \in Conns \ {c} : Linked(d) => Linked(d)'
<1>1. CASE ~Linked(c)
  BY <1>1 DEF ListTyped, Unlinked, Linked
<1>2. CASE Linked(c)
  <2> DEFINE p == Position(c)
             n == Len(list) - 1
  <2>1. list \in Seq(Conns) /\ p \in 1 .. Len(list) /\ list[p] = c
    BY <1>2, PositionIs DEF ListTyped
  <2>2. n \in Nat
    BY <2>1
  <2>3. list' = [i \in 1 .. n |-> IF i < p THEN list[i] ELSE list[i + 1]]
    BY <1>2 DEF Unlinked
  <2> HIDE DEF p, n
  <2>4. Len(list) = n + 1
    BY <2>1 DEF n
  <2>5. list' \in Seq(Conns) /\ DOMAIN list' = 1 .. n
    BY <2>1, <2>2, <2>3, <2>4
  <2>6. ASSUME NEW i \in 1 .. n, NEW j \in 1 .. n, list'[i] = list'[j] PROVE i = j
    <3> DEFINE at(k) == IF k < p THEN k ELSE k + 1
    <3>1. /\ at(i) \in DOMAIN list /\ list'[i] = list[at(i)]
          /\ at(j) \in DOMAIN list /\ list'[j] = list[at(j)]
      BY <2>1, <2>2, <2>3, <2>4
    <3>2. at(i) = at(j)
      BY <2>6, <3>1 DEF ListTyped
    <3> QED  BY <2>1, <2>2, <3>2
  <2>7. \A i \in DOMAIN list' : \E j \in DOMAIN list : list'[i] = list[j]
    BY <2>1, <2>2, <2>3, <2>4, <2>5
  <2>8. ASSUME NEW d \in Conns \ {c}, Linked(d) PROVE Linked(d)'
    <3>1. PICK j \in 1 .. n + 1 : list[j] = d
      BY <2>1, <2>4, <2>8 DEF Linked
    <3>2. j # p
      BY <2>1, <3>1
    <3>3. CASE j < p
      <4>1. j \in 1 .. n /\ list'[j] = d
        BY <2>1, <2>2, <2>3, <2>4, <3>1, <3>3
      <4> QED  BY <2>5, <4>1 DEF Linked
    <3>4. CASE j > p
      <4>1. j - 1 \in 1 .. n /\ list'[j - 1] = d
        BY <2>1, <2>2, <2>3, <2>4, <3>1, <3>4
      <4> QED  BY <2>5, <4>1 DEF Linked
    <3> QED  BY <2>1, <3>1, <3>2, <3>3, <3>4
  <2> QED  BY <2>5, <2>6, <2>7, <2>8
<1> QED  BY <1>1, <1>2

(* A connection that is appended is the last, the others keep their place. *)
LEMMA AppendedList ==
  ASSUME ListTyped, NEW c \in Conns, ~Linked(c), list' = Append(list, c)
  PROVE  /\ list' \in Seq(Conns)
         /\ \A i, j \in DOMAIN list' : list'[i] = list'[j] => i = j
         /\ \A i \in DOMAIN list' : list'[i] = c \/ \E j \in DOMAIN list : list'[i] = list[j]
         /\ Linked(c)' /\ \A d \in Conns : Linked(d) => Linked(d)'
<1>1. /\ list \in Seq(Conns)
      /\ Len(list') = Len(list) + 1 /\ DOMAIN list' = 1 .. Len(list) + 1
      /\ list'[Len(list) + 1] = c
      /\ \A i \in 1 .. Len(list) : list'[i] = list[i]
  BY DEF ListTyped
<1>2. list' \in Seq(Conns)
  BY <1>1
<1>3. \A i, j \in DOMAIN list' : list'[i] = list'[j] => i = j
  BY <1>1 DEF ListTyped, Linked
<1>4. \A i \in DOMAIN list' : list'[i] = c \/ \E j \in DOMAIN list : list'[i] = list[j]
  BY <1>1
<1>5. Linked(c)' /\ \A d \in Conns : Linked(d) => Linked(d)'
  BY <1>1 DEF Linked
<1> QED  BY <1>2, <1>3, <1>4, <1>5
-----------------------------------------------------------------------------
(* Descriptors.                                                            *)

LEMMA LeastNat ==
  ASSUME NEW T \in SUBSET Nat, T # {}
  PROVE  \E x \in T : \A y \in T : x <= y
<1> DEFINE R == {p \in Nat \X Nat : p[1] < p[2]}
<1>1. R = OpToRel(<, Nat)
  BY DEF OpToRel
<1>2. IsWellFoundedOn(R, Nat)
  BY <1>1, NatLessThanWellFounded
<1>3. PICK x \in T : \A y \in T : ~(<<y, x>> \in R)
  BY <1>2, WFMin
<1>4. \A y \in T : ~(y < x)
  BY <1>3
<1> HIDE DEF R
<1> QED  BY <1>4

(* accept finds a free descriptor: the client it is for has none yet, so   *)
(* fewer are open than there are clients.                                  *)
LEMMA FreeFdExists ==
  ASSUME SocketTyped, NEW c \in Conns, ~open[c]
  PROVE  /\ FreeFd \in 1 .. Cardinality(Conns)
         /\ \A d \in Conns : open[d] => FreeFd # fd[d]
<1> DEFINE D == {d \in Conns : open[d]}
           used == {fd[d] : d \in D}
           N == Cardinality(Conns)
           free == (1 .. N) \ used
<1>1. IsFiniteSet(Conns) /\ N \in Nat
  BY ServerAssumption, FS_CardinalityType
<1>2. D \subseteq Conns \ {c}
  OBVIOUS
<1>3. IsFiniteSet(Conns \ {c}) /\ Cardinality(Conns \ {c}) = N - 1
  BY <1>1, FS_RemoveElement
<1>4. IsFiniteSet(D) /\ Cardinality(D) <= N - 1
  BY <1>2, <1>3, FS_Subset
<1>5. IsFiniteSet(used) /\ Cardinality(used) <= Cardinality(D)
  <2> DEFINE f == [d \in D |-> fd[d]]
  <2>1. f \in Surjection(D, used)
    BY DEF Surjection
  <2> QED  BY <1>4, <2>1, FS_Surjection
<1>6. Cardinality(D) \in Nat /\ Cardinality(used) \in Nat
  BY <1>4, <1>5, FS_CardinalityType
<1>7. IsFiniteSet(1 .. N) /\ Cardinality(1 .. N) = N
  BY <1>1, FS_Interval
<1>8. free # {}
  <2> SUFFICES ASSUME (1 .. N) \subseteq used PROVE FALSE
    OBVIOUS
  <2>1. N <= Cardinality(used)
    BY <1>5, <1>7, FS_Subset
  <2> QED  BY <1>1, <1>4, <1>5, <1>6, <2>1
<1>9. free \in SUBSET Nat
  BY <1>1
<1>10. FreeFd = CHOOSE f \in free : \A g \in free : f <= g
  BY DEF FreeFd
<1> HIDE DEF free
<1>11. \E x \in free : \A y \in free : x <= y
  BY <1>8, <1>9, LeastNat
<1>12. FreeFd \in free
  BY <1>10, <1>11
<1> QED  BY <1>12 DEF free
LEMMA NextCases ==
  ASSUME [Next]_vars
  PROVE  \/ \E t \in Workers : Worker(t)
         \/ MainThread
         \/ Environment \/ Undefined \/ Halted \/ UNCHANGED vars
  BY DEF Next
-----------------------------------------------------------------------------
(* Who writes what: each lemma names the actions that may change some      *)
(* variables; all other actions leave them alone.                          *)

USE DEF conn, socket, event, ghost, vars, Fail, Receives, Arrives, EpollAdd, EpollDel,
        SendOk, Cleanup, Requeue, RequeueNoUnlock, RequeueFreed, Unlock, SetStatus, EnqueueTask,
        EnqueueOwn, Handled
USE DEF RequeueTask, CountJob, TakeTask, StartJob, TryLock, BufferFails, TryLockFails,
        HeartbeatOk, HeartbeatTimeout, RecvNothing, RecvRegister, RecvSend, RecvBad,
        RecvStatus, Rearm, FindUser, SetUsername, BroadcastLock, BroadcastDeliver,
        BroadcastNoMemory, BroadcastSkip, BroadcastDone, Reply, Replied, StartSendMsg,
        SendStatus, SendDeliver, SendFails, SigPipe, Postpone, ProcError, CloseEpollDel,
        ClosingLater, ClosingNow, DestroyUnlock, DestroyMutex, Unlink
USE DEF EpollWait, EpollInterrupted, HandleEvent, HandleNewConnection, ConnectionNoMemory,
        ConnectionUnwatched, EventNoMemory, AcceptFails, HandleSigInt, HandleSigAlrm,
        AuditNext, AuditNoMemory, AuditDone, Shutdown,
        Connect, ClientSends, ClientAcks, ClientRefuses, ClientLeaves, Tick, SigInt, Undefined, Halted
(* mutex_conn_ll protects the list: nodes come with an accept and go with Unlink.*)
LEMMA ListWriters ==
  ASSUME [Next]_vars
  PROVE  \/ UNCHANGED list
         \/ \E t \in Workers : Unlink(t)
         \/ \E c \in Conns : HandleNewConnection(c) \/ ConnectionUnwatched(c)
<1>1. ASSUME NEW t \in Workers, Worker(t)
      PROVE  UNCHANGED list \/ Unlink(t)
  BY <1>1 DEF Worker
<1>2. ASSUME MainThread
      PROVE  UNCHANGED list
             \/ \E c \in Conns : HandleNewConnection(c) \/ ConnectionUnwatched(c)
  BY <1>2 DEF MainThread, EventThread
<1>3. ASSUME Environment \/ Undefined \/ Halted \/ UNCHANGED vars
      PROVE  UNCHANGED list
  BY <1>3 DEF Environment
<1> QED  BY ONLY NextCases, <1>1, <1>2, <1>3, [Next]_vars

(* The mutex of the list.                                                  *)
LEMMA LLWriters ==
  ASSUME [Next]_vars
  PROVE  \/ UNCHANGED ll
         \/ \E t \in Workers : BroadcastLock(t) \/ BroadcastDone(t)
         \/ AcceptFails \/ HandleSigAlrm \/ AuditNoMemory \/ AuditDone
<1>1. ASSUME NEW t \in Workers, Worker(t)
      PROVE  UNCHANGED ll \/ BroadcastLock(t) \/ BroadcastDone(t)
  BY <1>1 DEF Worker
<1>2. ASSUME MainThread
      PROVE  UNCHANGED ll \/ AcceptFails \/ HandleSigAlrm \/ AuditNoMemory
             \/ AuditDone
  BY <1>2 DEF MainThread, EventThread
<1>3. ASSUME Environment \/ Undefined \/ Halted \/ UNCHANGED vars
      PROVE  UNCHANGED ll
  BY <1>3 DEF Environment
<1> QED  BY ONLY NextCases, <1>1, <1>2, <1>3, [Next]_vars

(* An object is made by an accept and unmade by its destruction.           *)
LEMMA MemWriters ==
  ASSUME [Next]_vars
  PROVE  \/ UNCHANGED mem
         \/ \E t \in Workers : DestroyMutex(t) \/ Unlink(t)
         \/ \E c \in Conns : HandleNewConnection(c) \/ ConnectionUnwatched(c)
<1>1. ASSUME NEW t \in Workers, Worker(t)
      PROVE  UNCHANGED mem \/ DestroyMutex(t) \/ Unlink(t)
  BY <1>1 DEF Worker
<1>2. ASSUME MainThread
      PROVE  UNCHANGED mem
             \/ \E c \in Conns : HandleNewConnection(c) \/ ConnectionUnwatched(c)
  BY <1>2 DEF MainThread, EventThread
<1>3. ASSUME Environment \/ Undefined \/ Halted \/ UNCHANGED vars
      PROVE  UNCHANGED mem
  BY <1>3 DEF Environment
<1> QED  BY ONLY NextCases, <1>1, <1>2, <1>3, [Next]_vars

(* pending_jobs.                                                           *)
LEMMA PendingWriters ==
  ASSUME [Next]_vars
  PROVE  \/ UNCHANGED pending
         \/ \E t \in Workers : CountJob(t) \/ StartJob(t) \/ SetUsername(t)
                               \/ Reply(t)
         \/ CountJob(Main)
<1>1. ASSUME NEW t \in Workers, Worker(t)
      PROVE  UNCHANGED pending \/ CountJob(t) \/ StartJob(t) \/ SetUsername(t)
             \/ Reply(t)
  BY <1>1 DEF Worker
<1>2. ASSUME MainThread
      PROVE  UNCHANGED pending \/ CountJob(Main)
  BY <1>2 DEF MainThread, EventThread
<1>3. ASSUME Environment \/ Undefined \/ Halted \/ UNCHANGED vars
      PROVE  UNCHANGED pending
  BY <1>3 DEF Environment
<1> QED  BY ONLY NextCases, <1>1, <1>2, <1>3, [Next]_vars

(* Names and the time of the last activity.                                *)
LEMMA NameWriters ==
  ASSUME [Next]_vars
  PROVE  \/ UNCHANGED <<registered, idle>>
         \/ \E t \in Workers : SetUsername(t) \/ TryLock(t) \/ BufferFails(t)
         \/ Tick
<1>1. ASSUME NEW t \in Workers, Worker(t)
      PROVE  UNCHANGED <<registered, idle>> \/ SetUsername(t) \/ TryLock(t)
             \/ BufferFails(t)
  BY <1>1 DEF Worker
<1>2. ASSUME MainThread
      PROVE  UNCHANGED <<registered, idle>>
  BY <1>2 DEF MainThread, EventThread
<1>3. ASSUME Environment \/ Undefined \/ Halted \/ UNCHANGED vars
      PROVE  UNCHANGED <<registered, idle>> \/ Tick
  BY <1>3 DEF Environment
<1> QED  BY ONLY NextCases, <1>1, <1>2, <1>3, [Next]_vars

(* Descriptors.                                                            *)
LEMMA SocketWriters ==
  ASSUME [Next]_vars
  PROVE  \/ UNCHANGED <<fd, open>>
         \/ \E t \in Workers : ProcError(t)
         \/ \E c \in Conns : HandleNewConnection(c) \/ ConnectionNoMemory(c)
                             \/ ConnectionUnwatched(c)
<1>1. ASSUME NEW t \in Workers, Worker(t)
      PROVE  UNCHANGED <<fd, open>> \/ ProcError(t)
  BY <1>1 DEF Worker
<1>2. ASSUME MainThread
      PROVE  UNCHANGED <<fd, open>>
             \/ \E c \in Conns : HandleNewConnection(c) \/ ConnectionNoMemory(c) \/ ConnectionUnwatched(c)
  BY <1>2 DEF MainThread, EventThread
<1>3. ASSUME Environment \/ Undefined \/ Halted \/ UNCHANGED vars
      PROVE  UNCHANGED <<fd, open>>
  BY <1>3 DEF Environment
<1> QED  BY ONLY NextCases, <1>1, <1>2, <1>3, [Next]_vars

(* The epoll set and its events.                                           *)
LEMMA EpollWriters ==
  ASSUME [Next]_vars
  PROVE  \/ UNCHANGED <<armed, edge>>
         \/ \E t \in Workers : Rearm(t) \/ ProcError(t) \/ CloseEpollDel(t)
         \/ EpollWait
         \/ \E c \in Conns : HandleEvent(c) \/ HandleNewConnection(c)
         \/ \E c \in Conns : ClientAcks(c) \/ ClientRefuses(c) \/ ClientLeaves(c)
                             \/ \E m \in ClientMsgs : ClientSends(c, m)
<1>1. ASSUME NEW t \in Workers, Worker(t)
      PROVE  UNCHANGED <<armed, edge>> \/ Rearm(t) \/ ProcError(t)
             \/ CloseEpollDel(t)
  BY <1>1 DEF Worker
<1>2. ASSUME MainThread
      PROVE  UNCHANGED <<armed, edge>> \/ EpollWait
             \/ \E c \in Conns : HandleEvent(c) \/ HandleNewConnection(c)
  BY <1>2 DEF MainThread, EventThread
<1>3. ASSUME Environment \/ Undefined \/ Halted \/ UNCHANGED vars
      PROVE  UNCHANGED <<armed, edge>>
             \/ \E c \in Conns : ClientAcks(c) \/ ClientRefuses(c) \/ ClientLeaves(c) \/ \E m \in ClientMsgs : ClientSends(c, m)
  BY <1>3 DEF Environment
<1> QED  BY ONLY NextCases, <1>1, <1>2, <1>3, [Next]_vars

(* What arrives and what is read.                                          *)
LEMMA InboxWriters ==
  ASSUME [Next]_vars
  PROVE  \/ UNCHANGED inbox
         \/ \E t \in Workers : RecvRegister(t) \/ RecvSend(t) \/ RecvBad(t)
                               \/ RecvStatus(t)
         \/ \E c \in Conns : ClientAcks(c) \/ ClientRefuses(c)
                             \/ \E m \in ClientMsgs : ClientSends(c, m)
<1>1. ASSUME NEW t \in Workers, Worker(t)
      PROVE  UNCHANGED inbox \/ RecvRegister(t) \/ RecvSend(t) \/ RecvBad(t)
             \/ RecvStatus(t)
  BY <1>1 DEF Worker
<1>2. ASSUME MainThread
      PROVE  UNCHANGED inbox
  BY <1>2 DEF MainThread, EventThread
<1>3. ASSUME Environment \/ Undefined \/ Halted \/ UNCHANGED vars
      PROVE  UNCHANGED inbox
             \/ \E c \in Conns : ClientAcks(c) \/ ClientRefuses(c) \/ \E m \in ClientMsgs : ClientSends(c, m)
  BY <1>3 DEF Environment
<1> QED  BY ONLY NextCases, <1>1, <1>2, <1>3, [Next]_vars

(* The other end of a connection.                                          *)
LEMMA PeerWriters ==
  ASSUME [Next]_vars
  PROVE  \/ UNCHANGED peer
         \/ \E t \in Workers : SendStatus(t) \/ SendDeliver(t) \/ ProcError(t)
         \/ \E c \in Conns : HandleNewConnection(c) \/ ConnectionNoMemory(c)
                             \/ ConnectionUnwatched(c)
         \/ \E c \in Conns : Connect(c) \/ ClientLeaves(c)
<1>1. ASSUME NEW t \in Workers, Worker(t)
      PROVE  UNCHANGED peer \/ SendStatus(t) \/ SendDeliver(t) \/ ProcError(t)
  BY <1>1 DEF Worker
<1>2. ASSUME MainThread
      PROVE  UNCHANGED peer
             \/ \E c \in Conns : HandleNewConnection(c) \/ ConnectionNoMemory(c) \/ ConnectionUnwatched(c)
  BY <1>2 DEF MainThread, EventThread
<1>3. ASSUME Environment \/ Undefined \/ Halted \/ UNCHANGED vars
      PROVE  UNCHANGED peer \/ \E c \in Conns : Connect(c) \/ ClientLeaves(c)
  BY <1>3 DEF Environment
<1> QED  BY ONLY NextCases, <1>1, <1>2, <1>3, [Next]_vars

(* The ghosts.                                                             *)
LEMMA GhostWriters ==
  ASSUME [Next]_vars
  PROVE  \/ UNCHANGED <<due, owed, awaiting, crossed, sent>>
         \/ \E t \in Workers : SetUsername(t) \/ BroadcastDeliver(t)
                               \/ SendStatus(t) \/ SendDeliver(t)
                               \/ RecvStatus(t) \/ BroadcastDone(t)
         \/ \E c \in Conns : ClientAcks(c) \/ ClientRefuses(c)
                             \/ \E m \in ClientMsgs : ClientSends(c, m)
<1>1. ASSUME NEW t \in Workers, Worker(t)
      PROVE  UNCHANGED <<due, owed, awaiting, crossed, sent>> \/ SetUsername(t)
             \/ BroadcastDeliver(t) \/ SendStatus(t) \/ SendDeliver(t)
             \/ RecvStatus(t) \/ BroadcastDone(t)
  BY <1>1 DEF Worker
<1>2. ASSUME MainThread
      PROVE  UNCHANGED <<due, owed, awaiting, crossed, sent>>
  BY <1>2 DEF MainThread, EventThread
<1>3. ASSUME Environment \/ Undefined \/ Halted \/ UNCHANGED vars
      PROVE  UNCHANGED <<due, owed, awaiting, crossed, sent>>
             \/ \E c \in Conns : ClientAcks(c) \/ ClientRefuses(c) \/ \E m \in ClientMsgs : ClientSends(c, m)
  BY <1>3 DEF Environment
<1> QED  BY ONLY NextCases, <1>1, <1>2, <1>3, [Next]_vars

(* The task queue.                                                         *)
LEMMA QueueWriters ==
  ASSUME [Next]_vars
  PROVE  \/ UNCHANGED queue
         \/ \E t \in Workers : RequeueTask(t) \/ TakeTask(t) \/ SetUsername(t)
                               \/ BroadcastDeliver(t) \/ Reply(t)
         \/ AuditNext
         \/ \E c \in Conns : HandleEvent(c)
<1>1. ASSUME NEW t \in Workers, Worker(t)
      PROVE  UNCHANGED queue \/ RequeueTask(t) \/ TakeTask(t)
             \/ SetUsername(t) \/ BroadcastDeliver(t) \/ Reply(t)
  BY <1>1 DEF Worker
<1>2. ASSUME MainThread
      PROVE  UNCHANGED queue \/ AuditNext \/ \E c \in Conns : HandleEvent(c)
  BY <1>2 DEF MainThread, EventThread
<1>3. ASSUME Environment \/ Undefined \/ Halted \/ UNCHANGED vars
      PROVE  UNCHANGED queue
  BY <1>3 DEF Environment
<1> QED  BY ONLY NextCases, <1>1, <1>2, <1>3, [Next]_vars

(* mutex_conn and conn_status: the owner, or a worker that gets the mutex. *)
LEMMA OwnerWrites ==
  ASSUME [Next]_vars
  PROVE  \/ UNCHANGED <<lock, status>>
         \/ \E t \in Workers : TryLock(t)
         \/ \E t \in Workers :
              /\ Worker(t) /\ th[t].pc \in Locked
              /\ lock' \in {lock, [lock EXCEPT ![Conn(t)] = NULL]}
              /\ \/ UNCHANGED status
                 \/ \E s \in Status : status' = [status EXCEPT ![Conn(t)] = s]
<1>1. ASSUME NEW t \in Workers, Worker(t)
      PROVE  \/ UNCHANGED <<lock, status>>
             \/ TryLock(t)
             \/ /\ th[t].pc \in Locked
                /\ lock' \in {lock, [lock EXCEPT ![Conn(t)] = NULL]}
                /\ \/ UNCHANGED status
                   \/ \E s \in Status : status' = [status EXCEPT ![Conn(t)] = s]
  BY <1>1 DEF Worker, In, At, Locked, Status, Reading, Sending
<1>2. ASSUME MainThread PROVE UNCHANGED <<lock, status>>
  BY <1>2 DEF MainThread, EventThread
<1>3. ASSUME Environment \/ Undefined \/ Halted \/ UNCHANGED vars
      PROVE  UNCHANGED <<lock, status>>
  BY <1>3 DEF Environment
<1> QED  BY ONLY NextCases, <1>1, <1>2, <1>3, [Next]_vars


(* What epoll and the signals have told the main thread, and the process.  *)
LEMMA BatchWriters ==
  ASSUME [Next]_vars
  PROVE  /\ UNCHANGED batch \/ MainThread
         /\ \/ UNCHANGED batch
            \/ batch' = {}
            \/ EpollWait
            \/ \E e \in Conns \cup {"server", "signal"} : Handled(e)
<1>1. ASSUME NEW t \in Workers, Worker(t)
      PROVE  UNCHANGED batch
  BY <1>1 DEF Worker
<1>2. ASSUME MainThread
      PROVE  \/ UNCHANGED batch \/ batch' = {} \/ EpollWait
             \/ \E e \in Conns \cup {"server", "signal"} : Handled(e)
  BY <1>2 DEF MainThread, EventThread
<1>3. ASSUME Environment \/ Undefined \/ Halted \/ UNCHANGED vars
      PROVE  UNCHANGED batch
  BY <1>3 DEF Environment
<1> QED  BY ONLY NextCases, <1>1, <1>2, <1>3, [Next]_vars

LEMMA ProcWriters ==
  ASSUME [Next]_vars
  PROVE  /\ sig' \subseteq sig \cup {"SIGINT", "SIGALRM"}
         /\ proc' \in {proc, "stopped", "killed", "undefined"}
<1>1. ASSUME NEW t \in Workers, Worker(t)
      PROVE  UNCHANGED sig /\ proc' \in {proc, "killed"}
  BY <1>1 DEF Worker
<1>2. ASSUME MainThread
      PROVE  sig' \subseteq sig /\ proc' \in {proc, "stopped"}
  BY <1>2 DEF MainThread, EventThread
<1>3. ASSUME Environment \/ Undefined \/ Halted \/ UNCHANGED vars
      PROVE  sig' \subseteq sig \cup {"SIGINT", "SIGALRM"} /\ proc' \in {proc, "undefined"}
  BY <1>3 DEF Environment
<1> QED  BY ONLY NextCases, <1>1, <1>2, <1>3, [Next]_vars

(* conn_status, action by action.                                          *)
LEMMA StatusWriters ==
  ASSUME [Next]_vars
  PROVE  \/ UNCHANGED status
         \/ \E t \in Workers :
              \/ HeartbeatTimeout(t) \/ RecvNothing(t) \/ RecvBad(t) \/ RecvStatus(t)
              \/ FindUser(t) \/ BroadcastDone(t) \/ Reply(t) \/ StartSendMsg(t)
              \/ SendStatus(t) \/ SendDeliver(t) \/ SendFails(t) \/ CloseEpollDel(t)
<1>1. ASSUME NEW t \in Workers, Worker(t)
      PROVE  \/ UNCHANGED status
             \/ HeartbeatTimeout(t) \/ RecvNothing(t) \/ RecvBad(t) \/ RecvStatus(t)
             \/ FindUser(t) \/ BroadcastDone(t) \/ Reply(t) \/ StartSendMsg(t)
             \/ SendStatus(t) \/ SendDeliver(t) \/ SendFails(t) \/ CloseEpollDel(t)
  BY <1>1 DEF Worker
<1>2. ASSUME MainThread
      PROVE  UNCHANGED status
  BY <1>2 DEF MainThread, EventThread
<1>3. ASSUME Environment \/ Undefined \/ Halted \/ UNCHANGED vars
      PROVE  UNCHANGED status
  BY <1>3 DEF Environment
<1> QED  BY ONLY NextCases, <1>1, <1>2, <1>3, [Next]_vars

HIDE DEF conn, socket, event, ghost, vars, Fail, Receives, Arrives, EpollAdd, EpollDel,
         SendOk, Cleanup, Requeue, RequeueNoUnlock, RequeueFreed, Unlock, SetStatus, EnqueueTask,
         EnqueueOwn, Handled
HIDE DEF RequeueTask, CountJob, TakeTask, StartJob, TryLock, BufferFails, TryLockFails,
         HeartbeatOk, HeartbeatTimeout, RecvNothing, RecvRegister, RecvSend, RecvBad,
         RecvStatus, Rearm, FindUser, SetUsername, BroadcastLock, BroadcastDeliver,
         BroadcastNoMemory, BroadcastSkip, BroadcastDone, Reply, Replied, StartSendMsg,
         SendStatus, SendDeliver, SendFails, SigPipe, Postpone, ProcError, CloseEpollDel,
         ClosingLater, ClosingNow, DestroyUnlock, DestroyMutex, Unlink
HIDE DEF EpollWait, EpollInterrupted, HandleEvent, HandleNewConnection, ConnectionNoMemory,
         ConnectionUnwatched, EventNoMemory, AcceptFails, HandleSigInt, HandleSigAlrm,
         AuditNext, AuditNoMemory, AuditDone, Shutdown,
         Connect, ClientSends, ClientAcks, ClientRefuses, ClientLeaves, Tick, SigInt, Undefined, Halted
-----------------------------------------------------------------------------
(* A step of a worker changes its own local variables only, and leaves     *)
(* them in one of the shapes.                                              *)
LEMMA WorkerLocal ==
  ASSUME BaseInv, NEW t \in Workers, Worker(t)
  PROVE  /\ th' = [th EXCEPT ![t] = th'[t]]
         /\ th'[t] \in Locals
         /\ WorkerShape(th'[t])
<1> DEFINE Goal == /\ th' = [th EXCEPT ![t] = th'[t]]
                   /\ th'[t] \in Locals
                   /\ WorkerShape(th'[t])
<1>a. th \in [Threads -> Locals] /\ t \in Threads /\ WorkerShape(th[t])
  BY DEF BaseInv, ThreadsOK, Threads
<1> USE <1>a, NoTaskIsNone DEF WorkerShape, WithTask, Locked, Locals, At, In
<1>1. CASE \/ RequeueTask(t) \/ StartJob(t) \/ RecvRegister(t) \/ RecvSend(t) \/ RecvStatus(t)
           \/ SetUsername(t) \/ Reply(t) \/ SendStatus(t) \/ SendDeliver(t) \/ ProcError(t)
           \/ ClosingNow(t) \/ DestroyMutex(t)
  BY <1>1 DEF RequeueTask, StartJob, RecvRegister, RecvSend, RecvStatus, SetUsername,
     Reply, SendStatus, SendDeliver, ProcError, ClosingNow, DestroyMutex, Goto, Receives,
     Reading, Sending
<1>2. CASE CountJob(t)
  BY <1>2 DEF CountJob
<1>3. CASE TakeTask(t)
  <2>1. Head(queue) \in Tasks
    BY <1>3 DEF TakeTask, BaseInv, QueueTyped
  <2> QED  BY <1>3, <2>1 DEF TakeTask
<1>4. CASE TryLock(t)
  BY <1>4, BufferMade DEF TryLock
<1>5. CASE \/ HeartbeatOk(t) \/ BufferFails(t) \/ Rearm(t) \/ Replied(t) \/ SendFails(t)
           \/ ClosingLater(t) \/ Unlink(t)
  BY <1>5, ServerAssumption DEF HeartbeatOk, BufferFails, Rearm, Replied, SendFails,
     ClosingLater, Unlink, Cleanup, IdleWorker, Local
<1>6a. CASE RecvNothing(t)
  <2>1. th[t].pc = "proc" /\ RequeueFreed(t)
    BY <1>6a DEF RecvNothing, Reading
  <2>2. Inbound(Conn(t)) \in Tasks
    BY <2>1, TaskFields, TasksMade DEF Conn
  <2> QED  BY <2>1, <2>2, ServerAssumption DEF RequeueFreed, Local
<1>6. CASE \/ TryLockFails(t) \/ RecvBad(t) \/ StartSendMsg(t)
           \/ Postpone(t) \/ CloseEpollDel(t)
  <2>1. th[t].pc \in {"lock", "proc", "del"}
    BY <1>6 DEF TryLockFails, RecvBad, StartSendMsg, Postpone, CloseEpollDel,
       Receives, Reading
  <2>2. RequeueNoUnlock(t)
    BY <1>6 DEF TryLockFails, RecvBad, StartSendMsg, Postpone, CloseEpollDel,
       Fail, Requeue
  <2> QED  BY <2>1, <2>2 DEF RequeueNoUnlock, Local
<1>7. CASE FindUser(t)
  <2>1. CASE FindByUsername(Conn(t)) # NULL
    BY <1>7, <2>1 DEF FindUser, Fail, Requeue, RequeueNoUnlock, Local
  <2>2. CASE FindByUsername(Conn(t)) = NULL
    BY <1>7, <2>2 DEF FindUser, Goto
  <2> QED  BY <2>1, <2>2
<1>8. CASE HeartbeatTimeout(t) \/ SigPipe(t) \/ BroadcastSkip(t)
  BY <1>8 DEF HeartbeatTimeout, SigPipe, BroadcastSkip, vars
<1>9. CASE BroadcastLock(t)
  <2>1. WalkTo(t, Front) \in Conns \cup {NULL}
    BY <1>9, FrontLinked, WalkToLinked, TaskFields DEF BroadcastLock, BaseInv, Conn
  <2> QED  BY <1>9, <2>1 DEF BroadcastLock
<1>10. CASE BroadcastDeliver(t) \/ BroadcastNoMemory(t)
  <2>1. th[t].pc = "next" /\ th[t].cur # NULL /\ th[t].cur \in Conns
    BY <1>10 DEF BroadcastDeliver, BroadcastNoMemory
  <2>2. mem[th[t].cur] # "freed"
    BY <1>10, <2>1 DEF BroadcastDeliver, BroadcastNoMemory, Deref, IsDestroyed
  <2>3. Linked(th[t].cur)
    BY <2>1, <2>2 DEF BaseInv, ConnTyped, InUse, LinkedWhileUsed
  <2>4. WalkTo(t, NextNode(th[t].cur)) \in Conns \cup {NULL}
    BY <2>1, <2>3, NextNodeLinked, WalkToLinked, TaskFields DEF BaseInv, Conn
  <2>5. Deliver(th[t].cur) \in Tasks
    BY <2>1, TasksMade
  <2> QED  BY <1>10, <2>1, <2>4, <2>5 DEF BroadcastDeliver, BroadcastNoMemory
<1>11. CASE BroadcastDone(t)
  <2>1. Goto(t, "reply") \/ Goto(t, "arm") \/ Goto(t, "destroy")
    BY <1>11 DEF BroadcastDone
  <2> QED  BY <1>11, <2>1 DEF BroadcastDone, Goto
<1>12. CASE DestroyUnlock(t)
  <2>1. Front \in Conns \cup {NULL}
    BY FrontLinked DEF BaseInv
  <2> QED  BY <1>12, <2>1 DEF DestroyUnlock
<1> QED
  BY <1>1, <1>2, <1>3, <1>4, <1>5, <1>6a, <1>6, <1>7, <1>8, <1>9, <1>10, <1>11, <1>12 DEF Worker

(* The main thread likewise.  The audit goes from node to node.            *)
LEMMA MainLocal ==
  ASSUME BaseInv, MainThread
  PROVE  /\ th' = [th EXCEPT ![Main] = th'[Main]]
         /\ th'[Main] \in Locals
         /\ MainShape(th'[Main])
<1>a. th \in [Threads -> Locals] /\ Main \in Threads /\ MainShape(th[Main])
  BY DEF BaseInv, ThreadsOK, Threads
<1> USE <1>a, NoTaskIsNone DEF MainShape, Locals, At, MainIs
<1>1. CASE CountJob(Main)
  BY <1>1 DEF CountJob
<1>2. CASE EpollInterrupted \/ HandleSigInt \/ AuditNoMemory \/ AuditDone
  BY <1>2 DEF EpollInterrupted, HandleSigInt, AuditNoMemory, AuditDone, Waiting, Goto
<1>3. CASE EventNoMemory
  BY <1>3 DEF EventNoMemory, Goto
<1>4. CASE \/ EpollWait \/ AcceptFails \/ Shutdown
           \/ \E c \in Conns : \/ HandleNewConnection(c) \/ ConnectionNoMemory(c)
                               \/ ConnectionUnwatched(c)
  BY <1>4 DEF EpollWait, AcceptFails, Shutdown, HandleNewConnection, ConnectionNoMemory,
     ConnectionUnwatched
<1>5. ASSUME NEW c \in Conns, HandleEvent(c)
      PROVE  /\ th' = [th EXCEPT ![Main] = th'[Main]]
             /\ th'[Main] \in Locals
             /\ MainShape(th'[Main])
  BY <1>5, TasksMade DEF HandleEvent, Local
<1>6. CASE HandleSigAlrm
  BY <1>6, FrontLinked DEF HandleSigAlrm, BaseInv
<1>7. CASE AuditNext
  <2>1. th[Main].pc = "audit" /\ th[Main].cur # NULL /\ th[Main].cur \in Conns
    BY <1>7 DEF AuditNext
  <2>2. Linked(th[Main].cur)
    BY <1>7, <2>1 DEF AuditNext, Deref, IsDestroyed, BaseInv, ConnTyped, InUse, LinkedWhileUsed
  <2>3. NextNode(th[Main].cur) \in Conns \cup {NULL}
    BY <2>1, <2>2, NextNodeLinked DEF BaseInv
  <2> QED  BY <1>7, <2>1, <2>3, TasksMade DEF AuditNext, Local
<1> QED  BY <1>1, <1>2, <1>3, <1>4, <1>5, <1>6, <1>7 DEF MainThread, EventThread

LEMMA OthersLocal ==
  ASSUME Environment \/ Undefined \/ Halted \/ UNCHANGED vars
  PROVE  UNCHANGED th
  BY DEF Environment, Connect, ClientSends, ClientAcks, ClientRefuses, Arrives, ClientLeaves, Tick, SigInt,
     Undefined, Halted, vars

LEMMA ThreadsStep ==
  ASSUME BaseInv, [Next]_vars
  PROVE  ThreadsOK'
<1>1. ASSUME NEW t \in Workers, Worker(t) PROVE ThreadsOK'
  BY <1>1, WorkerLocal, ServerAssumption DEF BaseInv, ThreadsOK, Threads
<1>2. CASE MainThread
  BY <1>2, MainLocal, ServerAssumption DEF BaseInv, ThreadsOK, Threads
<1>3. CASE Environment \/ Undefined \/ Halted \/ UNCHANGED vars
  BY <1>3, OthersLocal DEF BaseInv, ThreadsOK
<1> QED  BY <1>1, <1>2, <1>3, NextCases
-----------------------------------------------------------------------------
(* The other variables keep their types.                                   *)

LEMMA HasTask ==
  ASSUME BaseInv, NEW t \in Workers, th[t].pc \in WithTask
  PROVE  /\ th[t].task \in Tasks /\ th[t].task # NoTask
         /\ Conn(t) \in Conns
         /\ mem[Conn(t)] # "none"
  BY NoTaskIsNone, TaskFields DEF BaseInv, ThreadsOK, WorkerShape, InUse, Conn, Threads

LEMMA QueueStep ==
  ASSUME BaseInv, [Next]_vars
  PROVE  QueueTyped'
<1> USE DEF BaseInv, QueueTyped, EnqueueTask, EnqueueOwn, At
<1>1. ASSUME NEW t \in Workers, RequeueTask(t) PROVE QueueTyped'
  <2>1. th[t].out \in Tasks
    BY <1>1 DEF RequeueTask, ThreadsOK, WorkerShape
  <2> QED  BY <1>1, <2>1 DEF RequeueTask
<1>2. ASSUME NEW t \in Workers, TakeTask(t) PROVE QueueTyped'
  BY <1>2 DEF TakeTask
<1>3. ASSUME NEW t \in Workers, SetUsername(t) \/ Reply(t) PROVE QueueTyped'
  <2>1. Conn(t) \in Conns
    BY <1>3, HasTask DEF SetUsername, Reply, WithTask, Locked
  <2>2. Deliver(Conn(t)) \in Tasks /\ StatusGood(Conn(t)) \in Tasks
    BY <2>1, TasksMade
  <2>3. queue' \in {queue, Append(queue, Deliver(Conn(t))), Append(queue, StatusGood(Conn(t)))}
    BY <1>3 DEF SetUsername, Reply
  <2> QED  BY <2>2, <2>3
<1>4. ASSUME NEW t \in Workers, BroadcastDeliver(t) PROVE QueueTyped'
  <2>1. th[t].cur \in Conns
    BY <1>4 DEF BroadcastDeliver, ThreadsOK, Threads, Locals
  <2> QED  BY <1>4, <2>1, TasksMade DEF BroadcastDeliver
<1>5. CASE AuditNext
  <2>1. th[Main].cur \in Conns
    BY <1>5 DEF AuditNext, ThreadsOK, Threads, Locals
  <2> QED  BY <1>5, <2>1, TasksMade DEF AuditNext
<1>6. ASSUME NEW c \in Conns, HandleEvent(c) PROVE QueueTyped'
  BY <1>6, TasksMade DEF HandleEvent
<1> QED  BY <1>1, <1>2, <1>3, <1>4, <1>5, <1>6, QueueWriters

(* A client that is accepted has no node yet.                              *)
LEMMA AcceptedIsNew ==
  ASSUME BaseInv, NEW c \in Conns,
         HandleNewConnection(c) \/ ConnectionNoMemory(c) \/ ConnectionUnwatched(c)
  PROVE  mem[c] = "none" /\ ~open[c] /\ fd[c] = 0 /\ ~Linked(c)
<1>1. mem[c] = "none" /\ ~open[c] /\ fd[c] = 0
  BY DEF BaseInv, Fresh, HandleNewConnection, ConnectionNoMemory, ConnectionUnwatched
<1> QED  BY <1>1 DEF BaseInv, InUse, Linked

LEMMA ListStep ==
  ASSUME BaseInv, [Next]_vars
  PROVE  ListTyped'
<1>1. list' \in Seq(Conns) /\ \A i, j \in DOMAIN list' : list'[i] = list'[j] => i = j
  <2>1. ASSUME NEW t \in Workers, Unlink(t)
        PROVE  list' \in Seq(Conns) /\ \A i, j \in DOMAIN list' : list'[i] = list'[j] => i = j
    <3>1. Conn(t) \in Conns /\ list' = Unlinked(Conn(t))
      BY <2>1, HasTask DEF Unlink, At, WithTask
    <3> QED  BY <3>1, UnlinkedList DEF BaseInv
  <2>2. ASSUME NEW c \in Conns, HandleNewConnection(c) \/ ConnectionUnwatched(c)
        PROVE  list' \in Seq(Conns) /\ \A i, j \in DOMAIN list' : list'[i] = list'[j] => i = j
    <3>1. ~Linked(c) /\ list' = Append(list, c)
      BY <2>2, AcceptedIsNew DEF HandleNewConnection, ConnectionUnwatched
    <3> QED  BY <3>1, AppendedList DEF BaseInv
  <2> QED  BY <2>1, <2>2, ListWriters DEF BaseInv, ListTyped
<1>2. ll' \in Threads \cup {NULL}
  BY LLWriters DEF BaseInv, ListTyped, Threads, BroadcastLock, BroadcastDone, AcceptFails,
     HandleSigAlrm, AuditNoMemory, AuditDone
<1> QED  BY <1>1, <1>2 DEF ListTyped

LEMMA ConnStep ==
  ASSUME BaseInv, [Next]_vars
  PROVE  ConnTyped'
<1> USE DEF BaseInv, ConnTyped
<1>1. mem' \in [Conns -> {"none", "live", "dead", "freed"}]
  BY MemWriters DEF DestroyMutex, Unlink, HandleNewConnection, ConnectionUnwatched
<1>2. lock' \in [Conns -> Workers \cup {NULL}] /\ status' \in [Conns -> Status]
  BY OwnerWrites DEF TryLock
<1>3. pending' \in [Conns -> Int]
  <2>1. ASSUME NEW t \in Threads, CountJob(t) \/ StartJob(t)
        PROVE  pending' \in [Conns -> Int]
    BY <2>1 DEF CountJob, StartJob
  <2>2. ASSUME NEW t \in Workers, SetUsername(t) \/ Reply(t)
        PROVE  pending' \in [Conns -> Int]
    BY <2>2 DEF SetUsername, Reply, EnqueueOwn
  <2> QED  BY <2>1, <2>2, PendingWriters DEF Threads
<1>4. registered' \in [Conns -> BOOLEAN] /\ idle' \in [Conns -> 0 .. TIMEOUT + 1]
  <2>0. TIMEOUT \in Nat
    BY ServerAssumption
  <2>1. ASSUME NEW t \in Workers, TryLock(t) \/ BufferFails(t)
        PROVE  UNCHANGED registered /\ idle' \in [Conns -> 0 .. TIMEOUT + 1]
    <3>1. UNCHANGED registered /\ Touch(t)
      BY <2>1 DEF TryLock, BufferFails
    <3>2. idle' = [idle EXCEPT ![Conn(t)] = idle[Conn(t)]] \/ idle' = [idle EXCEPT ![Conn(t)] = 0]
      BY <3>1 DEF Touch
    <3>3. 0 \in 0 .. TIMEOUT + 1
      BY <2>0
    <3> QED  BY <3>1, <3>2, <3>3
  <2>2. ASSUME NEW t \in Workers, SetUsername(t)
        PROVE  registered' \in [Conns -> BOOLEAN] /\ UNCHANGED idle
    BY <2>2 DEF SetUsername
  <2>3. ASSUME Tick
        PROVE  UNCHANGED registered /\ idle' \in [Conns -> 0 .. TIMEOUT + 1]
    BY <2>0, <2>3 DEF Tick
  <2> QED  BY <2>1, <2>2, <2>3, NameWriters
<1> QED  BY <1>1, <1>2, <1>3, <1>4

LEMMA SocketStep ==
  ASSUME BaseInv, [Next]_vars
  PROVE  SocketTyped'
<1> USE DEF BaseInv, SocketTyped
<1>1. fd' \in [Conns -> 0 .. Cardinality(Conns)] /\ open' \in [Conns -> BOOLEAN]
  <2>1. ASSUME NEW c \in Conns,
               HandleNewConnection(c) \/ ConnectionNoMemory(c) \/ ConnectionUnwatched(c)
        PROVE  /\ fd' \in [Conns -> 0 .. Cardinality(Conns)]
               /\ open' \in [Conns -> BOOLEAN]
    <3>1. FreeFd \in 1 .. Cardinality(Conns)
      BY <2>1, AcceptedIsNew, FreeFdExists
    <3>2. fd' = [fd EXCEPT ![c] = FreeFd] /\ open' = [open EXCEPT ![c] = TRUE]
      BY <2>1 DEF HandleNewConnection, ConnectionNoMemory, ConnectionUnwatched
    <3>3. Cardinality(Conns) \in Nat
      BY ServerAssumption, FS_CardinalityType
    <3> QED  BY <3>1, <3>2, <3>3
  <2>2. ASSUME NEW t \in Workers, ProcError(t)
        PROVE  UNCHANGED fd /\ open' \in [Conns -> BOOLEAN]
    BY <2>2 DEF ProcError
  <2> QED  BY <2>1, <2>2, SocketWriters
<1>2. armed' \in [Conns -> BOOLEAN] /\ edge' \in [Conns -> BOOLEAN]
  <2>1. ASSUME NEW t \in Workers, Rearm(t) \/ ProcError(t) \/ CloseEpollDel(t)
        PROVE  armed' \in [Conns -> BOOLEAN] /\ edge' \in [Conns -> BOOLEAN]
    BY <2>1 DEF Rearm, ProcError, CloseEpollDel, EpollAdd, EpollDel, Readable
  <2>2. ASSUME NEW c \in Conns, HandleEvent(c) \/ HandleNewConnection(c)
        PROVE  armed' \in [Conns -> BOOLEAN] /\ edge' \in [Conns -> BOOLEAN]
    BY <2>2 DEF HandleEvent, HandleNewConnection, EpollAdd, EpollDel, Readable
  <2>3. ASSUME NEW c \in Conns, NEW m,
               ClientAcks(c) \/ ClientRefuses(c) \/ ClientLeaves(c) \/ ClientSends(c, m) \/ EpollWait
        PROVE  armed' \in [Conns -> BOOLEAN] /\ edge' \in [Conns -> BOOLEAN]
    BY <2>3 DEF ClientAcks, ClientRefuses, ClientLeaves, ClientSends, Arrives, EpollWait
  <2>4. CASE EpollWait
    BY <2>4 DEF EpollWait
  <2> QED  BY <2>1, <2>2, <2>3, <2>4, EpollWriters
<1>3. inbox' \in [Conns -> Seq(MsgKinds)]
  <2>1. ASSUME NEW t \in Workers, RecvRegister(t) \/ RecvSend(t) \/ RecvBad(t) \/ RecvStatus(t)
        PROVE  inbox' \in [Conns -> Seq(MsgKinds)]
    <3>1. inbox[Conn(t)] # << >> /\ inbox' = [inbox EXCEPT ![Conn(t)] = Tail(@)]
      BY <2>1 DEF RecvRegister, RecvSend, RecvBad, RecvStatus, Receives
    <3>2. \A c \in Conns : inbox[c] # << >> => Tail(inbox[c]) \in Seq(MsgKinds)
      OBVIOUS
    <3> QED  BY <3>1, <3>2
  <2>2. ASSUME NEW c \in Conns, ClientAcks(c) \/ ClientRefuses(c) PROVE inbox' \in [Conns -> Seq(MsgKinds)]
    <3>1. {"STATUS_GOOD", "STATUS_BAD", "OTHER"} \subseteq MsgKinds
      BY DEF MsgKinds
    <3>2. /\ <<"STATUS_GOOD", "OTHER">> \in Seq(MsgKinds)
          /\ <<"STATUS_GOOD">> \in Seq(MsgKinds) /\ <<"STATUS_BAD">> \in Seq(MsgKinds)
      BY <3>1
    <3>3. \E q \in {<<"STATUS_GOOD", "OTHER">>, <<"STATUS_GOOD">>, <<"STATUS_BAD">>} :
            inbox' = [inbox EXCEPT ![c] = @ \o q]
      BY <2>2 DEF ClientAcks, ClientRefuses, Arrives
    <3>4. PICK q \in Seq(MsgKinds) : inbox' = [inbox EXCEPT ![c] = inbox[c] \o q]
      BY <3>2, <3>3
    <3>5. inbox \in [Conns -> Seq(MsgKinds)] /\ inbox[c] \o q \in Seq(MsgKinds)
      OBVIOUS
    <3> QED  BY ONLY <3>4, <3>5
  <2>3. ASSUME NEW c \in Conns, NEW m \in ClientMsgs, ClientSends(c, m)
        PROVE  inbox' \in [Conns -> Seq(MsgKinds)]
    <3>1. m \in MsgKinds /\ inbox' = [inbox EXCEPT ![c] = @ \o <<m>>]
      BY <2>3, ClientAssumption DEF ClientSends, Arrives
    <3> QED  BY <3>1
  <2> QED  BY <2>1, <2>2, <2>3, InboxWriters
<1>4. peer' \in [Conns -> {"out", "backlog", "open", "closed", "reset"}]
  BY PeerWriters DEF SendStatus, SendDeliver, ProcError, SendOk, HandleNewConnection,
     ConnectionNoMemory, ConnectionUnwatched, Connect, ClientLeaves
<1> QED  BY <1>1, <1>2, <1>3, <1>4

LEMMA GhostStep ==
  ASSUME BaseInv, [Next]_vars
  PROVE  GhostTyped'
<1>0. GhostTyped
  BY DEF BaseInv
<1> USE <1>0 DEF GhostTyped
<1>1. ASSUME NEW t \in Workers,
             \/ SetUsername(t) \/ BroadcastDeliver(t) \/ SendStatus(t) \/ SendDeliver(t)
             \/ RecvStatus(t) \/ BroadcastDone(t)
      PROVE  GhostTyped'
  <2>1. CASE SetUsername(t)
    BY <2>1 DEF SetUsername
  <2>2. CASE BroadcastDeliver(t)
    <3>1. due' = [due EXCEPT ![th[t].cur] = @ + 1] /\ UNCHANGED <<owed, awaiting, crossed, sent>>
      BY <2>2 DEF BroadcastDeliver
    <3>2. th[t].cur \in Conns
      BY <2>2 DEF BroadcastDeliver, BaseInv, ThreadsOK, Threads, Locals
    <3> QED  BY <3>1, <3>2
  <2>3. CASE SendStatus(t)
    BY <2>3 DEF SendStatus
  <2>4. CASE SendDeliver(t)
    <3>1. /\ due' = [due EXCEPT ![Conn(t)] = @ - 1] /\ owed' = [owed EXCEPT ![Conn(t)] = @ + 1]
          /\ UNCHANGED <<awaiting, crossed, sent>>
      BY <2>4 DEF SendDeliver
    <3>2. Conn(t) \in Conns
      BY <2>4, HasTask DEF SendDeliver, Sending, In, At, WithTask, Locked
    <3> QED  BY <3>1, <3>2
  <2>5. CASE RecvStatus(t) \/ BroadcastDone(t)
    <3>1. Conn(t) \in Conns
      BY <2>5, HasTask DEF RecvStatus, BroadcastDone, In, At, WithTask, Locked
    <3>2. /\ crossed' \in {crossed, [crossed EXCEPT ![Conn(t)] = @ + 1]}
          /\ UNCHANGED <<due, owed, awaiting, sent>>
      BY <2>5 DEF RecvStatus, BroadcastDone, Crosses
    <3> QED  BY <3>1, <3>2
  <2> QED  BY <1>1, <2>1, <2>2, <2>3, <2>4, <2>5
<1>2. ASSUME NEW c \in Conns, ClientAcks(c) \/ ClientRefuses(c)
      PROVE  GhostTyped'
  <2>1. /\ owed[c] > 0 /\ owed' = [owed EXCEPT ![c] = @ - 1]
        /\ UNCHANGED <<due, awaiting, crossed, sent>>
    BY <1>2 DEF ClientAcks, ClientRefuses, Arrives
  <2> QED  BY <2>1
<1>3. ASSUME NEW c \in Conns, NEW m, ClientSends(c, m)
      PROVE  GhostTyped'
  <2>1. /\ sent' = [sent EXCEPT ![c] = @ + 1] /\ UNCHANGED <<due, owed>>
        /\ crossed' \in {crossed, [crossed EXCEPT ![c] = @ + 1]}
    BY <1>3 DEF ClientSends, Arrives, Crosses
  <2>2. awaiting' \in [Conns -> BOOLEAN]
    BY <1>3 DEF ClientSends
  <2>3. sent' \in [Conns -> Nat] /\ crossed' \in [Conns -> Nat]
    BY <2>1
  <2> QED  BY <2>1, <2>2, <2>3
<1> QED  BY <1>1, <1>2, <1>3, GhostWriters

LEMMA EventStep ==
  ASSUME BaseInv, [Next]_vars
  PROVE  EventTyped'
<1>1. batch' \subseteq Conns \cup {"server", "signal", "first"}
  BY BatchWriters DEF BaseInv, EventTyped, Handled, EpollWait, ReadyEvents
<1> QED  BY <1>1, ProcWriters DEF BaseInv, EventTyped
-----------------------------------------------------------------------------
(* Objects, nodes and tasks.                                               *)

(* An object that was made is never one that was not.                      *)
LEMMA MemStep ==
  ASSUME BaseInv, [Next]_vars, NEW c \in Conns, mem[c] # "none"
  PROVE  mem'[c] # "none"
<1>1. ASSUME NEW t \in Workers, DestroyMutex(t) \/ Unlink(t)
      PROVE  mem'[c] # "none"
  BY <1>1 DEF BaseInv, ConnTyped, DestroyMutex, Unlink
<1>2. ASSUME NEW d \in Conns, HandleNewConnection(d) \/ ConnectionUnwatched(d)
      PROVE  mem'[c] # "none"
  BY <1>2 DEF BaseInv, ConnTyped, HandleNewConnection, ConnectionUnwatched
<1> QED  BY <1>1, <1>2, MemWriters

LEMMA FreshStep ==
  ASSUME BaseInv, [Next]_vars
  PROVE  Fresh'
<1> SUFFICES ASSUME NEW c \in Conns
             PROVE  /\ peer'[c] \in {"out", "backlog"} => mem'[c] = "none" /\ ~open'[c] /\ fd'[c] = 0
                    /\ mem'[c] = "none" => /\ status'[c] = "PRE_REGISTER" /\ ~registered'[c]
                                           /\ ~armed'[c] /\ c \notin batch'
  BY DEF Fresh
<1>0. /\ peer[c] \in {"out", "backlog"} => mem[c] = "none" /\ ~open[c] /\ fd[c] = 0
      /\ mem[c] = "none" => /\ status[c] = "PRE_REGISTER" /\ ~registered[c]
                            /\ ~armed[c] /\ c \notin batch
  BY DEF BaseInv, Fresh
<1>1. peer'[c] \in {"out", "backlog"} => peer[c] \in {"out", "backlog"}
  BY PeerWriters DEF BaseInv, SocketTyped, SendStatus, SendDeliver, ProcError, SendOk,
     HandleNewConnection, ConnectionNoMemory, ConnectionUnwatched, Connect, ClientLeaves
<1>2. ASSUME peer'[c] \in {"out", "backlog"}
      PROVE  mem'[c] = "none" /\ ~open'[c] /\ fd'[c] = 0
  <2>1. mem[c] = "none" /\ ~open[c] /\ fd[c] = 0
    BY <1>0, <1>1, <1>2
  <2>2. ASSUME NEW d \in Conns,
               HandleNewConnection(d) \/ ConnectionNoMemory(d) \/ ConnectionUnwatched(d)
        PROVE  d # c
    BY <1>2, <2>2 DEF HandleNewConnection, ConnectionNoMemory, ConnectionUnwatched, BaseInv,
       SocketTyped
  <2>3. mem'[c] = "none"
    <3>1. ASSUME NEW t \in Workers, DestroyMutex(t) \/ Unlink(t)
          PROVE  Conn(t) # c
      BY <2>1, <3>1, HasTask DEF DestroyMutex, Unlink, At, WithTask
    <3>2. ASSUME NEW t \in Workers, DestroyMutex(t) \/ Unlink(t)
          PROVE  mem'[c] = mem[c]
      BY <3>1, <3>2 DEF DestroyMutex, Unlink, BaseInv, ConnTyped
    <3>3. ASSUME NEW d \in Conns, HandleNewConnection(d) \/ ConnectionUnwatched(d)
          PROVE  mem'[c] = mem[c]
      BY <2>2, <3>3 DEF HandleNewConnection, ConnectionUnwatched, BaseInv, ConnTyped
    <3> QED  BY <2>1, <3>2, <3>3, MemWriters
  <2>4. ~open'[c] /\ fd'[c] = 0
    <3>1. ASSUME NEW t \in Workers, ProcError(t)
          PROVE  ~open'[c] /\ fd'[c] = 0
      BY <2>1, <3>1 DEF ProcError, BaseInv, SocketTyped
    <3>2. ASSUME NEW d \in Conns,
                 HandleNewConnection(d) \/ ConnectionNoMemory(d) \/ ConnectionUnwatched(d)
          PROVE  ~open'[c] /\ fd'[c] = 0
      BY <2>1, <2>2, <3>2 DEF HandleNewConnection, ConnectionNoMemory, ConnectionUnwatched,
         BaseInv, SocketTyped
    <3> QED  BY <2>1, <3>1, <3>2, SocketWriters
  <2> QED  BY <2>3, <2>4
<1>3. ASSUME mem'[c] = "none"
      PROVE  status'[c] = "PRE_REGISTER" /\ ~registered'[c] /\ ~armed'[c] /\ c \notin batch'
  <2>1. mem[c] = "none"
    BY <1>3, MemStep
  <2>2. status[c] = "PRE_REGISTER" /\ ~registered[c] /\ ~armed[c] /\ c \notin batch
    BY <1>0, <2>1
  <2>3. \A t \in Workers : th[t].pc \in WithTask => Conn(t) # c
    BY <2>1, HasTask
  <2>4. status'[c] = "PRE_REGISTER"
    BY <2>2, <2>3, OwnerWrites DEF TryLock, WithTask, BaseInv, ConnTyped
  <2>5. ~registered'[c]
    BY <2>2, <2>3, NameWriters DEF SetUsername, TryLock, BufferFails, Tick, At, WithTask, Locked,
       BaseInv, ConnTyped
  <2>6. ~armed'[c]
    <3>1. ASSUME NEW t \in Workers, Rearm(t) \/ ProcError(t) \/ CloseEpollDel(t)
          PROVE  ~armed'[c]
      BY <2>2, <2>3, <3>1 DEF Rearm, ProcError, CloseEpollDel, EpollAdd, EpollDel, In, At,
         WithTask, Locked, BaseInv, SocketTyped
    <3>2. ASSUME NEW d \in Conns, HandleEvent(d)
          PROVE  ~armed'[c]
      BY <2>2, <3>2 DEF HandleEvent, EpollDel
    <3>3. ASSUME NEW d \in Conns, HandleNewConnection(d)
          PROVE  ~armed'[c]
      <4>1. d # c
        BY <1>3, <3>3 DEF HandleNewConnection, BaseInv, ConnTyped
      <4> QED  BY <2>2, <3>3, <4>1 DEF HandleNewConnection, EpollAdd, BaseInv, SocketTyped
    <3>4. ASSUME NEW d \in Conns, NEW m,
                 ClientAcks(d) \/ ClientRefuses(d) \/ ClientLeaves(d) \/ ClientSends(d, m)
          PROVE  ~armed'[c]
      BY <2>2, <3>4 DEF ClientAcks, ClientRefuses, ClientLeaves, ClientSends, Arrives
    <3>5. CASE EpollWait
      BY <2>2, <3>5 DEF EpollWait
    <3> QED  BY <2>2, <3>1, <3>2, <3>3, <3>4, <3>5, EpollWriters
  <2>7. c \notin batch'
    BY <2>2, BatchWriters, ServerAssumption DEF Handled, EpollWait, ReadyEvents
  <2> QED  BY <2>4, <2>5, <2>6, <2>7
<1> QED  BY <1>2, <1>3

LEMMA LinkedStep ==
  ASSUME BaseInv, [Next]_vars
  PROVE  LinkedWhileUsed'
<1> SUFFICES ASSUME NEW c \in Conns, mem'[c] \in {"live", "dead"}
             PROVE  Linked(c)'
  BY DEF LinkedWhileUsed
<1>1. ASSUME NEW t \in Workers, Unlink(t)
      PROVE  Linked(c)'
  <2>1. Conn(t) \in Conns /\ list' = Unlinked(Conn(t)) /\ mem' = [mem EXCEPT ![Conn(t)] = "freed"]
    BY <1>1, HasTask DEF Unlink, At, WithTask
  <2>2. c # Conn(t) /\ mem[c] \in {"live", "dead"}
    BY <2>1 DEF BaseInv, ConnTyped
  <2> QED  BY <2>1, <2>2, UnlinkedList DEF BaseInv, LinkedWhileUsed
<1>2. ASSUME NEW d \in Conns, HandleNewConnection(d) \/ ConnectionUnwatched(d)
      PROVE  Linked(c)'
  <2>1. ~Linked(d) /\ list' = Append(list, d) /\ mem' = [mem EXCEPT ![d] = "live"]
    BY <1>2, AcceptedIsNew DEF HandleNewConnection, ConnectionUnwatched
  <2>2. c = d \/ mem[c] \in {"live", "dead"}
    BY <2>1 DEF BaseInv, ConnTyped
  <2> QED  BY <2>1, <2>2, AppendedList DEF BaseInv, LinkedWhileUsed
<1>3. ASSUME NEW t \in Workers, DestroyMutex(t)
      PROVE  Linked(c)'
  <2>1. UNCHANGED list /\ mem[c] \in {"live", "dead"}
    <3>1. th[t].pc = "mutex" /\ mem[Conn(t)] # "freed"
      BY <1>3, HasTask, ServerAssumption
         DEF DestroyMutex, At, Deref, IsDestroyed, Conn, WithTask
    <3>2. Conn(t) \in Conns /\ mem[Conn(t)] # "none"
      BY <3>1, HasTask DEF WithTask
    <3>3. UNCHANGED list /\ mem' = [mem EXCEPT ![Conn(t)] = IF lock[Conn(t)] = NULL THEN "dead" ELSE @]
      BY <1>3 DEF DestroyMutex
    <3> QED  BY <3>1, <3>2, <3>3 DEF BaseInv, ConnTyped
  <2> QED  BY <2>1 DEF BaseInv, LinkedWhileUsed, Linked
<1>4. CASE UNCHANGED <<list, mem>>
  BY <1>4 DEF BaseInv, LinkedWhileUsed, Linked
<1> QED  BY <1>1, <1>2, <1>3, <1>4, ListWriters, MemWriters DEF DestroyMutex

LEMMA InUseStep ==
  ASSUME BaseInv, [Next]_vars
  PROVE  InUse'
<1> DEFINE Made(c) == c \in Conns /\ mem[c] # "none"
           LocalMade(l) == /\ l.task # NoTask => Made(l.task.conn)
                           /\ l.out # NoTask => Made(l.out.conn)
                           /\ l.cur # NULL => Made(l.cur)
<1>a. /\ \A c : Made(c) => mem'[c] # "none"
      /\ \A i \in DOMAIN queue : Made(queue[i].conn)
      /\ \A c : Linked(c) => Made(c)
      /\ \A t \in Threads : LocalMade(th[t])
  <2>1. \A c : Made(c) => mem'[c] # "none"
    BY MemStep
  <2>2. \A i \in DOMAIN queue : queue[i] \in Tasks
    BY DEF BaseInv, QueueTyped
  <2>3. \A i \in DOMAIN queue : Made(queue[i].conn)
    BY <2>2, TaskFields DEF BaseInv, InUse
  <2>4. \A c : Linked(c) => Made(c)
    BY DEF BaseInv, InUse, ListTyped, Linked
  <2>5. ASSUME NEW t \in Threads PROVE LocalMade(th[t])
    <3>1. /\ th[t].task \in Tasks \cup {NoTask} /\ th[t].out \in Tasks \cup {NoTask}
          /\ th[t].cur \in Conns \cup {NULL}
      BY DEF BaseInv, ThreadsOK, Locals
    <3> QED  BY <3>1, TaskFields DEF BaseInv, InUse
  <2> QED  BY <2>1, <2>3, <2>4, <2>5
<1>b. \A t \in Threads : th[t] \in Locals /\ th \in [Threads -> Locals]
  BY DEF BaseInv, ThreadsOK
<1>c. /\ \A t \in Workers : th[t].pc \in WithTask => Made(Conn(t)) /\ th[t].task \in Tasks
      /\ \A t \in Workers : th[t].pc = "requeue" => Made(th[t].out.conn) /\ th[t].out \in Tasks
  BY <1>a, HasTask, TaskFields, NoTaskIsNone DEF BaseInv, ThreadsOK, WorkerShape, Threads
<1>d. \A t \in Threads : th[t].cur # NULL => Made(th[t].cur)
  BY <1>a
<1>e. Front # NULL => Made(Front)
  BY <1>a, FrontLinked DEF BaseInv
<1> HIDE DEF Made
(* The queue.                                                              *)
<1>1. \A i \in DOMAIN queue' : Made(queue'[i].conn)
  <2>1. ASSUME NEW k, Made(k.conn), queue' = Append(queue, k)
        PROVE  \A i \in DOMAIN queue' : Made(queue'[i].conn)
    <3>1. \A i \in DOMAIN queue' : queue'[i] = k \/ (i \in DOMAIN queue /\ queue'[i] = queue[i])
      BY <2>1 DEF BaseInv, QueueTyped
    <3> QED  BY <1>a, <2>1, <3>1
  <2>2. ASSUME NEW c \in Conns, Made(c),
               NEW k \in {Inbound(c), Heartbeat(c), Deliver(c), StatusGood(c)}
        PROVE  Made(k.conn)
    BY <2>2, TasksMade
  <2>3. ASSUME NEW t \in Workers, RequeueTask(t)
        PROVE  \A i \in DOMAIN queue' : Made(queue'[i].conn)
    BY <1>c, <2>1, <2>3 DEF RequeueTask, At, EnqueueTask
  <2>4. ASSUME NEW t \in Workers, TakeTask(t)
        PROVE  \A i \in DOMAIN queue' : Made(queue'[i].conn)
    <3>1. \A i \in DOMAIN queue' : i + 1 \in DOMAIN queue /\ queue'[i] = queue[i + 1]
      BY <2>4 DEF TakeTask, BaseInv, QueueTyped
    <3> QED  BY <1>a, <3>1
  <2>5. ASSUME NEW t \in Workers, SetUsername(t) \/ Reply(t)
        PROVE  \A i \in DOMAIN queue' : Made(queue'[i].conn)
    <3>1. Made(Conn(t)) /\ Conn(t) \in Conns
      BY <1>c, <2>5 DEF SetUsername, Reply, At, WithTask, Locked, Made
    <3>2. queue' \in {queue, Append(queue, Deliver(Conn(t))), Append(queue, StatusGood(Conn(t)))}
      BY <2>5 DEF SetUsername, Reply, EnqueueOwn, EnqueueTask
    <3> QED  BY <1>a, <2>1, <2>2, <3>1, <3>2
  <2>6. ASSUME NEW t \in Workers, BroadcastDeliver(t)
        PROVE  \A i \in DOMAIN queue' : Made(queue'[i].conn)
    <3>1. Made(th[t].cur) /\ th[t].cur \in Conns /\ queue' = Append(queue, Deliver(th[t].cur))
      BY <1>d, <2>6 DEF BroadcastDeliver, EnqueueTask, Threads, Made
    <3> QED  BY <2>1, <2>2, <3>1
  <2>7. ASSUME AuditNext
        PROVE  \A i \in DOMAIN queue' : Made(queue'[i].conn)
    <3>1. /\ Made(th[Main].cur) /\ th[Main].cur \in Conns
          /\ queue' = Append(queue, Heartbeat(th[Main].cur))
      BY <1>d, <2>7 DEF AuditNext, EnqueueTask, Threads, Made
    <3> QED  BY <2>1, <2>2, <3>1
  <2>8. ASSUME NEW c \in Conns, HandleEvent(c)
        PROVE  \A i \in DOMAIN queue' : Made(queue'[i].conn)
    <3>1. Made(c) /\ queue' = Append(queue, Inbound(c))
      BY <2>8 DEF HandleEvent, EnqueueTask, BaseInv, Fresh, Made
    <3> QED  BY <2>1, <2>2, <3>1
  <2> QED  BY <1>a, <2>3, <2>4, <2>5, <2>6, <2>7, <2>8, QueueWriters
(* The list.                                                               *)
<1>2. \A i \in DOMAIN list' : mem'[list'[i]] # "none"
  <2>1. ASSUME NEW t \in Workers, Unlink(t)
        PROVE  \A i \in DOMAIN list' : Linked(list'[i])
    <3>1. Conn(t) \in Conns /\ list' = Unlinked(Conn(t))
      BY <2>1, HasTask DEF Unlink, At, WithTask
    <3> QED  BY <3>1, UnlinkedList DEF BaseInv, Linked
  <2>2. ASSUME NEW c \in Conns, HandleNewConnection(c) \/ ConnectionUnwatched(c)
        PROVE  \A i \in DOMAIN list' : mem'[list'[i]] # "none"
    <3>1. ~Linked(c) /\ list' = Append(list, c) /\ mem' = [mem EXCEPT ![c] = "live"]
      BY <2>2, AcceptedIsNew DEF HandleNewConnection, ConnectionUnwatched
    <3>2. \A i \in DOMAIN list' : list'[i] = c \/ Linked(list'[i])
      BY <3>1, AppendedList DEF BaseInv, Linked
    <3>3. mem'[c] # "none"
      BY <3>1 DEF BaseInv, ConnTyped
    <3> QED  BY <1>a, <3>2, <3>3
  <2>3. CASE UNCHANGED list
    BY <1>a, <2>3 DEF Linked
  <2> QED  BY <1>a, <2>1, <2>2, <2>3, ListWriters
(* The threads.                                                            *)
<1>3. ASSUME NEW t \in Workers, Worker(t) PROVE LocalMade(th'[t])
  <2>a. /\ th \in [Threads -> Locals] /\ t \in Threads /\ LocalMade(th[t])
        /\ th[t].pc \in WithTask => Made(Conn(t)) /\ th[t].task \in Tasks
    BY <1>a, <1>b, <1>c DEF Threads
  <2> USE <2>a DEF Locals, At, In
  <2>1. CASE \/ RequeueTask(t) \/ StartJob(t) \/ RecvRegister(t) \/ RecvSend(t) \/ RecvStatus(t)
             \/ SetUsername(t) \/ Reply(t) \/ SendStatus(t) \/ SendDeliver(t) \/ ProcError(t)
             \/ ClosingNow(t) \/ DestroyMutex(t)
    BY <2>1 DEF RequeueTask, StartJob, RecvRegister, RecvSend, RecvStatus, SetUsername,
       Reply, SendStatus, SendDeliver, ProcError, ClosingNow, DestroyMutex, Goto, Receives,
       Reading, Sending
  <2>2. CASE CountJob(t)
    BY <2>2 DEF CountJob
  <2>3. CASE TakeTask(t)
    <3>1. queue # << >> /\ queue \in Seq(Tasks)
      BY <2>3 DEF TakeTask, BaseInv, QueueTyped
    <3>2. Made(Head(queue).conn)
      BY <1>a, <3>1
    <3> QED  BY <2>3, <3>2 DEF TakeTask
  <2>4. CASE TryLock(t)
    <3>1. /\ th' = [th EXCEPT ![t].pc = "proc", ![t].task = WithBuffer(th[t].task)]
          /\ WithBuffer(th[t].task).conn = Conn(t) /\ Made(Conn(t))
      BY <2>4, BufferMade DEF TryLock, WithTask, Conn
    <3> QED  BY <3>1
  <2>5. CASE \/ HeartbeatOk(t) \/ BufferFails(t) \/ Rearm(t) \/ Replied(t) \/ SendFails(t)
             \/ ClosingLater(t) \/ Unlink(t)
    BY <2>5, ServerAssumption DEF HeartbeatOk, BufferFails, Rearm, Replied, SendFails,
       ClosingLater, Unlink, Cleanup, IdleWorker, Local
  <2>6. ASSUME RequeueNoUnlock(t) PROVE LocalMade(th'[t])
    BY <2>6 DEF RequeueNoUnlock, Local
  <2>7a. CASE RecvNothing(t)
    <3>1. Made(Conn(t)) /\ Inbound(Conn(t)).conn = Conn(t) /\ RequeueFreed(t)
      BY <2>7a, TasksMade DEF RecvNothing, Reading, WithTask, Locked, Made
    <3> QED  BY <3>1 DEF RequeueFreed, Local
  <2>7. CASE \/ TryLockFails(t) \/ RecvBad(t) \/ StartSendMsg(t)
             \/ Postpone(t) \/ CloseEpollDel(t)
    BY <2>6, <2>7 DEF TryLockFails, RecvBad, StartSendMsg, Postpone,
       CloseEpollDel, Fail, Requeue
  <2>8. CASE FindUser(t)
    <3>1. RequeueNoUnlock(t) \/ Goto(t, "name")
      BY <2>8 DEF FindUser, Fail, Requeue
    <3>2. CASE Goto(t, "name")
      BY <3>2 DEF Goto
    <3> QED  BY <2>6, <3>1, <3>2
  <2>9. CASE HeartbeatTimeout(t) \/ SigPipe(t) \/ BroadcastSkip(t)
    BY <2>9 DEF HeartbeatTimeout, SigPipe, BroadcastSkip, vars
  <2>10. ASSUME NEW c, c = NULL \/ (c \in Conns /\ Linked(c)), Conn(t) \in Conns
         PROVE  WalkTo(t, c) # NULL => Made(WalkTo(t, c))
    BY <1>a, <2>10, WalkToLinked DEF BaseInv
  <2>11. CASE BroadcastLock(t)
    <3>1. WalkTo(t, Front) # NULL => Made(WalkTo(t, Front))
      BY <2>10, <2>11, FrontLinked DEF BroadcastLock, BaseInv, WithTask, Locked, Made
    <3> QED  BY <2>11, <3>1 DEF BroadcastLock
  <2>12. CASE BroadcastDeliver(t) \/ BroadcastNoMemory(t)
    <3>1. th[t].pc = "next" /\ th[t].cur # NULL /\ Made(th[t].cur)
      BY <2>12 DEF BroadcastDeliver, BroadcastNoMemory
    <3>2. mem[th[t].cur] # "freed"
      BY <2>12, <3>1 DEF BroadcastDeliver, BroadcastNoMemory, Deref, IsDestroyed
    <3>3. Linked(th[t].cur)
      BY <3>1, <3>2 DEF BaseInv, ConnTyped, LinkedWhileUsed, Made
    <3>4. NextNode(th[t].cur) = NULL
          \/ (NextNode(th[t].cur) \in Conns /\ Linked(NextNode(th[t].cur)))
      BY <3>1, <3>3, NextNodeLinked DEF BaseInv, Made
    <3>5. Conn(t) \in Conns
      BY <3>1 DEF WithTask, Locked, Made
    <3>6. WalkTo(t, NextNode(th[t].cur)) # NULL => Made(WalkTo(t, NextNode(th[t].cur)))
      BY <2>10, <3>4, <3>5
    <3>7. Deliver(th[t].cur).conn = th[t].cur
      BY <3>1, TasksMade DEF Made
    <3> QED  BY <2>12, <3>1, <3>6, <3>7 DEF BroadcastDeliver, BroadcastNoMemory
  <2>13. CASE BroadcastDone(t)
    <3>1. Goto(t, "reply") \/ Goto(t, "arm") \/ Goto(t, "destroy")
      BY <2>13 DEF BroadcastDone
    <3> QED  BY <3>1 DEF Goto
  <2>14. CASE DestroyUnlock(t)
    BY <1>e, <2>14 DEF DestroyUnlock
  <2> QED
    BY <1>3, <2>1, <2>2, <2>3, <2>4, <2>5, <2>7a, <2>7, <2>8, <2>9, <2>11, <2>12, <2>13, <2>14 DEF Worker
<1>4. ASSUME MainThread PROVE LocalMade(th'[Main])
  <2>a. th \in [Threads -> Locals] /\ Main \in Threads /\ LocalMade(th[Main])
    BY <1>a, <1>b DEF Threads
  <2> USE <2>a DEF Locals, At, MainIs
  <2>1. CASE CountJob(Main)
    BY <2>1 DEF CountJob
  <2>2. CASE EpollInterrupted \/ HandleSigInt \/ AuditNoMemory \/ AuditDone \/ EventNoMemory
    BY <2>2 DEF EpollInterrupted, HandleSigInt, AuditNoMemory, AuditDone, EventNoMemory, Goto
  <2>3. CASE \/ EpollWait \/ AcceptFails \/ Shutdown
             \/ \E c \in Conns : \/ HandleNewConnection(c) \/ ConnectionNoMemory(c)
                                 \/ ConnectionUnwatched(c)
    BY <2>3 DEF EpollWait, AcceptFails, Shutdown, HandleNewConnection, ConnectionNoMemory,
       ConnectionUnwatched
  <2>4. ASSUME NEW c \in Conns, HandleEvent(c) PROVE LocalMade(th'[Main])
    <3>1. Made(c) /\ Inbound(c).conn = c
      BY <2>4, TasksMade DEF HandleEvent, BaseInv, Fresh, Made
    <3> QED  BY <2>4, <3>1 DEF HandleEvent, Local
  <2>5. CASE HandleSigAlrm
    BY <1>e, <2>5 DEF HandleSigAlrm
  <2>6. CASE AuditNext
    <3>1. th[Main].pc = "audit" /\ th[Main].cur # NULL /\ Made(th[Main].cur)
      BY <2>6 DEF AuditNext
    <3>2. Linked(th[Main].cur)
      BY <2>6, <3>1 DEF AuditNext, Deref, IsDestroyed, BaseInv, ConnTyped, LinkedWhileUsed, Made
    <3>3. NextNode(th[Main].cur) # NULL => Made(NextNode(th[Main].cur))
      BY <1>a, <3>1, <3>2, NextNodeLinked DEF BaseInv, Made
    <3>4. Heartbeat(th[Main].cur).conn = th[Main].cur
      BY <3>1, TasksMade DEF Made
    <3> QED  BY <2>6, <3>1, <3>3, <3>4 DEF AuditNext, Local
  <2> QED  BY <1>4, <2>1, <2>2, <2>3, <2>4, <2>5, <2>6 DEF MainThread, EventThread
<1>5. \A t \in Threads : LocalMade(th'[t])
  <2>1. ASSUME NEW u \in Workers, Worker(u), NEW t \in Threads PROVE LocalMade(th'[t])
    BY <1>a, <1>b, <1>3, <2>1, WorkerLocal
  <2>2. ASSUME MainThread, NEW t \in Threads PROVE LocalMade(th'[t])
    BY <1>a, <1>b, <1>4, <2>2, MainLocal
  <2>3. CASE Environment \/ Undefined \/ Halted \/ UNCHANGED vars
    BY <1>a, <2>3, OthersLocal
  <2> QED  BY <2>1, <2>2, <2>3, NextCases
<1> QED  BY <1>a, <1>1, <1>2, <1>5 DEF InUse
-----------------------------------------------------------------------------
LEMMA BaseInit == Init => BaseInv
<1> SUFFICES ASSUME Init PROVE BaseInv
  OBVIOUS
<1>1. ThreadsOK
  BY ServerAssumption DEF Init, ThreadsOK, WorkerShape, MainShape, Locals, IdleMain, IdleWorker,
     Local, Threads, WithTask, Locked
<1>2. QueueTyped /\ ListTyped /\ EventTyped
  BY DEF Init, QueueTyped, ListTyped, EventTyped
<1>3. ConnTyped /\ GhostTyped
  BY ServerAssumption DEF Init, ConnTyped, GhostTyped, Status
<1>4. SocketTyped
  <2>1. 0 \in 0 .. Cardinality(Conns)
    BY ServerAssumption, FS_CardinalityType
  <2> QED  BY <2>1 DEF Init, SocketTyped
<1>5. Fresh /\ InUse /\ LinkedWhileUsed
  BY DEF Init, Fresh, InUse, LinkedWhileUsed, IdleMain, IdleWorker, Local
<1> QED  BY <1>1, <1>2, <1>3, <1>4, <1>5 DEF BaseInv

LEMMA BaseStep ==
  ASSUME BaseInv, [Next]_vars
  PROVE  BaseInv'
  BY ThreadsStep, QueueStep, ListStep, ConnStep, SocketStep, EventStep, GhostStep, FreshStep,
     InUseStep, LinkedStep DEF BaseInv

(* Whatever clients, clock, signals and failed allocations do, the shared  *)
(* state and the locals of the threads are as described: in particular no  *)
(* node is linked twice, only a task with its connection is ever queued,   *)
(* and every walk over the list stays in the list.                         *)
THEOREM ServerInductive == Spec => []BaseInv
  BY BaseInit, BaseStep, PTL DEF Spec

(* The types of ChatServer, for any number of connections and workers:     *)
(* every task that rpchat_conn_info_enqueue_task queues is one that        *)
(* rpchat_task_conn_proc_event knows, every thread is at one of its        *)
(* labels, and no connection is in the list twice.                         *)
THEOREM ServerTypes == Spec => []TypeOK
<1>1. BaseInv => TypeOK
  BY DEF BaseInv, ThreadsOK, QueueTyped, ListTyped, ConnTyped, SocketTyped, EventTyped,
     GhostTyped, TypeOK
<1> QED  BY <1>1, ServerInductive, PTL
=============================================================================
