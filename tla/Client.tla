------------------------------- MODULE Client -------------------------------
(***************************************************************************)
(* scripts/client.py talking to the server: the main thread of a client    *)
(* registers, reads the user's lines and sends them, an inbound thread     *)
(* takes what the server sends; both use client_state.  Every critical     *)
(* section of conn_lock takes no other lock and waits for nobody, so it is *)
(* one step; the two accesses outside of it are steps too.                 *)
(*                                                                         *)
(* Here the clients decide what ChatServer's environment leaves open, so   *)
(* Compliant is FALSE and MaxMsgs[c] bounds the REGISTER and the user's    *)
(* lines together.                                                         *)
(***************************************************************************)
EXTENDS ChatServer

VARIABLES
  client,     \* client[c]: client_state, the two threads, whether a send has met
              \* the closed socket, and (ghost) whether a DELIVER was read short
  outbox      \* outbox[c]: what the server has sent and c has not read

cvars == <<vars, client, outbox>>

ASSUME UserAssumption == ~Compliant /\ {"REGISTER", "SEND"} \subseteq ClientMsgs

NewClient == [state |-> "SETUP", main |-> "connect", inbound |-> "running",
              reset |-> FALSE, astray |-> FALSE]

ClientInit ==
  /\ Init
  /\ client = [c \in Conns |-> NewClient]
  /\ outbox = [c \in Conns |-> << >>]

MainAt(c, pc)  == proc = "up" /\ client[c].main = pc
MainGoes(c, pc) == client' = [client EXCEPT ![c].main = pc]
-----------------------------------------------------------------------------
(* The main thread: initial_setup and handle_outbound.                     *)

SetupSocket(c) ==
  /\ MainAt(c, "connect")
  /\ Connect(c)
  /\ MainGoes(c, "register")
  /\ UNCHANGED outbox

RegisterClient(c) ==
  /\ MainAt(c, "register")
  /\ ClientSends(c, "REGISTER")
  /\ MainGoes(c, "test")
  /\ UNCHANGED outbox

(* Mutant: the user is asked for a line in every state but SHUTDOWN.       *)
TestStateOnce(c) ==
  /\ MainAt(c, "test")
  /\ MainGoes(c, IF client[c].state = "SHUTDOWN" THEN "exited" ELSE "input")
  /\ UNCHANGED <<vars, outbox>>

(* One turn of the loop up to input(): only READY asks for a line.  On     *)
(* SHUTDOWN the function returns, and the process exits.                   *)
TestState(c) ==
  /\ MainAt(c, "test")
  /\ client[c].state \in {"SHUTDOWN", "READY"}
  /\ MainGoes(c, IF client[c].state = "SHUTDOWN" THEN "exited" ELSE "input")
  /\ UNCHANGED <<vars, outbox>>

(* The user's line is sent, without conn_lock, ...                         *)
SendSend(c) ==
  /\ MainAt(c, "input")
  /\ ClientSends(c, "SEND")
  /\ MainGoes(c, "sent")
  /\ UNCHANGED outbox

(* ... or (the REGISTER as well) into a connection that the server has     *)
(* closed: the first such send is answered with a reset, which discards    *)
(* what was not read, the next one raises an exception that nobody catches.*)
SendLost(c) ==
  /\ MainAt(c, "input") \/ MainAt(c, "register")
  /\ peer[c] # "backlog" /\ ~open[c]
  /\ client' = [client EXCEPT ![c].main = CASE client[c].reset -> "exited"
                                            [] client[c].main = "register" -> "test"
                                            [] OTHER -> "sent",
                              ![c].reset = TRUE]
  /\ outbox' = [outbox EXCEPT ![c] = IF client[c].inbound = "running" THEN <<"EOF">> ELSE << >>]
  /\ UNCHANGED vars

(* ... and the state that says so is set afterwards, whatever the inbound  *)
(* thread has made of it in between.                                       *)
SetPending(c) ==
  /\ MainAt(c, "sent")
  /\ client' = [client EXCEPT ![c].main = "test", ![c].state = "PENDING_STATUS"]
  /\ UNCHANGED <<vars, outbox>>

(* The user leaves (an interrupt at any time, the end of the input).       *)
UserLeaves(c) ==
  /\ client[c].main # "exited"
  /\ ClientLeaves(c)
  /\ client' = [client EXCEPT ![c].main = "exited", ![c].inbound = "exited"]
  /\ outbox' = [outbox EXCEPT ![c] = << >>]
-----------------------------------------------------------------------------
(* The inbound thread: handle_inbound and handle_incoming_msg.             *)

(* The thread is started when the REGISTER has been sent.                  *)
Running(c) == /\ proc = "up"
              /\ client[c].inbound = "running"
              /\ client[c].main \notin {"connect", "register", "exited"}

Incoming(c, m) ==
  /\ Running(c)
  /\ outbox[c] # << >> /\ Head(outbox[c]) \in m

(* handle_stat: READY after every STATUS, a negative one too, unless recv  *)
(* returns a part of it: then nothing happens, and the rest, which holds   *)
(* no opcode the client knows, is passed over.                             *)
HandleStat(c) ==
  /\ Incoming(c, {"STATUS", "ERROR"})
  /\ \/ client' = [client EXCEPT ![c].state = "READY"]
     \/ "shortread" \in Env /\ UNCHANGED client
  /\ outbox' = [outbox EXCEPT ![c] = Tail(@)]
  /\ UNCHANGED vars

(* Mutant: the DELIVER is shown and not acknowledged.                      *)
HandleDeliverQuietly(c) ==
  /\ Incoming(c, {"DELIVER"})
  /\ outbox' = [outbox EXCEPT ![c] = Tail(@)]
  /\ UNCHANGED <<vars, client>>

(* handle_deliver and send_stat: code 0, or 1 when recv returned a part of *)
(* the DELIVER, or a send that meets the closed socket.                    *)
HandleDeliver(c) ==
  /\ Incoming(c, {"DELIVER"})
  /\ \/ /\ ClientAcks(c)
        /\ outbox' = [outbox EXCEPT ![c] = Tail(@)]
        /\ UNCHANGED client
     \/ /\ ClientRefuses(c)
        /\ outbox' = [outbox EXCEPT ![c] = Tail(@)]
        /\ client' = [client EXCEPT ![c].astray = TRUE]
     \/ /\ ~open[c]
        /\ outbox' = [outbox EXCEPT ![c] = <<"EOF">>]
        /\ client' = [client EXCEPT ![c].reset = TRUE]
        /\ UNCHANGED vars

(* After that the rest of the DELIVER is read as messages: it may pass for *)
(* a STATUS, and swallow what follows, with or without another STATUS of   *)
(* code 1.  (The server reads nothing behind the first of them.)           *)
Misread(c) ==
  /\ Running(c) /\ client[c].astray
  /\ client' = [client EXCEPT ![c].state = "READY"] \/ UNCHANGED client
  /\ ClientRefuses(c) \/ UNCHANGED vars
  /\ \/ Incoming(c, {"STATUS", "DELIVER", "ERROR"}) /\ outbox' = [outbox EXCEPT ![c] = Tail(@)]
     \/ UNCHANGED outbox

(* recv returns no byte or raises ConnectionError: SHUTDOWN, set without   *)
(* conn_lock, and the thread ends.                                         *)
ServerGone(c) ==
  /\ Incoming(c, {"EOF"})
  /\ client' = [client EXCEPT ![c].state = "SHUTDOWN", ![c].inbound = "exited"]
  /\ outbox' = [outbox EXCEPT ![c] = << >>]
  /\ UNCHANGED vars
-----------------------------------------------------------------------------
(* Mutant: what an INBOUND task holds is sent, too.                        *)
OutputOfAny(t) ==
  CASE th[t].pc = "proc" /\ th'[t].pc = "arm" -> <<th[t].task.msg>>
    [] th[t].pc = "proc" /\ th'[t].pc = "del" -> <<"ERROR", "EOF">>
    [] OTHER -> << >>

(* What a step of worker t sends: the message of an OUTBOUND task, or the  *)
(* error STATUS and the end of the connection.                             *)
Output(t) ==
  CASE th[t].pc = "proc" /\ IsOut(t) /\ th'[t].pc = "arm" -> <<th[t].task.msg>>
    [] th[t].pc = "proc" /\ th'[t].pc = "del" -> <<"ERROR", "EOF">>
    [] OTHER -> << >>

(* A client that has exited reads nothing.                                 *)
ServerStep ==
  \/ \E t \in Workers :
       /\ Worker(t)
       /\ outbox' = [c \in Conns |-> IF c = Conn(t) /\ client[c].main # "exited"
                                     THEN outbox[c] \o Output(t) ELSE outbox[c]]
       /\ UNCHANGED client
  \/ (MainThread \/ Tick \/ Undefined \/ Halted) /\ UNCHANGED <<client, outbox>>

ClientStep(c) ==
  \/ SetupSocket(c) \/ RegisterClient(c) \/ TestState(c) \/ SendSend(c)
  \/ SendLost(c) \/ SetPending(c) \/ UserLeaves(c)
  \/ HandleStat(c) \/ HandleDeliver(c) \/ Misread(c) \/ ServerGone(c)

ClientNext == ServerStep \/ \E c \in Conns : ClientStep(c)

ClientSpec == ClientInit /\ [][ClientNext]_cvars

(* The threads of a client run; only the user may do nothing for ever.     *)
ClientFairness ==
  /\ Fairness
  /\ \A c \in Conns :
       /\ WF_cvars(SetupSocket(c)) /\ WF_cvars(RegisterClient(c))
       /\ WF_cvars(client[c].main = "register" /\ SendLost(c))
       /\ WF_cvars(TestState(c)) /\ WF_cvars(SetPending(c))
       /\ WF_cvars(HandleStat(c) \/ HandleDeliver(c) \/ ServerGone(c))
ClientFairSpec == ClientSpec /\ ClientFairness
-----------------------------------------------------------------------------
ClientTypeOK ==
  /\ client \in [Conns -> [state   : {"SETUP", "READY", "PENDING_STATUS", "SHUTDOWN"},
                           main    : {"connect", "register", "test", "input", "sent", "exited"},
                           inbound : {"running", "exited"},
                           reset   : BOOLEAN,
                           astray  : BOOLEAN]]
  /\ \A c \in Conns : \A i \in DOMAIN outbox[c] :
       outbox[c][i] \in {"STATUS", "DELIVER", "ERROR", "EOF"}

Connected(c) == open[c] /\ peer[c] = "open"
InTransit(c, m) == Count({i \in DOMAIN outbox[c] : outbox[c][i] = m})

(* chat_server.md:16: "Clients and servers must wait for a status message  *)
(* after each send/deliver before sending the next message": the user is   *)
(* asked for a line only when the REGISTER and every SEND before it have   *)
(* been answered and the answer has been read, whatever the two threads of *)
(* the client, the DELIVERs and the tasks of the server do in between (and *)
(* while the client has not read a part of a DELIVER for the whole).       *)
PromptMeansAnswered ==
  \A c \in Conns : client[c].main = "input" /\ Connected(c) /\ ~client[c].astray =>
    ~awaiting[c] /\ InTransit(c, "STATUS") = 0

(* Every DELIVER is answered once: those the server still waits for are    *)
(* those the client has not read, as long as the client reads whole        *)
(* messages.  However it reads, a connection in PENDING_STATUS has an      *)
(* answer coming from the client or one to read: a STATUS of code 0 that   *)
(* ends the wait, or of code 1 that ends the connection.                   *)
AckComing ==
  \A c \in Conns : Connected(c) /\ client[c].main # "exited" =>
    /\ ~client[c].astray => owed[c] = InTransit(c, "DELIVER")
    /\ ~Leaving(c) /\ status[c] = "PENDING_STATUS" =>
         \/ owed[c] > 0
         \/ \E i \in DOMAIN inbox[c] : inbox[c][i] \in {"STATUS_GOOD", "STATUS_BAD"}

(* client.py:122, "Runs continuously until exited by user": a client that  *)
(* waits for its STATUS is READY again, or shut down.  Refuted (README.md, *)
(* section 4).                                                             *)
UserGetsPrompt ==
  \A c \in Conns : (client[c].main = "test") ~>
    (client[c].main \in {"input", "exited"} \/ proc # "up")

(* client.py:162, "signal shutdown": a client whose inbound thread has met *)
(* the end of the connection does not go on waiting.  Refuted as well.     *)
ShutdownKept ==
  \A c \in Conns : client[c].inbound = "exited" => client[c].state = "SHUTDOWN"
=============================================================================
