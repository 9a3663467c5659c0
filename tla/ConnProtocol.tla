---------------------------- MODULE ConnProtocol ----------------------------
(***************************************************************************)
(* One connection as its client sees it: the state diagram of README.md,   *)
(* "Connection States" (lines 95-168), with what goes over the socket at   *)
(* each transition, without tasks, queue, threads or epoll.                *)
(*                                                                         *)
(* Diagram is what README.md says.  Departures are the transitions that    *)
(* the code takes besides, each against a line of README.md.  ChatServer   *)
(* is shown to violate Spec and to implement DepartingSpec, for every      *)
(* connection.                                                             *)
(***************************************************************************)
EXTENDS Integers, Sequences

VARIABLES state,       \* conn_status
          registered,  \* the connection has a name
          open,        \* the server's end of the connection is open
          awaiting,    \* the client waits for a STATUS
          owed,        \* DELIVERs the client has not acknowledged
          unread,      \* what the client has sent and the server has not read
          jobs         \* pending_jobs

(* unread and jobs are looked at; a step of theirs alone is none of this.  *)
pvars == <<state, registered, open, awaiting, owed>>

Init ==
  /\ state = "PRE_REGISTER"
  /\ ~registered /\ ~open /\ ~awaiting
  /\ owed = 0

(* The client asks (REGISTER, SEND) or acknowledges, at any time.          *)
ClientTalks ==
  /\ awaiting' \in {awaiting, TRUE}
  /\ owed' \in {owed, owed - 1} /\ owed' >= 0
  /\ UNCHANGED <<state, registered, open>>

Accept == ~open /\ state = "PRE_REGISTER" /\ open' = TRUE
          /\ UNCHANGED <<state, registered, awaiting, owed>>

(* The name is set once, before the first STATUS.                          *)
Register ==
  /\ state = "PRE_REGISTER" /\ open
  /\ ~registered /\ registered' = TRUE
  /\ UNCHANGED <<state, open, awaiting, owed>>

Move(from, to) == open /\ state \in from /\ state' = to

(* The server takes m, the next message of the client.                     *)
Takes(m) == unread # << >> /\ Head(unread) = m /\ unread' = Tail(unread)

(* A REGISTER has been taken, or in AVAILABLE a SEND.                      *)
Owe == /\ Move({"PRE_REGISTER", "AVAILABLE"}, "SEND_STAT")
       /\ state = "PRE_REGISTER" => registered
       /\ UNCHANGED <<registered, open, awaiting, owed>>

(* The STATUS is sent: nothing else ends the client's wait.                *)
Answer == Move({"SEND_STAT"}, "AVAILABLE") /\ awaiting' = FALSE
          /\ UNCHANGED <<registered, open, owed>>

(* A DELIVER is announced, sent, and acknowledged by a STATUS of code 0.   *)
Announce == Move({"AVAILABLE"}, "SEND_MSG")
            /\ UNCHANGED <<registered, open, awaiting, owed>>
Deliver == Move({"SEND_MSG"}, "PENDING_STATUS") /\ owed' = owed + 1
           /\ UNCHANGED <<registered, open, awaiting>>
Acknowledged == Move({"PENDING_STATUS"}, "AVAILABLE") /\ Takes("STATUS_GOOD")
                /\ UNCHANGED <<registered, open, awaiting, owed>>

Fail == /\ state \notin {"ERR", "CLOSING"} /\ open /\ state' = "ERR"
        /\ UNCHANGED <<registered, open, awaiting, owed>>

(* The socket is closed in ERR, and CLOSING follows when no job is left.   *)
Close == /\ state = "ERR" /\ open /\ open' = FALSE
         /\ UNCHANGED <<state, registered, awaiting, owed>>
Closing == /\ state = "ERR" /\ ~open /\ jobs = 0 /\ state' = "CLOSING"
           /\ UNCHANGED <<registered, open, awaiting, owed>>

Diagram ==
  \/ ClientTalks \/ Accept \/ Register \/ Owe \/ Answer \/ Announce
  \/ Deliver \/ Acknowledged \/ Fail \/ Close \/ Closing

Spec == Init /\ [][Diagram]_pvars
-----------------------------------------------------------------------------
(* README.md:106: "Transitions to RPCHAT_CONN_ERR if a message was         *)
(* received that was not REGISTER."  A SEND is taken and answered.         *)
OweUnregistered == Move({"PRE_REGISTER"}, "SEND_STAT") /\ ~registered
                   /\ UNCHANGED <<registered, open, awaiting, owed>>

(* README.md:105-106 and 117: a DELIVER takes a connection from AVAILABLE  *)
(* to SEND_MSG.  A broadcast reaches those in PRE_REGISTER as well.        *)
AnnounceEarly == Move({"PRE_REGISTER"}, "SEND_MSG")
                 /\ UNCHANGED <<registered, open, awaiting, owed>>

(* README.md:149: "Transitions to RPCHAT_CONN_ERR if a message that is     *)
(* _not_ STATUS was sent by the client".  A SEND (read before) or a        *)
(* message that is refused ends the wait like a STATUS.                    *)
EndWait == /\ Move({"PENDING_STATUS"}, "AVAILABLE")
           /\ Takes("REFUSED") \/ UNCHANGED unread
           /\ UNCHANGED <<registered, open, awaiting, owed>>

(* README.md:155-157: "The server will not transition this client until    *)
(* all pending jobs for the client are complete."  It does.                *)
ClosingEarly == /\ state = "ERR" /\ ~open /\ jobs # 0 /\ state' = "CLOSING"
                /\ UNCHANGED <<registered, open, awaiting, owed>>

Departures == OweUnregistered \/ AnnounceEarly \/ EndWait \/ ClosingEarly

DepartingSpec == Init /\ [][Diagram \/ Departures]_pvars
=============================================================================
