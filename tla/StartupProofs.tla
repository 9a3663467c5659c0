--------------------------- MODULE StartupProofs ---------------------------
(***************************************************************************)
(* Proofs about Startup, for any number of threads.                        *)
(*                                                                         *)
(* What the clean-up labels may release depends on which calls have        *)
(* succeeded, and the place the process is at says that: the inductive     *)
(* invariant is a table of what is held where.  The set-up is a line of    *)
(* calls, so for each resource it names the places before and after its    *)
(* acquisition; the clean-up is one line entered from several places, so   *)
(* there it says what may be held.                                         *)
(***************************************************************************)
EXTENDS Startup, TLAPS

(* The places of the set-up in the order of the code, and of the clean-up. *)
Before    == {"rlimit", "args", "log"}
ToSignal  == Before \cup {"signalfd"}
ToEpoll   == ToSignal \cup {"epoll"}
ToSocket  == ToEpoll \cup {"socket"}
ToWatch   == ToSocket \cup {"bind", "watchserver"}
ToTimer   == ToWatch \cup {"watchsignal", "timer"}
ToPool    == ToTimer \cup {"pool"}
ToQueue   == ToPool \cup {"queue"}
Running   == {"start", "calloc", "loop"}
CleanUp   == {"cleanup", "freequeue", "stop"}
Ended     == {"closelog", "exit", "crashed"}
Places    == ToQueue \cup Running \cup CleanUp \cup Ended

Net  == {"h_fd_signal", "h_fd_epoll", "h_fd_server"}
Both == {"h_fd_server", "h_fd_signal"}

TypeInv ==
  /\ pc \in Places
  /\ have \in [Resources -> {"none", "held", "released", "lost", "wrong"}]
  /\ threads \in 0 .. NumThreads

(* The descriptors are there from their call to rpchat_stop_networking.    *)
NetInv ==
  /\ pc \in ToSignal => have["h_fd_signal"] = "none"
  /\ pc \in ToEpoll => have["h_fd_epoll"] = "none"
  /\ pc \in ToSocket => have["h_fd_server"] = "none"
  /\ pc \in (Places \ Ended) \ ToSignal => have["h_fd_signal"] = "held"
  /\ pc \in (Places \ Ended) \ ToEpoll => have["h_fd_epoll"] = "held"
  /\ pc \in (Places \ Ended) \ ToSocket => have["h_fd_server"] = "held"

WatchInv ==
  /\ pc \in ToWatch => watched = {}
  /\ pc = "watchsignal" => watched = {"h_fd_server"}
  /\ pc \in (Places \ Ended) \ (ToWatch \cup {"watchsignal"}) => watched = Both

(* Pool and queue: the pool first, and it goes first.                      *)
PoolInv ==
  /\ pc \in ToPool => have["p_tpool"] = "none"
  /\ pc \in {"queue"} \cup Running => have["p_tpool"] = "held"
  /\ pc = "cleanup" => have["p_tpool"] \in {"none", "held"}
  /\ pc \in {"freequeue", "stop"} => have["p_tpool"] # "held"
  /\ pc \in ToQueue => have["p_conn_queue"] = "none"
  /\ pc \in Running => have["p_conn_queue"] = "held"
  /\ pc \in {"cleanup", "freequeue"} => have["p_conn_queue"] \in {"none", "held"}
  /\ pc = "stop" => have["p_conn_queue"] # "held"

(* A thread runs only between rplib_tpool_start and rplib_tpool_destroy,   *)
(* or after a crash that left everything as it was.                        *)
ThreadInv ==
  threads > 0 => /\ pc \in {"calloc", "loop", "cleanup", "crashed"}
                 /\ have["p_tpool"] = "held" /\ have["p_conn_queue"] = "held"
                 /\ have["h_fd_epoll"] = "held"

BufferInv ==
  /\ pc \in ToQueue \cup {"start"} => have["p_ret_event_buf"] = "none"
  /\ pc = "calloc" => have["p_ret_event_buf"] # "held"
  /\ pc = "loop" => have["p_ret_event_buf"] = "held"

LogInv ==
  /\ pc \in Before => have["h_fd_log_loc"] = "none"
  /\ pc = "exit" => have["h_fd_log_loc"] # "held"
  /\ \A r \in Resources : have[r] = "lost" => r = "h_fd_log_loc"

(* rpchat_begin_chat_server has returned: all is released, or it never got *)
(* through rpchat_begin_networking.                                        *)
ReturnInv ==
  /\ pc \in ToTimer => reached = "none"
  /\ pc \in {"closelog", "exit"} /\ reached # "none" =>
       \A r \in Resources \ {"h_fd_log_loc"} : have[r] # "held"

StartInv ==
  /\ TypeInv /\ ReleasesOnlyHeld /\ NetInv /\ WatchInv /\ PoolInv
  /\ ThreadInv /\ BufferInv /\ LogInv /\ ReturnInv
-----------------------------------------------------------------------------
USE DEF Resources, Before, ToSignal, ToEpoll, ToSocket, ToWatch, ToTimer, ToPool,
        ToQueue, Running, CleanUp, Ended, Places, Net, Both

(* One step of the process keeps the table: whatever call fails, the label *)
(* the code goes to releases what is held there and nothing else.          *)
LEMMA StartStep == StartInv /\ [Next]_vars => StartInv'
<1> SUFFICES ASSUME StartInv, [Next]_vars PROVE StartInv'
  OBVIOUS
<1> USE ThreadAssumption DEF StartInv, TypeInv, ReleasesOnlyHeld, NetInv, WatchInv,
        PoolInv, ThreadInv, BufferInv, LogInv, ReturnInv, At, Goto, Acquire, Release, kept
<1>1. CASE GetRlimit BY <1>1 DEF GetRlimit
<1>2. CASE GetArguments BY <1>2 DEF GetArguments
<1>3. CASE OpenLog BY <1>3 DEF OpenLog
<1>4. CASE CloseLog BY <1>4 DEF CloseLog
<1>5. CASE SignalFd BY <1>5 DEF SignalFd
<1>6. CASE EpollCreate BY <1>6 DEF EpollCreate
<1>7. CASE OpenServerSocket BY <1>7 DEF OpenServerSocket
<1>8. CASE BindServerSocket BY <1>8 DEF BindServerSocket
<1>9. CASE WatchServer BY <1>9 DEF WatchServer, Watch
<1>10. CASE WatchSignal BY <1>10 DEF WatchSignal, Watch
<1>11. CASE StartTimer BY <1>11 DEF StartTimer
<1>12. CASE CreatePool BY <1>12 DEF CreatePool, Create, PoolIncomplete
<1>13. CASE CreateConnQueue BY <1>13 DEF CreateConnQueue, Create
<1>14. CASE StartPool BY <1>14 DEF StartPool
<1>15. CASE AllocEvents BY <1>15 DEF AllocEvents
<1>16. CASE Serve BY <1>16 DEF Serve
<1>17. CASE DestroyPool BY <1>17 DEF DestroyPool
<1>18. CASE FreeConnQueue BY <1>18 DEF FreeConnQueue
<1>19. CASE StopNetworking BY <1>19 DEF StopNetworking
<1>20. CASE UNCHANGED vars BY <1>20 DEF vars
<1> QED
  BY <1>1, <1>2, <1>3, <1>4, <1>5, <1>6, <1>7, <1>8, <1>9, <1>10, <1>11, <1>12,
     <1>13, <1>14, <1>15, <1>16, <1>17, <1>18, <1>19, <1>20 DEF Next

(* At each label of main and rpchat_begin_chat_server exactly the          *)
(* resources of the table are held, in every state the process can be in.  *)
THEOREM StartInductive == Spec => []StartInv
<1>1. Init => StartInv
  BY ThreadAssumption DEF Init, StartInv, TypeInv, ReleasesOnlyHeld, NetInv, WatchInv,
     PoolInv, ThreadInv, BufferInv, LogInv, ReturnInv
<1> QED  BY <1>1, StartStep, PTL DEF Spec

(* No label of main, rpchat_begin_chat_server or rpchat_stop_networking    *)
(* closes or frees what is not held, whichever calls fail.                 *)
THEOREM StartReleases == Spec => []ReleasesOnlyHeld
<1>1. StartInv => ReleasesOnlyHeld  BY DEF StartInv
<1> QED  BY <1>1, StartInductive, PTL

(* The event loop runs only when networking, pool and queue are there.     *)
THEOREM StartFullyUp == Spec => []FullyUp
<1>1. StartInv => FullyUp
  BY DEF StartInv, NetInv, WatchInv, PoolInv, FullyUp
<1> QED  BY <1>1, StartInductive, PTL

(* rplib_tpool_destroy comes before what the threads use is released.      *)
THEOREM StartOrder == Spec => []ReleasedInOrder
<1>1. StartInv => ReleasedInOrder
  BY DEF StartInv, ThreadInv, ReleasedInOrder
<1> QED  BY <1>1, StartInductive, PTL

(* Once networking is up, an exit without a crash gives back all that was  *)
(* acquired, whichever later call failed, but for a log descriptor that    *)
(* was lost before.                                                        *)
THEOREM StartNothingLeft == Spec => []NothingLeft
<1>1. StartInv => NothingLeft
  BY DEF StartInv, TypeInv, ReleasesOnlyHeld, LogInv, ReturnInv, NothingLeft
<1> QED  BY <1>1, StartInductive, PTL
=============================================================================
