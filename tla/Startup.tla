------------------------------ MODULE Startup ------------------------------
(***************************************************************************)
(* The life of the process (main.c, rpchat_begin_chat_server,              *)
(* rpchat_begin_networking, rpchat_file_io.c): what is acquired, in which  *)
(* order, what every failure on the way leaves behind, and the exit code.  *)
(* Every call that can fail does so or not; what the server does while it  *)
(* is up is ChatServer, what the pool does is ThreadPool.                  *)
(***************************************************************************)
EXTENDS Integers, FiniteSets

CONSTANT NumThreads      \* RPCHAT_NUM_THREADS
ASSUME ThreadAssumption == NumThreads \in Nat \ {0}

(* What is opened or allocated, by the name of its variable in the code.   *)
Resources == {"h_fd_log_loc", "h_fd_signal", "h_fd_epoll", "h_fd_server",
              "p_tpool", "p_conn_queue", "p_ret_event_buf"}

RPLIB_SUCCESS   == 0
RPLIB_UNSUCCESS == 1
RPLIB_ERROR     == -1

VARIABLES
  pc,        \* the call the main thread makes next
  res,       \* the variable res of the caller, at the end the exit code
  args,      \* the options given on the command line
  port,      \* port_num: "default" or "chosen"
  have,      \* have[r]: "none", "held", "released", "lost" (open, but the
             \* variable no longer says so), "wrong" (released and not held)
  watched,   \* descriptors in the epoll set
  timer,     \* setitimer succeeded
  threads,   \* threads of the pool that run
  reached    \* ghost: "none", "networking" (rpchat_begin_networking succeeded),
             \* "served" (a planned exit was taken)

kept == <<args, port>>
vars == <<pc, res, args, port, have, watched, timer, threads, reached>>

Options == {"-l", "-p", "-h"}

Init ==
  /\ pc = "rlimit"
  /\ res = RPLIB_UNSUCCESS
  /\ args \in SUBSET Options
  /\ port = "default"
  /\ have = [r \in Resources |-> "none"]
  /\ watched = {}
  /\ timer = FALSE
  /\ threads = 0
  /\ reached = "none"

At(l) == pc = l
Goto(l) == pc' = l
Acquire(r) == have' = [have EXCEPT ![r] = "held"]
Release(S) ==
  have' = [r \in Resources |-> IF r \notin S THEN have[r]
                              ELSE IF have[r] = "held" THEN "released" ELSE "wrong"]
-----------------------------------------------------------------------------
(* main.                                                                   *)

GetRlimit ==
  /\ At("rlimit")
  /\ Goto("args") \/ Goto("exit")
  /\ UNCHANGED <<res, kept, have, watched, timer, threads, reached>>

(* rpchat_get_arguments.  The option string of getopt is "t:l:h": -p is an *)
(* unknown option, which is passed over.                                   *)
GetArguments ==
  /\ At("args")
  /\ Goto(IF "-h" \in args THEN "exit" ELSE IF "-l" \in args THEN "log" ELSE "signalfd")
  /\ port' = "default"
  /\ UNCHANGED <<res, args, have, watched, timer, threads, reached>>

(* rpchat_open_log_location.  If dup2 fails the descriptor is forgotten.   *)
OpenLog ==
  /\ At("log")
  /\ \/ Acquire("h_fd_log_loc")
     \/ UNCHANGED have
     \/ have' = [have EXCEPT !["h_fd_log_loc"] = "lost"]
  /\ Goto("signalfd")
  /\ UNCHANGED <<res, kept, watched, timer, threads, reached>>

(* rpchat_close_log_location; close(-1) has no effect.                     *)
CloseLog ==
  /\ At("closelog")
  /\ IF have["h_fd_log_loc"] = "held" THEN Release({"h_fd_log_loc"}) ELSE UNCHANGED have
  /\ Goto("exit")
  /\ UNCHANGED <<res, kept, watched, timer, threads, reached>>
-----------------------------------------------------------------------------
(* rpchat_begin_networking, called by rpchat_begin_chat_server.            *)

(* sigprocmask and signalfd are asserted; res is 0 afterwards.             *)
SignalFd ==
  /\ At("signalfd")
  /\ \/ Acquire("h_fd_signal") /\ Goto("epoll") /\ res' = RPLIB_SUCCESS
     \/ UNCHANGED <<have, res>> /\ Goto("crashed")
  /\ UNCHANGED <<kept, watched, timer, threads, reached>>

(* Mutant: the failure goes to the cleanup of the caller.                  *)
EpollCreateCleansUp ==
  /\ At("epoll")
  /\ \/ Acquire("h_fd_epoll") /\ Goto("socket")
     \/ UNCHANGED have /\ Goto("cleanup")
  /\ UNCHANGED <<res, kept, watched, timer, threads, reached>>

(* A failure goes to leave in both functions: the caller looks at its      *)
(* h_fd_epoll, which is set at the end only, and returns res.              *)
EpollCreate ==
  /\ At("epoll")
  /\ \/ Acquire("h_fd_epoll") /\ Goto("socket")
     \/ UNCHANGED have /\ Goto("closelog")
  /\ UNCHANGED <<res, kept, watched, timer, threads, reached>>

(* rpchat_setup_server_socket: socket, then setsockopt, bind and listen.   *)
OpenServerSocket ==
  /\ At("socket")
  /\ \/ Acquire("h_fd_server") /\ Goto("bind")
     \/ UNCHANGED have /\ Goto("closelog")
  /\ UNCHANGED <<res, kept, watched, timer, threads, reached>>

BindServerSocket ==
  /\ At("bind")
  /\ Goto("watchserver") \/ Goto("closelog")
  /\ UNCHANGED <<res, kept, have, watched, timer, threads, reached>>

Watch(here, r, next) ==
  /\ At(here)
  /\ \/ watched' = watched \cup {r} /\ Goto(next)
     \/ UNCHANGED watched /\ Goto("closelog")
  /\ UNCHANGED <<res, kept, have, timer, threads, reached>>
WatchServer == Watch("watchserver", "h_fd_server", "watchsignal")
WatchSignal == Watch("watchsignal", "h_fd_signal", "timer")

(* A timer that cannot be set is reported in res, which nobody reads; the  *)
(* epoll descriptor is returned all the same.                              *)
StartTimer ==
  /\ At("timer")
  /\ \/ timer' = TRUE /\ UNCHANGED res
     \/ timer' = FALSE /\ res' = RPLIB_ERROR
  /\ Goto("pool")
  /\ reached' = "networking"
  /\ UNCHANGED <<kept, have, watched, threads>>
-----------------------------------------------------------------------------
(* rpchat_begin_chat_server.                                               *)

Create(here, r, next) ==
  /\ At(here)
  /\ \/ Acquire(r) /\ Goto(next)
     \/ UNCHANGED have /\ Goto("cleanup")
  /\ UNCHANGED <<res, kept, watched, timer, threads, reached>>
(* Mutant: the server goes on without a connection queue.                  *)
CreateConnQueueUnchecked ==
  /\ At("queue")
  /\ Acquire("p_conn_queue") \/ UNCHANGED have
  /\ Goto("start")
  /\ UNCHANGED <<res, kept, watched, timer, threads, reached>>

CreateConnQueue == Create("queue", "p_conn_queue", "start")

(* rplib_tpool_initialize does not look at its own allocations: a pool     *)
(* without its task queue or its buffer crashes the process when it is     *)
(* started or destroyed, whichever comes first.                            *)
PoolIncomplete ==
  /\ At("pool")
  /\ Acquire("p_tpool") /\ Goto("crashed")
  /\ UNCHANGED <<res, kept, watched, timer, threads, reached>>
CreatePool == Create("pool", "p_tpool", "queue") \/ PoolIncomplete

(* rplib_tpool_start stops at the first thread that cannot be created, and *)
(* its result is not looked at.                                            *)
StartPool ==
  /\ At("start")
  /\ \E n \in 0 .. NumThreads : threads' = n
  /\ Goto("calloc")
  /\ UNCHANGED <<res, kept, have, watched, timer, reached>>

AllocEvents ==
  /\ At("calloc")
  /\ \/ Acquire("p_ret_event_buf") /\ Goto("loop") /\ UNCHANGED res
     \/ UNCHANGED have /\ Goto("cleanup") /\ res' = RPLIB_ERROR
  /\ UNCHANGED <<kept, watched, timer, threads, reached>>

(* One turn: all is well, a planned exit, or an error of epoll_wait.       *)
Serve ==
  /\ At("loop")
  /\ \/ Release({"p_ret_event_buf"}) /\ Goto("calloc") /\ UNCHANGED <<res, reached>>
     \/ UNCHANGED have /\ Goto("cleanup") /\ reached' = "served" /\ res' = RPLIB_SUCCESS
     \/ UNCHANGED <<have, reached>> /\ Goto("cleanup") /\ res' = RPLIB_UNSUCCESS
  /\ UNCHANGED <<kept, watched, timer, threads>>

(* Mutant: the queue goes before the threads that use it.                  *)
DestroyPoolLate ==
  /\ At("cleanup")
  /\ Release({"p_conn_queue"})
  /\ Goto("freequeue")
  /\ UNCHANGED <<res, kept, watched, timer, threads, reached>>

(* rplib_tpool_destroy joins all NumThreads entries of its buffer, those   *)
(* of threads that were never created too (ThreadPool, "crashed").         *)
DestroyPool ==
  /\ At("cleanup")
  /\ IF have["p_tpool"] = "held"
     THEN IF threads = NumThreads
          THEN Release({"p_tpool"}) /\ threads' = 0 /\ Goto("freequeue")
          ELSE Goto("crashed") /\ UNCHANGED <<have, threads>>
     ELSE Goto("freequeue") /\ UNCHANGED <<have, threads>>
  /\ UNCHANGED <<res, kept, watched, timer, reached>>

FreeConnQueue ==
  /\ At("freequeue")
  /\ IF have["p_conn_queue"] = "held" THEN Release({"p_conn_queue"}) ELSE UNCHANGED have
  /\ Goto("stop")
  /\ UNCHANGED <<res, kept, watched, timer, threads, reached>>

(* Mutant: the server socket is not closed.                                *)
StopNetworkingPartly ==
  /\ At("stop")
  /\ Release({"h_fd_signal", "h_fd_epoll"}
               \cup {r \in {"p_ret_event_buf"} : have[r] = "held"})
  /\ watched' = {}
  /\ Goto("closelog")
  /\ UNCHANGED <<res, kept, timer, threads, reached>>

(* rpchat_stop_networking (cleanup is reached with h_fd_epoll set only),   *)
(* and the buffer of the last turn.                                        *)
StopNetworking ==
  /\ At("stop")
  /\ Release({"h_fd_server", "h_fd_signal", "h_fd_epoll"}
               \cup {r \in {"p_ret_event_buf"} : have[r] = "held"})
  /\ watched' = {}
  /\ Goto("closelog")
  /\ UNCHANGED <<res, kept, timer, threads, reached>>

Next ==
  \/ GetRlimit \/ GetArguments \/ OpenLog \/ CloseLog
  \/ SignalFd \/ EpollCreate \/ OpenServerSocket \/ BindServerSocket
  \/ WatchServer \/ WatchSignal \/ StartTimer
  \/ CreatePool \/ CreateConnQueue \/ StartPool \/ AllocEvents \/ Serve
  \/ DestroyPool \/ FreeConnQueue \/ StopNetworking

Spec == Init /\ [][Next]_vars
-----------------------------------------------------------------------------
(* Whatever fails first, no label of the clean-up code closes or frees     *)
(* something that was not acquired or is already gone.                     *)
ReleasesOnlyHeld == \A r \in Resources : have[r] # "wrong"

(* The loop of rpchat_begin_chat_server runs only when everything it and   *)
(* the workers use is there: no failure before it is passed over, but that *)
(* of the timer and of threads.                                            *)
FullyUp ==
  pc \in {"calloc", "loop"} =>
    /\ \A r \in Resources \ {"h_fd_log_loc", "p_ret_event_buf"} : have[r] = "held"
    /\ watched = {"h_fd_server", "h_fd_signal"}

(* The threads are gone before what they use goes: the connection queue    *)
(* and the epoll descriptor.                                               *)
ReleasedInOrder ==
  threads > 0 => /\ have["p_conn_queue"] # "released"
                 /\ have["h_fd_epoll"] # "released"

(* When rpchat_begin_networking has succeeded, a process that ends without *)
(* a crash has given back all it acquired, whichever later step failed     *)
(* (the pool, the queue, the events or none); only the descriptor of the   *)
(* log may be left open, when rpchat_open_log_location had lost it.        *)
NothingLeft ==
  pc = "exit" /\ reached # "none" =>
    \A r \in Resources : \/ have[r] \in {"none", "released"}
                         \/ r = "h_fd_log_loc" /\ have[r] = "lost"

(* rpchat_file_io.h:18: "File Descriptor for log location file, RPLIB_ERR  *)
(* on failure": a failure leaves nothing to close.  Refuted: the file is   *)
(* open and forgotten when dup2 fails (README.md, section 4).              *)
LogClosed == pc = "exit" => have["h_fd_log_loc"] # "lost"

(* main.c:100: "0 on successful close, 1 on error state": a process that   *)
(* exits with 0 has been a server until a planned exit.                    *)
ExitCodeTells == pc = "exit" /\ res = RPLIB_SUCCESS => reached = "served"

(* README.md:16: -p says what port to run the server on.                   *)
PortHonoured == pc = "loop" /\ "-p" \in args => port = "chosen"

(* README.md:81: "A threadpool is created on setup that processes all      *)
(* tasks for the program": the loop does not run without workers.          *)
ServesWithThreads == pc = "loop" => threads > 0

(* The clean-up comes to its end (basic_chat.c:92).                        *)
NoCrash == pc # "crashed"
=============================================================================
