---------------------------- MODULE TaskService ----------------------------
(***************************************************************************)
(* What a thread pool promises its users, without threads, mutexes or      *)
(* condition variables: submitted tasks are started in the order in which  *)
(* they were submitted, each is started once and finished once, a graceful *)
(* close happens only when nothing is pending or running, and nothing is   *)
(* started after the close.  ThreadPool is shown to implement it.          *)
(***************************************************************************)
EXTENDS Naturals, Sequences

CONSTANTS Tasks,        \* what can be submitted
          Immediate     \* b_shutdown_immediate of rplib_tpool_destroy

VARIABLES pending,      \* tasks submitted and not yet started, oldest first
          running,      \* tasks being executed
          finished,     \* tasks that returned
          closed        \* the service takes no more task from pending

svars == <<pending, running, finished, closed>>

Init ==
  /\ pending = << >>
  /\ running = {}
  /\ finished = {}
  /\ closed = FALSE

(* A new task is submitted by the owner before it closes the service, or   *)
(* by a task that runs.                                                    *)
Submit ==
  /\ ~closed \/ running # {}
  /\ \E k \in Tasks \ (running \cup finished) : pending' = Append(pending, k)
  /\ UNCHANGED <<running, finished, closed>>

(* The oldest pending task starts.                                         *)
Begin ==
  /\ ~closed
  /\ pending # << >>
  /\ pending' = Tail(pending)
  /\ running' = running \cup {Head(pending)}
  /\ Head(pending) \notin running \cup finished
  /\ UNCHANGED <<finished, closed>>

Finish ==
  /\ \E k \in running : /\ running' = running \ {k}
                        /\ finished' = finished \cup {k}
  /\ UNCHANGED <<pending, closed>>

(* A graceful close waits until there is nothing left to do.               *)
Close ==
  /\ ~closed
  /\ Immediate \/ (pending = << >> /\ running = {})
  /\ closed' = TRUE
  /\ UNCHANGED <<pending, running, finished>>

Next == Submit \/ Begin \/ Finish \/ Close

Spec == Init /\ [][Next]_svars
=============================================================================
