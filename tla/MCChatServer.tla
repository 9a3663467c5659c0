---------------------------- MODULE MCChatServer ----------------------------
(* ChatServer for TLC: clients and workers are model values.               *)
EXTENDS ChatServer, TLC

(* The clients' names: different names of one length or of two lengths, or *)
(* one name for all.                                                       *)
First         == CHOOSE c \in Conns : TRUE
DistinctNames == [c \in Conns |-> c]
EqualNames    == [c \in Conns |-> "name"]
OneLength     == [c \in Conns |-> 1]
TwoLengths    == [c \in Conns |-> IF c = First THEN 1 ELSE 2]

(* How many messages each client may send.                                 *)
OneEach          == [c \in Conns |-> 1]
TwoEach          == [c \in Conns |-> 2]
OneFromFirst     == [c \in Conns |-> IF c = First THEN 1 ELSE 0]
TwoFromFirstOnly == [c \in Conns |-> IF c = First THEN 2 ELSE 0]

(* Bound for the runs with "nomem" and the timer: the audits come before   *)
(* the first message.                                                      *)
AuditsFirst == "SIGALRM" \in sig => \A c \in Conns : sent[c] = 0

Symmetry == Permutations(Workers)
=============================================================================
