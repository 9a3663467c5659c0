------------------------------ MODULE MCClient ------------------------------
(* Client for TLC: clients and workers are model values.                   *)
EXTENDS Client

DistinctNames == [c \in Conns |-> c]
OneLength     == [c \in Conns |-> 1]

(* The REGISTER and two lines of the user.                                 *)
ThreeEach == [c \in Conns |-> 3]
=============================================================================
