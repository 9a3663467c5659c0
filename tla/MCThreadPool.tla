---------------------------- MODULE MCThreadPool ----------------------------
(* ThreadPool for TLC: the bounds are given in the configurations.         *)
EXTENDS ThreadPool
=============================================================================
