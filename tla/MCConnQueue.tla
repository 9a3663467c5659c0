---------------------------- MODULE MCConnQueue ----------------------------
(* ConnQueue for TLC: four addresses for a list of at most three nodes.    *)
EXTENDS ConnQueue

(* Names of one and two characters, a text without any, and two that have  *)
(* as many characters as the array: some that the filter takes out, or all *)
(* printable.                                                              *)
SomeInputs == { <<"other">>, <<"a">>, <<"b", "space", "a">>,
                <<"a", "b", NUL, "b", "newline", "a", "b", "other">>,
                <<"b", "a", "b", "a", "a", "b", "a", "a">> }

(* The loop of rpchat_string_sanitize keeps what SelectSeq does.           *)
ASSUME FilterIsSelectSeq ==
  \A s \in UNION {[1 .. n -> {"a", "space", "other", NUL}] : n \in 0 .. 4} :
    \A T \in {Allowed(TRUE), Allowed(FALSE), Chars \ {NUL}} :
      Filter(s, T) = SelectSeq(s, LAMBDA ch : ch \in T)

SomeGarbage == { << >>, <<"b", "b">> }
=============================================================================
