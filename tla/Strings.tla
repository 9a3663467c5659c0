------------------------------ MODULE Strings ------------------------------
(***************************************************************************)
(* rpchat_string_t and the texts built from it (rpchat_string.c,           *)
(* rpchat_conn_queue.c, rpchat_process_event.c).  A string is the sequence *)
(* of the characters its field len counts, so Len(s) is s.len; a character *)
(* is a printable one or stands for its class.                             *)
(***************************************************************************)
EXTENDS Integers, Sequences, SequencesExt

CONSTANT RPCHAT_MAX_STR_LENGTH
ASSUME StringAssumption == RPCHAT_MAX_STR_LENGTH \in Nat \ {0}

NUL       == "nul"
Printable == {"a", "b", ","}       \* RPCHAT_FILTER_ASCII_START .. _END
Blank     == {"space", "newline"}  \* kept if b_allow_ctrl
Other     == {NUL, "other"}        \* every other character

Chars     == Printable \cup Blank \cup Other

(* The characters that are copied.                                         *)
Allowed(b_allow_ctrl) == Printable \cup (IF b_allow_ctrl THEN Blank ELSE {})

(* The loop over the characters of s: those of set T, in their order.      *)
Copied(s, T) ==
  LET output[i \in 0 .. Len(s)] ==
        IF i = 0 THEN << >>
        ELSE IF s[i] \in T THEN Append(output[i - 1], s[i]) ELSE output[i - 1]
  IN  output
Filter(s, T) == Copied(s, T)[Len(s)]

(* Mutant: a string gets one terminator more each time.                    *)
SanitizeKeepsNul(s, b_allow_ctrl) ==
  LET read == SubSeq(s, 1, Min({Len(s), RPCHAT_MAX_STR_LENGTH}))
      kept == Filter(read, Allowed(b_allow_ctrl) \cup {NUL})
  IN  IF kept = << >> THEN << >> ELSE Append(kept, NUL)

(* Mutant: the terminator is written twice.                                *)
SanitizeTwoNuls(s, b_allow_ctrl) ==
  LET kept == Filter(s, Allowed(b_allow_ctrl))
  IN  IF kept = << >> THEN << >> ELSE kept \o <<NUL, NUL>>

(* rpchat_string_sanitize: the characters that pass the filter, then a     *)
(* terminator that is counted in len.  It returns RPLIB_UNSUCCESS for an   *)
(* empty result.                                                           *)
Sanitize(s, b_allow_ctrl) ==
  LET read == SubSeq(s, 1, Min({Len(s), RPCHAT_MAX_STR_LENGTH}))
      kept == Filter(read, Allowed(b_allow_ctrl))
  IN  IF kept = << >> THEN << >> ELSE Append(kept, NUL)

(* What "%s" prints.                                                       *)
CStr(s) == Filter(s, Chars \ {NUL})

(* One snprintf of text at acc.index of an array, external.  At most room  *)
(* bytes are written, the last of them NUL; the result, which moves index, *)
(* is the length of the whole text.  A negative room is taken for a huge   *)
(* one: the text may run over the end of the array.                        *)
Snprintf(acc, text) ==
  LET room == RPCHAT_MAX_STR_LENGTH - acc.index
  IN  [index |-> acc.index + Len(text),
       buf   |-> IF room <= 0 THEN acc.buf
                 ELSE SubSeq(acc.buf, 1, acc.index)
                        \o SubSeq(text, 1, Min({Len(text), room - 1})),
       over  |-> acc.over \/ room < 0]
EmptyBuf == [index |-> 0, buf |-> << >>, over |-> FALSE]
=============================================================================
