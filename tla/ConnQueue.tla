----------------------------- MODULE ConnQueue -----------------------------
(***************************************************************************)
(* The connection queue (rpchat_conn_queue.c): a linked list of connection *)
(* objects and the texts made from the names in it, together with what     *)
(* rpchat_handle_register and rpchat_handle_send do to names and messages. *)
(* Every operation runs under mutex_conn_ll; ChatServer has the locking    *)
(* and the interleaving, this module what is in the list and in the texts. *)
(***************************************************************************)
EXTENDS LLQueue, Strings

CONSTANTS Inputs,    \* contents of REGISTER and SEND messages
          Garbage    \* what "%s" may print of an uninitialized array

ASSUME InputAssumption ==
  /\ Inputs \cup Garbage \subseteq Seq(Chars)
  /\ \A s \in Inputs : Len(s) <= RPCHAT_MAX_STR_LENGTH

VARIABLES
  username,   \* username[n]: len and contents of the connection in node n
  input,      \* ghost: what the client sent, if this step handles a message
  welcome,    \* then: text of the registering client's own DELIVER
  message     \* then: text of the DELIVER to others as it is put in the buffer

texts  == <<input, welcome, message>>
cqvars == <<llvars, username, texts>>

NoName == [len |-> 0, contents |-> << >>]
NoTexts == input' = << >> /\ welcome' = EmptyBuf /\ message' = << >>

(* rpchat_conn_queue_create.                                               *)
Init ==
  /\ LLInit
  /\ username = [n \in Nodes |-> NoName]
  /\ input = << >> /\ welcome = EmptyBuf /\ message = << >>

(* rpchat_conn_info_initialize sets the length of the name only; the array *)
(* is whatever was on the stack.                                           *)
NewConnection(n) ==
  /\ Enqueue(n)
  /\ \E g \in Garbage : username' = [username EXCEPT ![n].contents = g]
  /\ NoTexts

(* rpchat_conn_queue_find_by_username: the loop counts to size but stays   *)
(* on the front node, and compares no character.                           *)
FindByUsername(name) ==
  IF size > 0 /\ username[p_front].len = Len(name) THEN p_front ELSE NULL

(* The nodes that a walk from p_front passes.                              *)
NodeAt ==
  LET at[i \in 1 .. size] == IF i = 1 THEN p_front ELSE p_next_node[at[i - 1]]
  IN  at

(* Mutant: the separator is missing.                                       *)
ListEntryPlain(n) == CStr(username'[n].contents)

(* Format of rpchat_conn_queue_list_users for one node.                    *)
ListEntry(n) ==
  (IF n = p_front THEN << >> ELSE <<",", "space">>) \o CStr(username'[n].contents)

(* rpchat_conn_queue_list_users: writing starts on the last character.     *)
ListUsers(text) ==
  FoldLeft(LAMBDA acc, n : Snprintf(acc, ListEntry(n)),
           [text EXCEPT !.index = @ - 1], [i \in 1 .. size |-> NodeAt[i]])

(* "Logged in as %s.\nCurrent Clients: \n", in short.                      *)
Greeting(name) == <<"a">> \o CStr(name) \o <<"newline">>
(* "%s has joined the server."                                             *)
Joined(name) == CStr(name) \o <<"space", "b">>

(* rpchat_conn_proc_set_deliver sanitizes the text once more; a text of an *)
(* snprintf that was cut short ends in NUL.                                *)
SetDeliver(text) == Sanitize(text, TRUE)

(* rpchat_handle_register: the name, the client's own DELIVER, and the one *)
(* of the others, which rpchat_broadcast_msg sanitizes first.              *)
HandleRegister(n, raw) ==
  LET name == Sanitize(raw, FALSE)
  IN  /\ pc = "ready"
      /\ n \in heap /\ username[n].len = 0
      /\ name # << >>
      /\ FindByUsername(name) = NULL
      /\ username' = [username EXCEPT ![n] = [len |-> Len(name), contents |-> name]]
      /\ input' = raw
      /\ LET text == Snprintf(EmptyBuf, Greeting(name))
         IN  welcome' = IF 1 < size THEN ListUsers(text) ELSE text
      /\ message' = SetDeliver(Sanitize(Snprintf(EmptyBuf, Joined(name)).buf, TRUE))
      /\ UNCHANGED llvars

(* rpchat_handle_send, rpchat_broadcast_msg, rpchat_conn_proc_set_deliver. *)
HandleSend(n, raw) ==
  /\ pc = "ready"
  /\ n \in heap
  /\ Sanitize(raw, TRUE) # << >>
  /\ input' = raw
  /\ message' = SetDeliver(Sanitize(Sanitize(raw, TRUE), TRUE))
  /\ welcome' = EmptyBuf
  /\ UNCHANGED <<llvars, username>>

(* The object goes with its node.                                          *)
ForgetFreed ==
  username' = [n \in Nodes |-> IF n \in heap' THEN username[n] ELSE NoName]

(* rpchat_conn_queue_destroy_conn_info, under mutex_conn_ll.               *)
DestroyConnInfo(n) ==
  /\ RemoveNow(n) \/ RemoveSearch(n)
  /\ ForgetFreed /\ NoTexts

(* The loop in rplib_ll_remove_node.                                       *)
RemoveLoop ==
  /\ SearchNext \/ SearchFound
  /\ ForgetFreed /\ NoTexts

(* rpchat_conn_queue_destroy.                                              *)
DestroyQueue ==
  /\ DestroyBegin \/ DestroyNext \/ DestroyEnd
  /\ ForgetFreed /\ NoTexts

Next ==
  \/ \E n \in Nodes : \/ NewConnection(n) \/ DestroyConnInfo(n)
                      \/ \E raw \in Inputs : HandleRegister(n, raw) \/ HandleSend(n, raw)
  \/ RemoveLoop \/ DestroyQueue

(* A thread in a loop goes on; nothing else has to happen.                 *)
Spec == Init /\ [][Next]_cqvars /\ WF_cqvars(RemoveLoop)
-----------------------------------------------------------------------------
(* rplib_ll_remove_node finds the node it looks for, wherever it is.       *)
RemoveEnds == (pc = "search") ~> (pc = "ready")

(* What the filter is for: of a message only printable characters, blanks  *)
(* and one terminator at the end are delivered, however often the code     *)
(* filters it on the way (a SEND is filtered three times, and each filter  *)
(* adds a terminator that is counted in the length).                       *)
MessageClean ==
  [][message' \notin {message, << >>} /\ username' = username =>
       message' = Append(Filter(input', Printable \cup Blank), NUL)
    ]_cqvars

(* rpchat_string.c:21, "double check lengths compliant": no name and no    *)
(* message is longer than its array.  Refuted: the terminator of a text    *)
(* that fills the array is one character more.                             *)
StringsFit ==
  /\ Len(message) <= RPCHAT_MAX_STR_LENGTH
  /\ \A n \in Nodes : username[n].len <= RPCHAT_MAX_STR_LENGTH

(* That is the only case: however often a text is filtered and terminated, *)
(* it exceeds its array by no more than one terminator, and only if the    *)
(* client sent RPCHAT_MAX_STR_LENGTH characters that all pass the filter.  *)
(* No text the server makes of a name ("... has joined") exceeds it.       *)
FitsUnlessFull ==
  /\ Len(message) > RPCHAT_MAX_STR_LENGTH =>
       /\ Len(message) = RPCHAT_MAX_STR_LENGTH + 1
       /\ Len(input) = RPCHAT_MAX_STR_LENGTH
       /\ \A i \in DOMAIN input : input[i] \in Printable \cup Blank
  /\ \A n \in Nodes : username[n].len > RPCHAT_MAX_STR_LENGTH =>
       /\ username[n].len = RPCHAT_MAX_STR_LENGTH + 1
       /\ \A i \in 1 .. RPCHAT_MAX_STR_LENGTH : username[n].contents[i] \in Printable

(* rpchat_conn_queue.h:68, "get all names of all clients currently         *)
(* connected": the walk over the nodes lists the names in order of arrival *)
(* and leaves none out, as far as the array goes; the registering client's *)
(* own name is in it.  (Of clients that are not registered yet, anything   *)
(* may be printed.)                                                        *)
Names == [i \in 1 .. Len(order) |-> CStr(username'[order[i]].contents)]
AllNames ==
  Names[1] \o FlattenSeq([i \in 1 .. Len(order) - 1 |-> <<",", "space">> \o Names[i + 1]])
UserListComplete ==
  [][\A n \in Nodes :
       /\ username[n].len = 0 /\ username'[n].len > 0
       /\ Len(order) > 1 /\ \A m \in heap : username'[m].len > 0
       => LET own == Greeting(username'[n].contents)
              all == SubSeq(own, 1, Len(own) - 1) \o AllNames
          IN  /\ IsPrefix(welcome'.buf, all)
              /\ Len(all) < RPCHAT_MAX_STR_LENGTH => welcome'.buf = all
    ]_cqvars

(* rpchat_conn_queue.c:142: the third argument of snprintf is the room     *)
(* that is left in the array.  It is negative when names have filled it.   *)
ListStaysInArray == ~welcome.over
=============================================================================
