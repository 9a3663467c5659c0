------------------------------ MODULE LLQueue ------------------------------
(***************************************************************************)
(* The linked-list queue of rplib (rplib_ll_queue.c), pointer by pointer.  *)
(* It holds the tasks of the pool and the connections of the server, under *)
(* the mutex of its owner: one operation at a time, but the two loops, the *)
(* search for the predecessor in rplib_ll_remove_node and the one in       *)
(* rplib_ll_queue_destroy, take one step for each iteration.               *)
(*                                                                         *)
(* A node and its data are allocated and freed together: one element of    *)
(* Nodes.                                                                  *)
(***************************************************************************)
EXTENDS Integers, Sequences

CONSTANTS Nodes,      \* addresses malloc may return
          NULL,
          INT_MAX     \* bound of size, by limits.h in the code

ASSUME QueueAssumption == NULL \notin Nodes /\ INT_MAX \in Nat \ {0}

VARIABLES
  size, p_front, p_rear,   \* rplib_ll_queue_t
  p_next_node,             \* p_next_node[n], of every node
  heap,                    \* nodes that are allocated
  pc,                      \* "ready", "search", "destroy", "destroyed"
  p_tgt_node, p_prev_node, \* locals of rplib_ll_remove_node
  free_node_index,         \* local of rplib_ll_queue_destroy
  order                    \* ghost: nodes in the order in which they were added

header == <<size, p_front, p_rear>>
locals == <<p_tgt_node, p_prev_node, free_node_index>>
llvars == <<header, p_next_node, heap, pc, locals, order>>

(* rplib_ll_queue_create.                                                  *)
LLInit ==
  /\ size = 0 /\ p_front = NULL /\ p_rear = NULL
  /\ p_next_node = [n \in Nodes |-> NULL]
  /\ heap = {}
  /\ pc = "ready"
  /\ p_tgt_node = NULL /\ p_prev_node = NULL
  /\ free_node_index = 0
  /\ order = << >>

(* rplib_ll_queue_enqueue.  When an allocation fails, or the size would    *)
(* reach INT_MAX, what was allocated is freed and nothing has changed.     *)
Enqueue(n) ==
  /\ pc = "ready"
  /\ n \in Nodes \ heap
  /\ size + 1 < INT_MAX
  /\ size' = size + 1
  /\ heap' = heap \cup {n}
  /\ p_front' = IF p_front = NULL THEN n ELSE p_front
  /\ p_rear' = n
  /\ p_next_node' = [m \in Nodes |-> CASE m = n -> NULL
                                       [] m # n /\ p_front # NULL /\ m = p_rear -> n
                                       [] OTHER -> p_next_node[m]]
  /\ order' = Append(order, n)
  /\ UNCHANGED <<pc, locals>>

(* The sequence s without its element n.                                   *)
Without(s, n) ==
  LET i == CHOOSE j \in 1 .. Len(s) : s[j] = n
  IN  [k \in 1 .. Len(s) - 1 |-> IF k < i THEN s[k] ELSE s[k + 1]]

(* Mutant: the size is reduced twice.                                      *)
UpdateTwice(n) ==
  /\ size' = size - 2
  /\ heap' = heap \ {n}
  /\ order' = Without(order, n)

(* Label update of rplib_ll_remove_node.                                   *)
Update(n) ==
  /\ size' = size - 1
  /\ heap' = heap \ {n}
  /\ order' = Without(order, n)

(* The only node, or the front node of several.                            *)
RemoveFront(n) ==
  /\ size = 1 \/ n = p_front
  /\ p_front' = IF size = 1 THEN NULL ELSE p_next_node[n]
  /\ p_rear' = IF size = 1 THEN NULL ELSE p_rear
  /\ Update(n)
  /\ UNCHANGED p_next_node

RemoveNow(n) ==
  /\ pc = "ready"
  /\ n \in heap
  /\ RemoveFront(n)
  /\ UNCHANGED <<pc, locals>>

(* Mutant: the search starts behind the front node.                        *)
RemoveSearchLate(n) ==
  /\ pc = "ready"
  /\ n \in heap
  /\ size # 1 /\ n # p_front
  /\ pc' = "search"
  /\ p_tgt_node' = n
  /\ p_prev_node' = p_next_node[p_front]
  /\ UNCHANGED <<header, p_next_node, heap, free_node_index, order>>

(* Another node: its predecessor is searched from the front.               *)
RemoveSearch(n) ==
  /\ pc = "ready"
  /\ n \in heap
  /\ size # 1 /\ n # p_front
  /\ pc' = "search"
  /\ p_tgt_node' = n
  /\ p_prev_node' = p_front
  /\ UNCHANGED <<header, p_next_node, heap, free_node_index, order>>

(* Mutant: the search does not advance.                                    *)
SearchStays ==
  /\ pc = "search"
  /\ p_next_node[p_prev_node] # p_tgt_node
  /\ UNCHANGED llvars

SearchNext ==
  /\ pc = "search"
  /\ p_next_node[p_prev_node] # p_tgt_node
  /\ p_prev_node' = p_next_node[p_prev_node]
  /\ UNCHANGED <<header, p_next_node, heap, pc, p_tgt_node, free_node_index, order>>

(* Mutant: the rear pointer is left at the node that is freed.             *)
SearchFoundKeepsRear ==
  /\ pc = "search"
  /\ p_next_node[p_prev_node] = p_tgt_node
  /\ p_next_node' = [p_next_node EXCEPT ![p_prev_node] = p_next_node[p_tgt_node]]
  /\ Update(p_tgt_node)
  /\ pc' = "ready"
  /\ p_tgt_node' = NULL /\ p_prev_node' = NULL
  /\ UNCHANGED <<p_front, p_rear, free_node_index>>

SearchFound ==
  /\ pc = "search"
  /\ p_next_node[p_prev_node] = p_tgt_node
  /\ p_next_node' = [p_next_node EXCEPT ![p_prev_node] = p_next_node[p_tgt_node]]
  /\ p_rear' = IF p_tgt_node = p_rear THEN p_prev_node ELSE p_rear
  /\ Update(p_tgt_node)
  /\ pc' = "ready"
  /\ p_tgt_node' = NULL /\ p_prev_node' = NULL
  /\ UNCHANGED <<p_front, free_node_index>>

(* rplib_ll_queue_peek and rplib_ll_queue_dequeue, with their assertions.  *)
Peek == p_front
Dequeue == p_front # NULL /\ size > 0 /\ RemoveFront(p_front)

(* rplib_ll_queue_destroy: the bound of the loop shrinks with the list.    *)
DestroyBegin ==
  /\ pc = "ready"
  /\ pc' = "destroy"
  /\ free_node_index' = 0
  /\ UNCHANGED <<header, p_next_node, heap, p_tgt_node, p_prev_node, order>>

DestroyNext ==
  /\ pc = "destroy"
  /\ free_node_index < size
  /\ Dequeue
  /\ free_node_index' = free_node_index + 1
  /\ UNCHANGED <<pc, p_tgt_node, p_prev_node>>

DestroyEnd ==
  /\ pc = "destroy"
  /\ free_node_index >= size
  /\ pc' = "destroyed"
  /\ UNCHANGED <<header, p_next_node, heap, locals, order>>

DequeueFirst ==
  /\ pc = "ready"
  /\ Dequeue
  /\ UNCHANGED <<pc, locals>>

LLNext ==
  \/ \E n \in Nodes : Enqueue(n) \/ RemoveNow(n) \/ RemoveSearch(n)
  \/ SearchNext \/ SearchFound \/ DequeueFirst
  \/ DestroyBegin \/ DestroyNext \/ DestroyEnd

LLSpec == LLInit /\ [][LLNext]_llvars
-----------------------------------------------------------------------------
LLTypeOK ==
  /\ size \in Nat
  /\ p_front \in Nodes \cup {NULL} /\ p_rear \in Nodes \cup {NULL}
  /\ p_next_node \in [Nodes -> Nodes \cup {NULL}]
  /\ heap \subseteq Nodes
  /\ pc \in {"ready", "search", "destroy", "destroyed"}
  /\ p_tgt_node \in Nodes \cup {NULL} /\ p_prev_node \in Nodes \cup {NULL}
  /\ free_node_index \in Nat
  /\ order \in Seq(Nodes)

(* The pointers spell out the order of arrival: the chain from p_front     *)
(* passes through exactly the nodes added and not removed, oldest first,   *)
(* ends at p_rear, and has as many nodes as size says; no node of it has   *)
(* been freed and no allocated node is outside it, wherever a node is      *)
(* removed from.                                                           *)
ListOK ==
  /\ size = Len(order)
  /\ p_front = IF order = << >> THEN NULL ELSE order[1]
  /\ p_rear = IF order = << >> THEN NULL ELSE order[Len(order)]
  /\ \A i \in 1 .. Len(order) :
       p_next_node[order[i]] = IF i = Len(order) THEN NULL ELSE order[i + 1]
  /\ \A i, j \in 1 .. Len(order) : order[i] = order[j] => i = j
  /\ heap = {order[i] : i \in 1 .. Len(order)}

(* The search for the predecessor is on the list and in front of its       *)
(* target, so it never follows the last node's pointer.                    *)
SearchOK ==
  pc = "search" =>
    \E i, j \in 1 .. Len(order) :
      i < j /\ p_prev_node = order[i] /\ p_tgt_node = order[j]

(* rplib_ll_queue.h:71: "Destroy a Queue in memory, freeing all children". *)
DestroyFreesAll == pc = "destroyed" => heap = {}
=============================================================================
