-------------------------- MODULE ConnQueueProofs --------------------------
(***************************************************************************)
(* The linked list keeps its shape, alone and inside the connection queue, *)
(* for any set of nodes and any INT_MAX.                                   *)
(*                                                                         *)
(* ListOK is inductive but for the search in rplib_ll_remove_node, which   *)
(* changes the list at p_prev_node: SearchOK says where that is.  The ghost*)
(* order makes the argument one about positions: adding appends one, and   *)
(* removing position i shifts the positions behind it down by one.         *)
(*                                                                         *)
(* Then the strings: what the loop of rpchat_string_sanitize copies is     *)
(* never longer than what it reads, one shorter if it drops a terminator,  *)
(* and all of what was copied before.                                      *)
(***************************************************************************)
EXTENDS ConnQueue, TLAPS, SequenceTheorems, WellFoundedInduction

LLInv == LLTypeOK /\ ListOK /\ SearchOK

(* No node occurs twice.                                                   *)
Distinct(s) == \A i, j \in 1 .. Len(s) : s[i] = s[j] => i = j

Elements(s) == {s[k] : k \in 1 .. Len(s)}

(* Without(s, n), the ghost's removal in label update of                   *)
(* rplib_ll_remove_node, drops the position of n and keeps the others.     *)
LEMMA WithoutIs ==
  ASSUME NEW s \in Seq(Nodes), Distinct(s), NEW i \in 1 .. Len(s)
  PROVE  /\ Without(s, s[i]) \in Seq(Nodes)
         /\ Len(Without(s, s[i])) = Len(s) - 1
         /\ \A k \in 1 .. Len(s) - 1 :
              Without(s, s[i])[k] = IF k < i THEN s[k] ELSE s[k + 1]
<1>1. (CHOOSE j \in 1 .. Len(s) : s[j] = s[i]) = i
  BY DEF Distinct
<1>2. Len(s) - 1 \in Nat
  OBVIOUS
<1>. DEFINE w == [k \in 1 .. Len(s) - 1 |-> IF k < i THEN s[k] ELSE s[k + 1]]
<1>3. Without(s, s[i]) = w
  BY <1>1 DEF Without
<1>4. w \in Seq(Nodes)
  BY <1>2
<1>5. Len(w) = Len(s) - 1
  BY <1>2
<1>. QED
  BY <1>3, <1>4, <1>5

(* A node that is removed leaves a sequence without repetitions that has   *)
(* exactly the other nodes.                                                *)
LEMMA WithoutElements ==
  ASSUME NEW s \in Seq(Nodes), Distinct(s), NEW i \in 1 .. Len(s)
  PROVE  /\ Distinct(Without(s, s[i]))
         /\ Elements(Without(s, s[i])) = Elements(s) \ {s[i]}
<1>. DEFINE w == Without(s, s[i])
<1>1. /\ w \in Seq(Nodes)
      /\ Len(w) = Len(s) - 1
      /\ \A k \in 1 .. Len(s) - 1 : w[k] = IF k < i THEN s[k] ELSE s[k + 1]
  BY WithoutIs
<1>. HIDE DEF w
<1>2. Distinct(w)
  BY SMTT(20), <1>1 DEF Distinct
<1>3. ASSUME NEW k \in 1 .. Len(w)
      PROVE  w[k] \in {s[m] : m \in 1 .. Len(s)} \ {s[i]}
  BY <1>1 DEF Distinct
<1>4. ASSUME NEW m \in 1 .. Len(s), s[m] # s[i]
      PROVE  \E k \in 1 .. Len(w) : w[k] = s[m]
  <2>1. CASE m < i
    BY <1>1, <2>1
  <2>2. CASE m > i
    <3>1. m - 1 \in 1 .. Len(w) /\ w[m - 1] = s[m]
      BY <1>1, <2>2
    <3>. QED  BY <3>1
  <2>. QED  BY <1>4, <2>1, <2>2
<1>5. Elements(w) = Elements(s) \ {s[i]}
  <2>1. ASSUME NEW x \in Elements(w) PROVE x \in Elements(s) \ {s[i]}
    <3>1. PICK k \in 1 .. Len(w) : x = w[k]
      BY <2>1 DEF Elements
    <3>. QED  BY <1>3, <3>1 DEF Elements
  <2>2. ASSUME NEW x \in Elements(s) \ {s[i]} PROVE x \in Elements(w)
    <3>1. PICK m \in 1 .. Len(s) : x = s[m]
      BY <2>2 DEF Elements
    <3>. QED  BY <1>4, <2>2, <3>1 DEF Elements
  <2>. QED  BY <2>1, <2>2
<1>. QED
  BY <1>2, <1>5 DEF w

LEMMA InitInv == LLInit => LLInv
  BY QueueAssumption DEF LLInit, LLInv, LLTypeOK, ListOK, SearchOK

LEMMA EnqueueInv ==
  ASSUME LLInv, NEW n \in Nodes, Enqueue(n)
  PROVE  LLInv'
<1>. USE QueueAssumption DEF LLInv, LLTypeOK, Enqueue, locals
<1>1. /\ order' \in Seq(Nodes) /\ Len(order') = Len(order) + 1
      /\ \A i \in 1 .. Len(order) : order'[i] = order[i]
      /\ order'[Len(order')] = n
  OBVIOUS
<1>2. \A i \in 1 .. Len(order) : order[i] \in Nodes /\ order[i] # n
  BY DEF ListOK
<1>3. LLTypeOK'
  BY SMTT(20), <1>1 DEF ListOK
<1>4. ListOK'
  <2>1. /\ size' = Len(order')
        /\ p_front' = IF order' = << >> THEN NULL ELSE order'[1]
        /\ p_rear' = IF order' = << >> THEN NULL ELSE order'[Len(order')]
    BY <1>1, <1>2 DEF ListOK
  <2>2. ASSUME NEW i \in 1 .. Len(order')
        PROVE  p_next_node'[order'[i]] = IF i = Len(order') THEN NULL ELSE order'[i + 1]
    <3>1. CASE i = Len(order')
      BY <1>1, <3>1
    <3>2. CASE i = Len(order)
      <4>1. p_front # NULL /\ order[i] = p_rear /\ order[i] # n
        BY <1>2, <3>2 DEF ListOK
      <4>. QED  BY <1>1, <3>2, <4>1
    <3>3. CASE i < Len(order)
      <4>1. order[i] # p_rear /\ order[i] # n /\ order[i] \in Nodes
        BY <1>2, <3>3 DEF ListOK
      <4>2. p_next_node'[order[i]] = p_next_node[order[i]]
        BY <4>1
      <4>. QED  BY <1>1, <3>3, <4>2 DEF ListOK
    <3>. QED  BY <1>1, <3>1, <3>2, <3>3
  <2>3. \A i, j \in 1 .. Len(order') : order'[i] = order'[j] => i = j
    BY <1>1, <1>2 DEF ListOK
  <2>4. heap' = {order'[i] : i \in 1 .. Len(order')}
    BY <1>1 DEF ListOK
  <2>. QED
    BY <2>1, <2>2, <2>3, <2>4 DEF ListOK
<1>5. SearchOK'
  BY DEF SearchOK
<1>. QED
  BY <1>3, <1>4, <1>5

(* The removal of the only or the front node, in rplib_ll_remove_node.     *)
LEMMA RemoveFrontInv ==
  ASSUME LLTypeOK, ListOK, NEW n \in heap, RemoveFront(n)
  PROVE  /\ ListOK'
         /\ size' \in Nat /\ heap' \subseteq Nodes /\ order' \in Seq(Nodes)
         /\ p_front' \in Nodes \cup {NULL} /\ p_rear' \in Nodes \cup {NULL}
<1>. USE DEF LLTypeOK, RemoveFront, Update
<1>1. /\ Len(order) > 0 /\ n = order[1] /\ 1 \in 1 .. Len(order)
  BY DEF ListOK
<1>2. Distinct(order)
  BY DEF ListOK, Distinct
<1>. DEFINE w == Without(order, order[1])
<1>a. order' = w
  BY <1>1
<1>b. /\ w \in Seq(Nodes)
      /\ Len(w) = Len(order) - 1
      /\ \A k \in 1 .. Len(order) - 1 : w[k] = IF k < 1 THEN order[k] ELSE order[k + 1]
  BY <1>1, <1>2, WithoutIs
<1>c. Distinct(w) /\ Elements(w) = Elements(order) \ {order[1]}
  BY <1>1, <1>2, WithoutElements
<1>. HIDE DEF w
<1>3. /\ order' \in Seq(Nodes)
      /\ Len(order') = Len(order) - 1
      /\ \A k \in 1 .. Len(order) - 1 : order'[k] = order[k + 1]
  BY <1>a, <1>b, <1>1
<1>4. Distinct(order') /\ heap' = Elements(order')
  <2>1. heap = Elements(order)
    BY DEF ListOK, Elements
  <2>. QED  BY <1>a, <1>c, <1>1, <2>1
<1>5. /\ size' = Len(order')
      /\ p_front' = IF order' = << >> THEN NULL ELSE order'[1]
      /\ p_rear' = IF order' = << >> THEN NULL ELSE order'[Len(order')]
  BY <1>1, <1>3 DEF ListOK
<1>6. \A i \in 1 .. Len(order') :
        p_next_node'[order'[i]] = IF i = Len(order') THEN NULL ELSE order'[i + 1]
  BY SMTT(20), <1>1, <1>3 DEF ListOK
<1>7. ListOK'
  BY <1>4, <1>5, <1>6 DEF ListOK, Distinct, Elements
<1>. QED
  BY <1>3, <1>5, <1>7

(* Behind the removed element, which follows i, the next index is one of   *)
(* the shorter sequence as long as it is not the last.                     *)
LEMMA BehindIndex ==
  ASSUME NEW n \in Nat, NEW i \in 1 .. n, NEW k \in 1 .. n - 1, k > i, k # n - 1
  PROVE  k + 1 \in 1 .. n - 1 /\ ~(k + 1 < i + 1) /\ (k + 1) + 1 = k + 2
OBVIOUS

(* Unlinking a later node, behind the node the search has found.           *)
LEMMA SearchFoundInv ==
  ASSUME LLInv, SearchFound
  PROVE  LLInv'
<1>. USE DEF LLInv, LLTypeOK, SearchFound, Update
<1>1. PICK i \in 1 .. Len(order), j \in 1 .. Len(order) :
        i < j /\ p_prev_node = order[i] /\ p_tgt_node = order[j]
  BY DEF SearchOK
<1>2. Distinct(order)
  BY DEF ListOK, Distinct
<1>3. j = i + 1
  BY <1>1, <1>2 DEF ListOK, Distinct
<1>. DEFINE w == Without(order, order[j])
<1>a. order' = w
  BY <1>1
<1>b. /\ w \in Seq(Nodes)
      /\ Len(w) = Len(order) - 1
      /\ \A k \in 1 .. Len(order) - 1 : w[k] = IF k < j THEN order[k] ELSE order[k + 1]
  BY <1>2, WithoutIs
<1>c. Distinct(w) /\ Elements(w) = Elements(order) \ {order[j]}
  BY <1>2, WithoutElements
<1>. HIDE DEF w
<1>4. /\ order' \in Seq(Nodes) /\ Len(order') = Len(order) - 1
      /\ \A k \in 1 .. Len(order) - 1 : order'[k] = IF k < j THEN order[k] ELSE order[k + 1]
  BY <1>a, <1>b
<1>5. Distinct(order') /\ heap' = Elements(order')
  <2>1. heap = Elements(order)
    BY DEF ListOK, Elements
  <2>. QED  BY <1>a, <1>c, <1>1, <2>1
<1>6. \A k \in 1 .. Len(order) : order[k] \in Nodes
  OBVIOUS
<1>d. ASSUME NEW n \in Nodes, n # order[i]
      PROVE  p_next_node'[n] = p_next_node[n]
  BY <1>1, <1>d
<1>e. \A m \in 1 .. Len(order) :
        p_next_node[order[m]] = IF m = Len(order) THEN NULL ELSE order[m + 1]
  BY DEF ListOK
<1>7. ListOK'
  <2>1. size' = Len(order')
    BY <1>1, <1>4 DEF ListOK
  <2>2. p_front' = IF order' = << >> THEN NULL ELSE order'[1]
    BY <1>1, <1>4 DEF ListOK
  <2>3. p_rear' = IF order' = << >> THEN NULL ELSE order'[Len(order')]
    <3>1. CASE j = Len(order)
      BY <1>1, <1>3, <1>4, <3>1 DEF ListOK
    <3>2. CASE j < Len(order)
      <4>1. p_tgt_node # p_rear
        BY <1>1, <1>2, <3>2 DEF ListOK, Distinct
      <4>. QED  BY <1>1, <1>4, <3>2, <4>1 DEF ListOK
    <3>. QED  BY <3>1, <3>2
  <2>4. ASSUME NEW k \in 1 .. Len(order')
        PROVE  p_next_node'[order'[k]] = IF k = Len(order') THEN NULL ELSE order'[k + 1]
    <3>1. CASE k = i
      <4>1. p_next_node'[order[i]] = p_next_node[order[j]]
        BY <1>1, <1>6
      <4>. QED  BY <1>1, <1>3, <1>4, <3>1, <4>1 DEF ListOK
    <3>2. CASE k < i
      <4>1. /\ order[k] # order[i] /\ k \in 1 .. Len(order)
            /\ k + 1 \in 1 .. Len(order') /\ order'[k] = order[k] /\ order'[k + 1] = order[k + 1]
        <5>1. k \in 1 .. Len(order) /\ k + 1 < j /\ k < j /\ k # i
              /\ k \in 1 .. Len(order) - 1 /\ k + 1 \in 1 .. Len(order) - 1
          BY <1>3, <1>4, <3>2
        <5>2. order[k] # order[i]
          BY <1>2, <5>1 DEF Distinct
        <5>. QED  BY <1>4, <5>1, <5>2
      <4>2. p_next_node'[order[k]] = p_next_node[order[k]]
        BY <1>6, <1>d, <4>1
      <4>3. p_next_node[order[k]] = order[k + 1] /\ k # Len(order')
        BY <1>e, <1>4, <4>1
      <4>. QED  BY <4>1, <4>2, <4>3
    <3>3. CASE k > i
      <4>0. k + 1 \in 1 .. Len(order) /\ order'[k] = order[k + 1]
        BY <1>3, <1>4, <3>3
      <4>1. k + 1 \in 1 .. Len(order) /\ order'[k] = order[k + 1] /\ order[k + 1] # order[i]
        BY <1>2, <3>3, <4>0 DEF Distinct
      <4>2. p_next_node'[order[k + 1]] = p_next_node[order[k + 1]]
        BY <1>6, <1>d, <4>1
      <4>3. p_next_node[order[k + 1]] = IF k = Len(order') THEN NULL ELSE order[k + 2]
        BY <1>e, <1>4, <4>1
      <4>4. ASSUME k # Len(order') PROVE order'[k + 1] = order[k + 2]
        <5>1. k + 1 \in 1 .. Len(order) - 1 /\ ~(k + 1 < j) /\ (k + 1) + 1 = k + 2
          <6>1. Len(order) \in Nat /\ k \in 1 .. Len(order) - 1 /\ k # Len(order) - 1
            BY <1>4, <4>4
          <6>. QED  BY <1>3, <3>3, <6>1, BehindIndex
        <5>. QED  BY <1>4, <5>1
      <4>. QED  BY <4>1, <4>2, <4>3, <4>4
    <3>. QED  BY <1>1, <1>4, <3>1, <3>2, <3>3
  <2>. QED
    BY <1>5, <2>1, <2>2, <2>3, <2>4 DEF ListOK, Distinct, Elements
<1>8. LLTypeOK'
  BY <1>4, <1>1, <1>6 DEF ListOK
<1>9. SearchOK'
  BY DEF SearchOK
<1>. QED
  BY <1>7, <1>8, <1>9

(* The steps of the search that change no pointer.                         *)
LEMMA SearchInv ==
  ASSUME LLInv, SearchNext \/ \E n \in Nodes : RemoveSearch(n)
  PROVE  LLInv'
<1>1. CASE SearchNext
  <2>. USE <1>1 DEF LLInv, SearchNext, header
  <2>1. PICK i \in 1 .. Len(order), j \in 1 .. Len(order) :
          i < j /\ p_prev_node = order[i] /\ p_tgt_node = order[j]
    BY DEF SearchOK
  <2>2. i + 1 \in 1 .. Len(order) /\ p_prev_node' = order[i + 1] /\ i + 1 < j
    BY <2>1 DEF ListOK, LLTypeOK
  <2>3. SearchOK'
    BY <2>1, <2>2 DEF SearchOK
  <2>4. LLTypeOK' /\ ListOK'
    BY <2>2 DEF LLTypeOK, ListOK
  <2>. QED  BY <2>3, <2>4
<1>2. CASE \E n \in Nodes : RemoveSearch(n)
  <2>1. PICK n \in Nodes : RemoveSearch(n)
    BY <1>2
  <2>. USE <2>1 DEF LLInv, RemoveSearch, header
  <2>2. PICK j \in 1 .. Len(order) : n = order[j]
    BY DEF ListOK
  <2>3. 1 < j /\ 1 \in 1 .. Len(order) /\ p_front = order[1]
    BY <2>2 DEF ListOK, LLTypeOK
  <2>4. SearchOK'
    BY <2>2, <2>3 DEF SearchOK
  <2>5. LLTypeOK' /\ ListOK'
    BY DEF LLTypeOK, ListOK
  <2>. QED  BY <2>4, <2>5
<1>. QED  BY <1>1, <1>2

(* rplib_ll_queue_dequeue and the removals that need no search.            *)
LEMMA RemoveInv ==
  ASSUME LLInv,
         DequeueFirst \/ DestroyNext \/ \E n \in Nodes : RemoveNow(n)
  PROVE  LLInv'
<1>1. PICK n \in heap : RemoveFront(n)
  <2>1. CASE DequeueFirst \/ DestroyNext
    <3>1. Dequeue
      BY <2>1 DEF DequeueFirst, DestroyNext
    <3>2. p_front \in heap
      BY <3>1 DEF LLInv, LLTypeOK, ListOK, Dequeue
    <3>. QED  BY <3>1, <3>2 DEF Dequeue
  <2>2. CASE \E n \in Nodes : RemoveNow(n)
    BY <2>2 DEF RemoveNow
  <2>. QED  BY <2>1, <2>2
<1>2. /\ ListOK'
      /\ size' \in Nat /\ heap' \subseteq Nodes /\ order' \in Seq(Nodes)
      /\ p_front' \in Nodes \cup {NULL} /\ p_rear' \in Nodes \cup {NULL}
  BY <1>1, RemoveFrontInv DEF LLInv
<1>3. p_next_node' = p_next_node
  BY <1>1 DEF RemoveFront
<1>4. /\ pc' = pc /\ pc # "search"
      /\ p_tgt_node' = p_tgt_node /\ p_prev_node' = p_prev_node
      /\ free_node_index' \in Nat
  BY DEF DequeueFirst, DestroyNext, RemoveNow, locals, LLInv, LLTypeOK
<1>5. LLTypeOK'
  BY <1>2, <1>3, <1>4 DEF LLInv, LLTypeOK
<1>6. SearchOK'
  BY <1>4 DEF SearchOK
<1>. QED
  BY <1>2, <1>5, <1>6 DEF LLInv

(* Every operation of rplib_ll_queue.c keeps the invariant.                *)
LEMMA NextInv == LLInv /\ [LLNext]_llvars => LLInv'
<1>. SUFFICES ASSUME LLInv, [LLNext]_llvars PROVE LLInv'
  OBVIOUS
<1>1. ASSUME NEW n \in Nodes, Enqueue(n) PROVE LLInv'
  BY <1>1, EnqueueInv
<1>2. CASE DestroyBegin \/ DestroyEnd
  BY <1>2 DEF DestroyBegin, DestroyEnd, LLInv, LLTypeOK, ListOK, SearchOK, header, locals
<1>3. CASE UNCHANGED llvars
  BY <1>3 DEF llvars, LLInv, LLTypeOK, ListOK, SearchOK, header, locals
<1>. QED
  BY <1>1, <1>2, <1>3, SearchInv, SearchFoundInv, RemoveInv DEF LLNext

(* Whatever the connection queue does to its list is an operation of the   *)
(* linked list.                                                            *)
LEMMA ConnQueueStep == [Next]_cqvars => [LLNext]_llvars
<1>. SUFFICES ASSUME [Next]_cqvars PROVE [LLNext]_llvars
  OBVIOUS
<1>1. CASE Next
  BY <1>1 DEF Next, NewConnection, HandleRegister, HandleSend, DestroyConnInfo,
              RemoveLoop, DestroyQueue, LLNext
<1>2. CASE UNCHANGED cqvars
  BY <1>2 DEF cqvars
<1>. QED  BY <1>1, <1>2

(* The invariant of the list in the connection queue.                      *)
LEMMA ConnQueueInv == Spec => []LLInv
<1>1. Init => LLInit
  BY DEF Init
<1>. QED
  BY <1>1, InitInv, NextInv, ConnQueueStep, PTL DEF Spec

(* The linked list of rplib_ll_queue.c holds exactly the nodes added and   *)
(* not removed, in the order of their arrival, whatever operations follow  *)
(* each other; no node is leaked or freed while it is linked.              *)
THEOREM ListShape == /\ LLSpec => []ListOK
                     /\ Spec => []ListOK
<1>1. LLInv => ListOK
  BY DEF LLInv
<1>. QED
  BY <1>1, InitInv, NextInv, ConnQueueInv, PTL DEF LLSpec

(* rplib_ll_remove_node never runs off the end of the list.                *)
THEOREM SearchInFront == /\ LLSpec => []SearchOK
                         /\ Spec => []SearchOK
<1>1. LLInv => SearchOK
  BY DEF LLInv
<1>. QED
  BY <1>1, InitInv, NextInv, ConnQueueInv, PTL DEF LLSpec

(* The fields of rplib_ll_queue_t, the nodes and the locals of             *)
(* rplib_ll_remove_node and rplib_ll_queue_destroy have their types; in    *)
(* particular size never goes below zero.                                  *)
THEOREM ListType == /\ LLSpec => []LLTypeOK
                    /\ Spec => []LLTypeOK
<1>1. LLInv => LLTypeOK
  BY DEF LLInv
<1>. QED
  BY <1>1, InitInv, NextInv, ConnQueueInv, PTL DEF LLSpec
-----------------------------------------------------------------------------
(* The loop over the characters of a string.                               *)

LEMMA LeastIndex ==
  ASSUME NEW S \in SUBSET Nat, S # {}
  PROVE  \E m \in S : \A k \in S : m <= k
<1>. DEFINE R == {p \in Nat \X Nat : p[1] < p[2]}
<1>1. R = OpToRel(<, Nat)
  BY DEF OpToRel
<1>2. IsWellFoundedOn(R, Nat)
  BY <1>1, NatLessThanWellFounded
<1>3. PICK m \in S : \A k \in S : ~(<<k, m>> \in R)
  BY <1>2, WFMin
<1>4. \A k \in S : ~(k < m)
  BY <1>3
<1>. HIDE DEF R
<1>. QED  BY <1>4

CopyLoop(f, s, T, k) ==
  f = [i \in 0 .. k |-> IF i = 0 THEN << >>
                        ELSE IF s[i] \in T THEN Append(f[i - 1], s[i]) ELSE f[i - 1]]

(* The loop has a result: a first length without one would have one.       *)
LEMMA CopiedExists ==
  ASSUME NEW s \in Seq(Chars), NEW T, NEW n \in 0 .. Len(s)
  PROVE  \E f : CopyLoop(f, s, T, n)
<1>. DEFINE Loop(f, k) == CopyLoop(f, s, T, k)
            Bad == {k \in Nat : ~\E f : Loop(f, k)}
<1>. SUFFICES \E f : Loop(f, n)
  OBVIOUS
<1>0. n \in Nat
  OBVIOUS
<1>. HIDE DEF Loop
<1>1. CASE Bad = {}
  BY <1>0, <1>1
<1>2. CASE Bad # {}
  <2>1. PICK m \in Bad : \A k \in Bad : m <= k
    BY <1>2, LeastIndex
  <2>2. CASE m = 0
    <3>1. Loop([i \in 0 .. 0 |-> << >>], 0)
      BY DEF Loop, CopyLoop
    <3>. QED  BY <2>1, <2>2, <3>1
  <2>3. CASE m # 0
    <3>1. m - 1 \in Nat /\ m - 1 \notin Bad /\ m \in Nat
      <4>1. m \in Nat /\ m - 1 \in Nat
        BY <2>3
      <4>. HIDE DEF Bad
      <4>. QED  BY <2>1, <4>1
    <3>2. PICK f : Loop(f, m - 1)
      BY <3>1
    <3>. DEFINE g == [i \in 0 .. m |-> IF i < m THEN f[i]
                                       ELSE IF s[m] \in T THEN Append(f[m - 1], s[m]) ELSE f[m - 1]]
    <3>3. Loop(g, m)
      <4>1. ASSUME NEW i \in 0 .. m
            PROVE  g[i] = IF i = 0 THEN << >>
                          ELSE IF s[i] \in T THEN Append(g[i - 1], s[i]) ELSE g[i - 1]
        <5>1. CASE i = 0
          <6>1. f[0] = << >>
            BY <3>1, <3>2 DEF Loop, CopyLoop
          <6>. QED  BY <2>3, <3>1, <5>1, <6>1
        <5>2. CASE i # 0 /\ i < m
          <6>1. f[i] = IF s[i] \in T THEN Append(f[i - 1], s[i]) ELSE f[i - 1]
            <7>1. i \in 0 .. m - 1
              BY <3>1, <5>2
            <7>. QED  BY <3>2, <5>2, <7>1 DEF Loop, CopyLoop
          <6>2. g[i] = f[i] /\ g[i - 1] = f[i - 1]
            BY <3>1, <5>2
          <6>. QED  BY <5>2, <6>1, <6>2
        <5>3. CASE i = m
          <6>1. g[i - 1] = f[m - 1]
            BY <2>3, <3>1, <5>3
          <6>. QED  BY <2>3, <3>1, <5>3, <6>1
        <5>. QED  BY <3>1, <5>1, <5>2, <5>3
      <4>. HIDE DEF g
      <4>2. g = [i \in 0 .. m |-> g[i]]
        BY DEF g
      <4>. QED  BY <4>1, <4>2 DEF Loop, CopyLoop
    <3>. QED  BY <2>1, <3>3
  <2>. QED  BY <2>2, <2>3
<1>. QED  BY <1>1, <1>2

LEMMA CopiedIs ==
  ASSUME NEW s \in Seq(Chars), NEW T
  PROVE  /\ Copied(s, T)[0] = << >>
         /\ \A i \in 1 .. Len(s) :
              Copied(s, T)[i] = IF s[i] \in T THEN Append(Copied(s, T)[i - 1], s[i])
                                ELSE Copied(s, T)[i - 1]
<1>1. Len(s) \in Nat
  OBVIOUS
<1>. DEFINE c == Copied(s, T)
<1>2. c = CHOOSE f : CopyLoop(f, s, T, Len(s))
  BY DEF Copied, CopyLoop
<1>3. \E f : CopyLoop(f, s, T, Len(s))
  <2>1. Len(s) \in 0 .. Len(s)
    BY <1>1
  <2>. QED  BY <2>1, CopiedExists
<1>4. CopyLoop(c, s, T, Len(s))
  BY <1>2, <1>3, Zenon
<1>. HIDE DEF c
<1>5. c[0] = << >>
  BY <1>1, <1>4 DEF CopyLoop
<1>6. ASSUME NEW i \in 1 .. Len(s)
      PROVE  c[i] = IF s[i] \in T THEN Append(c[i - 1], s[i]) ELSE c[i - 1]
  <2>1. i \in 0 .. Len(s) /\ i # 0
    BY <1>1
  <2>. QED  BY <1>4, <2>1 DEF CopyLoop
<1>. QED  BY <1>5, <1>6 DEF c

(* What the first i steps of the loop copy.                                *)
LEMMA CopiedBounds ==
  ASSUME NEW s \in Seq(Chars), NEW T \in SUBSET Chars, NEW n \in 0 .. Len(s)
  PROVE  /\ Copied(s, T)[n] \in Seq(T) /\ Len(Copied(s, T)[n]) <= n
         /\ (\E j \in 1 .. n : s[j] \notin T) => Len(Copied(s, T)[n]) < n
<1>. DEFINE c == Copied(s, T)
            Good(k) == /\ c[k] \in Seq(T) /\ Len(c[k]) <= k
                       /\ (\E j \in 1 .. k : s[j] \notin T) => Len(c[k]) < k
            Bad == {k \in 0 .. Len(s) : ~Good(k)}
<1>. SUFFICES Good(n)
  OBVIOUS
<1>0. /\ Len(s) \in Nat /\ n \in Nat /\ c[0] = << >>
      /\ \A i \in 1 .. Len(s) :
           s[i] \in Chars /\ c[i] = IF s[i] \in T THEN Append(c[i - 1], s[i]) ELSE c[i - 1]
  BY CopiedIs
<1>. HIDE DEF c
<1>1. CASE Bad = {}
  <2>. HIDE DEF Good
  <2>. QED  BY <1>1
<1>2. CASE Bad # {}
  <2>1. PICK m \in Bad : \A k \in Bad : m <= k
    <3>1. Bad \in SUBSET Nat
      BY <1>0
    <3>. HIDE DEF Bad
    <3>. QED  BY <1>2, <3>1, LeastIndex
  <2>2. m \in 0 .. Len(s) /\ ~Good(m) /\ m \in Nat
    BY <1>0, <2>1
  <2>3. m # 0
    <3>1. Good(0)
      BY <1>0
    <3>. QED  BY <2>2, <3>1
  <2>4. m \in 1 .. Len(s) /\ m - 1 \in 0 .. Len(s) /\ m - 1 \in Nat
    BY <1>0, <2>2, <2>3
  <2>5. Good(m - 1)
    <3>1. m - 1 \notin Bad
      <4>. HIDE DEF Bad
      <4>. QED  BY <2>1, <2>2, <2>4
    <3>. HIDE DEF Good
    <3>. QED  BY <2>4, <3>1
  <2>6. c[m - 1] \in Seq(T) /\ Len(c[m - 1]) \in Nat /\ Len(c[m - 1]) <= m - 1
    BY <2>5
  <2>7. \A j \in 1 .. m : j = m \/ j \in 1 .. m - 1
    BY <2>2
  <2>8. CASE s[m] \in T
    <3>1. c[m] = Append(c[m - 1], s[m])
      BY <1>0, <2>4, <2>8
    <3>2. c[m] \in Seq(T) /\ Len(c[m]) = Len(c[m - 1]) + 1
      BY <2>6, <2>8, <3>1
    <3>3. (\E j \in 1 .. m : s[j] \notin T) => \E j \in 1 .. m - 1 : s[j] \notin T
      BY <2>7, <2>8
    <3>4. (\E j \in 1 .. m - 1 : s[j] \notin T) => Len(c[m - 1]) < m - 1
      BY <2>5
    <3>5. Good(m)
      BY <2>2, <2>6, <3>2, <3>3, <3>4
    <3>. QED  BY <2>2, <3>5
  <2>9. CASE s[m] \notin T
    <3>1. c[m] = c[m - 1]
      BY <1>0, <2>4, <2>9
    <3>2. Good(m)
      BY <2>2, <2>6, <3>1
    <3>. QED  BY <2>2, <3>2
  <2>. QED  BY <2>8, <2>9
<1>. QED  BY <1>1, <1>2

LEMMA FilterBounds ==
  ASSUME NEW s \in Seq(Chars), NEW T \in SUBSET Chars
  PROVE  /\ Filter(s, T) \in Seq(T) /\ Len(Filter(s, T)) <= Len(s)
         /\ (\E j \in 1 .. Len(s) : s[j] \notin T) => Len(Filter(s, T)) < Len(s)
<1>1. Len(s) \in 0 .. Len(s)
  OBVIOUS
<1>. QED  BY <1>1, CopiedBounds DEF Filter

(* Characters that all pass are copied as they are.                        *)
LEMMA CopiedPrefix ==
  ASSUME NEW s \in Seq(Chars), NEW T \in SUBSET Chars, NEW n \in 0 .. Len(s),
         \A j \in 1 .. n : s[j] \in T
  PROVE  Copied(s, T)[n] = SubSeq(s, 1, n)
<1>. DEFINE c == Copied(s, T)
            Bad == {k \in 0 .. n : c[k] # SubSeq(s, 1, k)}
<1>0. /\ Len(s) \in Nat /\ n \in Nat /\ c[0] = << >>
      /\ \A i \in 1 .. Len(s) :
           s[i] \in Chars /\ c[i] = IF s[i] \in T THEN Append(c[i - 1], s[i]) ELSE c[i - 1]
  BY CopiedIs
<1>. HIDE DEF c
<1>1. CASE Bad = {}
  BY <1>0, <1>1 DEF c
<1>2. CASE Bad # {}
  <2>1. PICK m \in Bad : \A k \in Bad : m <= k
    <3>1. Bad \in SUBSET Nat
      BY <1>0
    <3>. HIDE DEF Bad
    <3>. QED  BY <1>2, <3>1, LeastIndex
  <2>2. m \in 0 .. n /\ m \in Nat /\ c[m] # SubSeq(s, 1, m)
    BY <1>0, <2>1
  <2>3. SubSeq(s, 1, 0) = << >>
    BY <1>0
  <2>4. m # 0
    BY <1>0, <2>2, <2>3
  <2>5. m \in 1 .. Len(s) /\ m \in 1 .. n /\ m - 1 \in 0 .. n /\ m - 1 \in Nat
    BY <1>0, <2>2, <2>4
  <2>6. c[m - 1] = SubSeq(s, 1, m - 1)
    <3>1. m - 1 \notin Bad
      <4>. HIDE DEF Bad
      <4>. QED  BY <2>1, <2>2, <2>5
    <3>. QED  BY <2>5, <3>1
  <2>7. c[m] = Append(SubSeq(s, 1, m - 1), s[m])
    BY <1>0, <2>5, <2>6
  <2>8. Append(SubSeq(s, 1, m - 1), s[m]) = SubSeq(s, 1, m)
    BY <1>0, <2>5
  <2>. QED  BY <2>2, <2>7, <2>8
<1>. QED  BY <1>1, <1>2

(* Filtering again changes nothing but the terminator.                     *)
LEMMA FilterAgain ==
  ASSUME NEW T \in SUBSET Chars, NEW s \in Seq(T), NEW x \in Chars, x \notin T
  PROVE  Filter(s, T) = s /\ Filter(Append(s, x), T) = s
<1>. DEFINE a == Append(s, x)
<1>1. s \in Seq(Chars) /\ Len(s) \in Nat
  OBVIOUS
<1>2. a \in Seq(Chars) /\ Len(a) = Len(s) + 1 /\ a[Len(a)] = x
  BY <1>1
<1>3. \A j \in 1 .. Len(s) : s[j] \in T /\ a[j] = s[j]
  BY <1>1
<1>4. Copied(s, T)[Len(s)] = SubSeq(s, 1, Len(s))
  BY <1>1, <1>3, CopiedPrefix
<1>5. SubSeq(s, 1, Len(s)) = s
  BY <1>1
<1>6. SubSeq(a, 1, Len(s)) = s
  BY <1>1
<1>. HIDE DEF a
<1>7. Copied(a, T)[Len(s)] = SubSeq(a, 1, Len(s))
  <2>1. Len(s) \in 0 .. Len(a)
    BY <1>1, <1>2
  <2>. QED  BY <1>2, <1>3, <2>1, CopiedPrefix
<1>8. Copied(a, T)[Len(a)] = Copied(a, T)[Len(s)]
  <2>1. Len(a) \in 1 .. Len(a) /\ Len(a) - 1 = Len(s)
    BY <1>1, <1>2
  <2>. QED  BY <1>2, <2>1, CopiedIs
<1>. QED  BY <1>4, <1>5, <1>6, <1>7, <1>8 DEF Filter, a

LEMMA MinOfTwo ==
  ASSUME NEW a \in Nat, NEW b \in Nat
  PROVE  Min({a, b}) = IF a <= b THEN a ELSE b
<1>1. \E x \in {a, b} : \A y \in {a, b} : x =< y
  OBVIOUS
<1>. QED  BY <1>1 DEF Min

(* What rpchat_string_sanitize reads of s.                                 *)
LEMMA ReadIs ==
  ASSUME NEW s \in Seq(Chars)
  PROVE  LET read == SubSeq(s, 1, Min({Len(s), RPCHAT_MAX_STR_LENGTH}))
         IN  /\ read \in Seq(Chars)
             /\ Len(s) <= RPCHAT_MAX_STR_LENGTH => read = s
             /\ Len(s) > RPCHAT_MAX_STR_LENGTH =>
                  read = SubSeq(s, 1, RPCHAT_MAX_STR_LENGTH)
<1>1. Len(s) \in Nat /\ RPCHAT_MAX_STR_LENGTH \in Nat
  BY StringAssumption
<1>2. SubSeq(s, 1, Len(s)) = s
  BY <1>1
<1>3. Len(s) > RPCHAT_MAX_STR_LENGTH => SubSeq(s, 1, RPCHAT_MAX_STR_LENGTH) \in Seq(Chars)
  BY <1>1
<1>. QED  BY <1>1, <1>2, <1>3, MinOfTwo

LEMMA AllowedChars ==
  /\ Allowed(TRUE) = Printable \cup Blank /\ Allowed(FALSE) = Printable
  /\ Allowed(TRUE) \in SUBSET Chars /\ Allowed(FALSE) \in SUBSET Chars
  /\ NUL \in Chars /\ NUL \notin Allowed(TRUE) /\ NUL \notin Allowed(FALSE)
BY DEF Allowed, Chars, Printable, Blank, Other, NUL

(* An empty string, or one whose last character is its terminator.         *)
Terminated(s) == s = << >> \/ (Len(s) > 0 /\ s[Len(s)] = NUL)

(* How long the result of rpchat_string_sanitize is: it has room for its   *)
(* terminator if the string was shorter than the array or had one.         *)
LEMMA SanitizeFits ==
  ASSUME NEW s \in Seq(Chars), NEW b \in BOOLEAN,
         Len(s) <= RPCHAT_MAX_STR_LENGTH
  PROVE  /\ Sanitize(s, b) \in Seq(Chars) /\ Terminated(Sanitize(s, b))
         /\ Len(s) < RPCHAT_MAX_STR_LENGTH \/ Terminated(s) =>
              Len(Sanitize(s, b)) <= RPCHAT_MAX_STR_LENGTH
<1>. DEFINE T == Allowed(b)
            kept == Filter(s, T)
<1>1. Len(s) \in Nat /\ RPCHAT_MAX_STR_LENGTH \in Nat
  BY StringAssumption
<1>2. T \in SUBSET Chars /\ NUL \in Chars /\ NUL \notin T
  BY AllowedChars
<1>3. Sanitize(s, b) = IF kept = << >> THEN << >> ELSE Append(kept, NUL)
  BY ReadIs DEF Sanitize
<1>. HIDE DEF T
<1>4. /\ kept \in Seq(T) /\ Len(kept) <= Len(s)
      /\ (\E j \in 1 .. Len(s) : s[j] \notin T) => Len(kept) < Len(s)
  BY <1>2, FilterBounds
<1>5. Terminated(s) => s = << >> \/ \E j \in 1 .. Len(s) : s[j] \notin T
  BY <1>1, <1>2 DEF Terminated
<1>. HIDE DEF kept
<1>6. kept \in Seq(Chars) /\ Len(kept) \in Nat
  BY <1>2, <1>4
<1>7. CASE kept = << >>
  BY <1>1, <1>3, <1>7 DEF Terminated
<1>8. CASE kept # << >>
  <2>1. Sanitize(s, b) = Append(kept, NUL)
    BY <1>3, <1>8
  <2>2. /\ Append(kept, NUL) \in Seq(Chars) /\ Len(Append(kept, NUL)) = Len(kept) + 1
        /\ Append(kept, NUL)[Len(kept) + 1] = NUL
    BY <1>2, <1>6
  <2>3. s = << >> => Len(kept) = 0
    BY <1>4, <1>6
  <2>4. Len(kept) # 0
    BY <1>6, <1>8
  <2>. QED  BY <1>1, <1>4, <1>5, <1>6, <2>1, <2>2, <2>3, <2>4 DEF Terminated
<1>. QED  BY <1>7, <1>8

LEMMA SanitizeShort ==
  ASSUME NEW s \in Seq(Chars), NEW b \in BOOLEAN,
         Len(s) < RPCHAT_MAX_STR_LENGTH
  PROVE  /\ Sanitize(s, b) \in Seq(Chars) /\ Terminated(Sanitize(s, b))
         /\ Len(Sanitize(s, b)) <= RPCHAT_MAX_STR_LENGTH
<1>1. Len(s) <= RPCHAT_MAX_STR_LENGTH
  BY StringAssumption
<1>. QED  BY <1>1, SanitizeFits

(* Three filters or one: the second and the third only find the text that  *)
(* the first has left, and replace its terminator.                         *)
LEMMA SanitizeAgain ==
  ASSUME NEW s \in Seq(Chars), Len(s) <= RPCHAT_MAX_STR_LENGTH,
         Sanitize(s, TRUE) # << >>
  PROVE  LET clean == Append(Filter(s, Allowed(TRUE)), NUL)
         IN  Sanitize(s, TRUE) = clean /\ Sanitize(clean, TRUE) = clean
<1>. DEFINE T == Allowed(TRUE)
            kept == Filter(s, T)
            clean == Append(kept, NUL)
<1>1. Len(s) \in Nat /\ RPCHAT_MAX_STR_LENGTH \in Nat
  BY StringAssumption
<1>2. T \in SUBSET Chars /\ NUL \in Chars /\ NUL \notin T
  BY AllowedChars
<1>3. Sanitize(s, TRUE) = clean /\ kept # << >>
  BY ReadIs DEF Sanitize
<1>4. kept \in Seq(T) /\ Len(kept) <= Len(s)
  BY <1>2, FilterBounds
<1>5. Filter(kept, T) = kept /\ Filter(clean, T) = kept
  BY <1>2, <1>4, FilterAgain
<1>. DEFINE read == SubSeq(clean, 1, Min({Len(clean), RPCHAT_MAX_STR_LENGTH}))
<1>6. Sanitize(clean, TRUE) = IF Filter(read, T) = << >> THEN << >>
                              ELSE Append(Filter(read, T), NUL)
  BY DEF Sanitize
<1>. HIDE DEF T, kept
<1>7. read \in {clean, kept}
  <2>1. kept \in Seq(Chars) /\ Len(kept) \in Nat
    BY <1>2, <1>4
  <2>2. clean \in Seq(Chars) /\ Len(clean) = Len(kept) + 1 /\ SubSeq(clean, 1, Len(kept)) = kept
    BY <1>2, <2>1
  <2>. HIDE DEF clean
  <2>3. /\ Len(clean) <= RPCHAT_MAX_STR_LENGTH => read = clean
        /\ Len(clean) > RPCHAT_MAX_STR_LENGTH => read = SubSeq(clean, 1, RPCHAT_MAX_STR_LENGTH)
    BY <2>2, ReadIs
  <2>4. Len(clean) > RPCHAT_MAX_STR_LENGTH => RPCHAT_MAX_STR_LENGTH = Len(kept)
    <3>1. Len(kept) <= RPCHAT_MAX_STR_LENGTH
      BY <1>1, <1>4, <2>1
    <3>2. Len(clean) = Len(kept) + 1
      BY <2>2
    <3>. QED  BY <1>1, <2>1, <3>1, <3>2
  <2>5. Len(clean) \in Nat
    BY <2>1, <2>2
  <2>. HIDE DEF read
  <2>6. CASE Len(clean) <= RPCHAT_MAX_STR_LENGTH
    BY <2>3, <2>6
  <2>7. CASE Len(clean) > RPCHAT_MAX_STR_LENGTH
    BY <2>2, <2>3, <2>4, <2>7
  <2>. QED  BY <1>1, <2>5, <2>6, <2>7
<1>. HIDE DEF read
<1>8. Filter(read, T) = kept
  BY <1>5, <1>7
<1>. QED  BY <1>3, <1>6, <1>8 DEF T, kept

(* The text of the DELIVER that announces a client.                        *)
LEMMA JoinedFits ==
  ASSUME NEW name \in Seq(Chars)
  PROVE  LET buf == Snprintf(EmptyBuf, Joined(name)).buf
         IN  buf \in Seq(Chars) /\ Len(buf) < RPCHAT_MAX_STR_LENGTH
<1>. DEFINE text == Joined(name)
            k == Min({Len(text), RPCHAT_MAX_STR_LENGTH - 1})
<1>1. RPCHAT_MAX_STR_LENGTH - 1 \in Nat /\ RPCHAT_MAX_STR_LENGTH \in Nat
  BY StringAssumption
<1>2. CStr(name) \in Seq(Chars)
  <2>1. Chars \ {NUL} \in SUBSET Chars
    OBVIOUS
  <2>2. CStr(name) \in Seq(Chars \ {NUL})
    BY <2>1, FilterBounds DEF CStr
  <2>. QED  BY <2>1, <2>2
<1>3. text \in Seq(Chars)
  <2>1. "space" \in Chars /\ "b" \in Chars
    BY DEF Chars, Printable, Blank
  <2>2. <<"space", "b">> \in Seq(Chars)
    BY <2>1
  <2>. QED  BY <1>2, <2>2 DEF Joined
<1>. HIDE DEF text
<1>4. k \in Nat /\ k <= Len(text) /\ k < RPCHAT_MAX_STR_LENGTH
  <2>1. Len(text) \in Nat
    BY <1>3
  <2>2. k = IF Len(text) <= RPCHAT_MAX_STR_LENGTH - 1 THEN Len(text) ELSE RPCHAT_MAX_STR_LENGTH - 1
    BY <1>1, <2>1, MinOfTwo
  <2>. QED  BY <1>1, <2>1, <2>2
<1>5. Snprintf(EmptyBuf, text).buf = SubSeq(<< >>, 1, 0) \o SubSeq(text, 1, k)
  <2>1. EmptyBuf.index = 0 /\ EmptyBuf.buf = << >>
    BY DEF EmptyBuf
  <2>2. RPCHAT_MAX_STR_LENGTH - 0 = RPCHAT_MAX_STR_LENGTH /\ ~(RPCHAT_MAX_STR_LENGTH <= 0)
    BY <1>1
  <2>. QED  BY <2>1, <2>2 DEF Snprintf
<1>. HIDE DEF k
<1>6. SubSeq(text, 1, k) \in Seq(Chars) /\ Len(SubSeq(text, 1, k)) = k
  BY <1>3, <1>4
<1>7. SubSeq(<< >>, 1, 0) \o SubSeq(text, 1, k) = SubSeq(text, 1, k)
  <2>1. SubSeq(<< >>, 1, 0) = << >>
    OBVIOUS
  <2>. QED  BY <1>6, <2>1
<1>. QED  BY <1>4, <1>5, <1>6, <1>7 DEF text
-----------------------------------------------------------------------------
(* A text that does not fit filled its array with allowed characters, and  *)
(* is longer by its terminator.                                            *)
LEMMA SanitizeFull ==
  ASSUME NEW s \in Seq(Chars), NEW b \in BOOLEAN,
         Len(s) <= RPCHAT_MAX_STR_LENGTH,
         Len(Sanitize(s, b)) > RPCHAT_MAX_STR_LENGTH
  PROVE  /\ Len(s) = RPCHAT_MAX_STR_LENGTH
         /\ \A i \in 1 .. Len(s) : s[i] \in Allowed(b)
         /\ Len(Sanitize(s, b)) = RPCHAT_MAX_STR_LENGTH + 1
         /\ \A i \in 1 .. RPCHAT_MAX_STR_LENGTH : Sanitize(s, b)[i] \in Allowed(b)
<1>. DEFINE T == Allowed(b)
            kept == Filter(s, T)
<1>1. Len(s) \in Nat /\ RPCHAT_MAX_STR_LENGTH \in Nat
  BY StringAssumption
<1>2. T \in SUBSET Chars /\ NUL \in Chars
  BY AllowedChars
<1>3. Sanitize(s, b) = IF kept = << >> THEN << >> ELSE Append(kept, NUL)
  BY ReadIs DEF Sanitize
<1>. HIDE DEF T
<1>4. /\ kept \in Seq(T) /\ Len(kept) <= Len(s)
      /\ (\E j \in 1 .. Len(s) : s[j] \notin T) => Len(kept) < Len(s)
  BY <1>2, FilterBounds
<1>. HIDE DEF kept
<1>5. kept \in Seq(Chars) /\ Len(kept) \in Nat
  BY <1>2, <1>4
<1>6. Len(<< >>) = 0
  OBVIOUS
<1>7. Sanitize(s, b) = Append(kept, NUL)
  BY <1>1, <1>3, <1>6
<1>8. /\ Len(Append(kept, NUL)) = Len(kept) + 1
      /\ \A i \in 1 .. Len(kept) : Append(kept, NUL)[i] = kept[i] /\ kept[i] \in T
  BY <1>2, <1>4, <1>5
<1>9. Len(kept) = RPCHAT_MAX_STR_LENGTH /\ Len(s) = RPCHAT_MAX_STR_LENGTH
  BY <1>1, <1>4, <1>5, <1>7, <1>8
<1>10. \A i \in 1 .. Len(s) : s[i] \in T
  BY <1>1, <1>4, <1>9
<1>. QED  BY <1>7, <1>8, <1>9, <1>10 DEF T

(* The same text filtered again is no longer than before.                  *)
LEMMA SendFull ==
  ASSUME NEW s \in Seq(Chars), Len(s) <= RPCHAT_MAX_STR_LENGTH,
         Sanitize(s, TRUE) # << >>,
         Len(Sanitize(Sanitize(Sanitize(s, TRUE), TRUE), TRUE)) > RPCHAT_MAX_STR_LENGTH
  PROVE  /\ Len(s) = RPCHAT_MAX_STR_LENGTH
         /\ \A i \in 1 .. Len(s) : s[i] \in Printable \cup Blank
         /\ Len(Sanitize(Sanitize(Sanitize(s, TRUE), TRUE), TRUE)) = RPCHAT_MAX_STR_LENGTH + 1
<1>1. Sanitize(Sanitize(Sanitize(s, TRUE), TRUE), TRUE) = Sanitize(s, TRUE)
  BY SanitizeAgain
<1>. QED  BY <1>1, SanitizeFull, AllowedChars

(* Every text fits or fills its array, and names are typed; a node that is *)
(* not in use has no name.                                                 *)
TextInv ==
  /\ username \in [Nodes -> [len : Nat, contents : Seq(Chars)]]
  /\ \A n \in Nodes : n \notin heap => username[n].len = 0
  /\ FitsUnlessFull

LEMMA TextInit == Init => TextInv
<1>1. RPCHAT_MAX_STR_LENGTH \in Nat
  BY StringAssumption
<1>. QED  BY <1>1 DEF Init, TextInv, FitsUnlessFull, NoName

LEMMA NoTextsInv ==
  ASSUME TextInv, NoTexts, ForgetFreed
  PROVE  TextInv'
<1>1. RPCHAT_MAX_STR_LENGTH \in Nat
  BY StringAssumption
<1>. QED  BY <1>1 DEF TextInv, FitsUnlessFull, NoTexts, ForgetFreed, NoName

LEMMA TextStep ==
  ASSUME TextInv, [Next]_cqvars
  PROVE  TextInv'
<1>1. RPCHAT_MAX_STR_LENGTH \in Nat
  BY StringAssumption
<1>2. ASSUME NEW n \in Nodes, NewConnection(n)
      PROVE  TextInv'
  <2>1. PICK g \in Garbage : username' = [username EXCEPT ![n].contents = g]
    BY <1>2 DEF NewConnection
  <2>2. g \in Seq(Chars)
    BY InputAssumption
  <2>3. n \notin heap /\ heap' = heap \cup {n} /\ message' = << >>
    BY <1>2 DEF NewConnection, NoTexts, Enqueue
  <2>4. username[n].len = 0
    BY <2>3 DEF TextInv
  <2>. QED  BY <1>1, <2>1, <2>2, <2>3, <2>4 DEF TextInv, FitsUnlessFull
<1>3. ASSUME NEW n \in Nodes, NEW raw \in Inputs, HandleRegister(n, raw)
      PROVE  TextInv'
  <2>. DEFINE name == Sanitize(raw, FALSE)
              buf == Snprintf(EmptyBuf, Joined(name)).buf
              once == Sanitize(buf, TRUE)
  <2>1. raw \in Seq(Chars) /\ Len(raw) <= RPCHAT_MAX_STR_LENGTH
    BY InputAssumption
  <2>2. name \in Seq(Chars)
    BY <2>1, SanitizeFits
  <2>3. Len(name) > RPCHAT_MAX_STR_LENGTH =>
          /\ Len(name) = RPCHAT_MAX_STR_LENGTH + 1
          /\ \A i \in 1 .. RPCHAT_MAX_STR_LENGTH : name[i] \in Printable
    BY <2>1, SanitizeFull, AllowedChars
  <2>4. /\ username' = [username EXCEPT ![n] = [len |-> Len(name), contents |-> name]]
        /\ message' = Sanitize(once, TRUE)
        /\ n \in heap /\ heap' = heap
    BY <1>3 DEF HandleRegister, SetDeliver, llvars
  <2>. HIDE DEF name
  <2>5. buf \in Seq(Chars) /\ Len(buf) < RPCHAT_MAX_STR_LENGTH
    BY <2>2, JoinedFits
  <2>. HIDE DEF buf
  <2>6. once \in Seq(Chars) /\ Terminated(once) /\ Len(once) <= RPCHAT_MAX_STR_LENGTH
    BY <2>5, SanitizeShort
  <2>. HIDE DEF once
  <2>7. ~(Len(message') > RPCHAT_MAX_STR_LENGTH)
    <3>1. Sanitize(once, TRUE) \in Seq(Chars) /\ Len(Sanitize(once, TRUE)) <= RPCHAT_MAX_STR_LENGTH
      BY <2>6, SanitizeFits
    <3>2. message' = Sanitize(once, TRUE)
      BY <2>4
    <3>3. message' \in Seq(Chars) /\ Len(message') <= RPCHAT_MAX_STR_LENGTH
      BY <3>1, <3>2
    <3>. QED  BY <1>1, <3>3
  <2>8. username'[n] = [len |-> Len(name), contents |-> name] /\ Len(name) \in Nat
    BY <2>2, <2>4 DEF TextInv
  <2>9. /\ username' \in [Nodes -> [len : Nat, contents : Seq(Chars)]]
        /\ \A m \in Nodes : m # n => username'[m] = username[m]
    BY <2>2, <2>4 DEF TextInv
  <2>10. \A m \in Nodes : m \notin heap' => username'[m].len = 0
    BY <2>4, <2>9 DEF TextInv
  <2>11. \A m \in Nodes : username'[m].len > RPCHAT_MAX_STR_LENGTH =>
           /\ username'[m].len = RPCHAT_MAX_STR_LENGTH + 1
           /\ \A i \in 1 .. RPCHAT_MAX_STR_LENGTH : username'[m].contents[i] \in Printable
    <3>1. SUFFICES ASSUME NEW m \in Nodes, username'[m].len > RPCHAT_MAX_STR_LENGTH
                   PROVE  /\ username'[m].len = RPCHAT_MAX_STR_LENGTH + 1
                          /\ \A i \in 1 .. RPCHAT_MAX_STR_LENGTH : username'[m].contents[i] \in Printable
      OBVIOUS
    <3>2. CASE m = n
      <4>1. username'[m].len = Len(name) /\ username'[m].contents = name
        BY <2>8, <3>2
      <4>. QED  BY <2>3, <3>1, <4>1
    <3>3. CASE m # n
      <4>1. username'[m] = username[m]
        BY <2>9, <3>3
      <4>. QED  BY <3>1, <4>1 DEF TextInv, FitsUnlessFull
    <3>. QED  BY <3>2, <3>3
  <2>. QED  BY <2>7, <2>9, <2>10, <2>11 DEF TextInv, FitsUnlessFull
<1>4. ASSUME NEW n \in Nodes, NEW raw \in Inputs, HandleSend(n, raw)
      PROVE  TextInv'
  <2>1. raw \in Seq(Chars) /\ Len(raw) <= RPCHAT_MAX_STR_LENGTH
    BY InputAssumption
  <2>2. /\ message' = Sanitize(Sanitize(Sanitize(raw, TRUE), TRUE), TRUE)
        /\ Sanitize(raw, TRUE) # << >>
        /\ input' = raw /\ username' = username /\ heap' = heap
    BY <1>4 DEF HandleSend, SetDeliver, llvars
  <2>3. Len(message') > RPCHAT_MAX_STR_LENGTH =>
          /\ Len(message') = RPCHAT_MAX_STR_LENGTH + 1
          /\ Len(input') = RPCHAT_MAX_STR_LENGTH
          /\ \A i \in DOMAIN input' : input'[i] \in Printable \cup Blank
    <3>1. DOMAIN raw = 1 .. Len(raw)
      BY <2>1
    <3>. QED  BY <2>1, <2>2, <3>1, SendFull
  <2>. QED  BY <2>2, <2>3 DEF TextInv, FitsUnlessFull
<1>5. ASSUME NEW n \in Nodes, DestroyConnInfo(n)
      PROVE  TextInv'
  BY <1>5, NoTextsInv DEF DestroyConnInfo
<1>6. CASE RemoveLoop \/ DestroyQueue
  BY <1>6, NoTextsInv DEF RemoveLoop, DestroyQueue
<1>7. CASE UNCHANGED cqvars
  BY <1>7 DEF TextInv, FitsUnlessFull, cqvars, llvars, texts
<1>. QED  BY <1>2, <1>3, <1>4, <1>5, <1>6, <1>7 DEF Next

(* rpchat_string.c:21, "double check lengths compliant": of all the texts  *)
(* clients may send, of every length up to that of the array, only one     *)
(* that fills it with allowed characters makes a name or message longer    *)
(* than the array, by its terminator (rpchat_string.c:47); filtering it    *)
(* again on the way to the DELIVER buffer adds nothing.                    *)
THEOREM StringsFitUnlessFull == Spec => []FitsUnlessFull
<1>1. Init => TextInv
  BY TextInit
<1>2. TextInv /\ [Next]_cqvars => TextInv'
  BY TextStep
<1>3. TextInv => FitsUnlessFull
  BY DEF TextInv
<1>. QED  BY <1>1, <1>2, <1>3, PTL DEF Spec

(* Names only have to be typed here.                                       *)
NameInv == username \in [Nodes -> [len : Nat, contents : Seq(Chars)]]

LEMMA NameStep ==
  ASSUME NameInv, [Next]_cqvars
  PROVE  NameInv'
<1>1. ASSUME NEW n \in Nodes, NewConnection(n)
      PROVE  NameInv'
  <2>1. PICK g \in Garbage : username' = [username EXCEPT ![n].contents = g]
    BY <1>1 DEF NewConnection
  <2>2. g \in Seq(Chars)
    BY InputAssumption
  <2>. QED  BY <2>1, <2>2 DEF NameInv
<1>2. ASSUME NEW n \in Nodes, NEW raw \in Inputs, HandleRegister(n, raw)
      PROVE  NameInv'
  <2>. DEFINE name == Sanitize(raw, FALSE)
  <2>1. username' = [username EXCEPT ![n] = [len |-> Len(name), contents |-> name]]
    BY <1>2 DEF HandleRegister
  <2>2. name \in Seq(Chars)
    BY InputAssumption, SanitizeFits
  <2>. HIDE DEF name
  <2>. QED  BY <2>1, <2>2 DEF NameInv
<1>3. ASSUME NEW n \in Nodes, NEW raw \in Inputs, HandleSend(n, raw)
      PROVE  NameInv'
  BY <1>3 DEF HandleSend, NameInv
<1>4. ASSUME ForgetFreed
      PROVE  NameInv'
  BY <1>4 DEF ForgetFreed, NameInv, NoName
<1>5. CASE UNCHANGED cqvars
  BY <1>5 DEF NameInv, cqvars
<1>. QED  BY <1>1, <1>2, <1>3, <1>4, <1>5 DEF Next, DestroyConnInfo, RemoveLoop, DestroyQueue

LEMMA CleanStep ==
  ASSUME NameInv, [Next]_cqvars,
         message' \notin {message, << >>}, username' = username
  PROVE  message' = Append(Filter(input', Printable \cup Blank), NUL)
<1>1. CASE NoTexts
  BY <1>1 DEF NoTexts
<1>2. ASSUME NEW n \in Nodes, NEW raw \in Inputs, HandleRegister(n, raw)
      PROVE  FALSE
  <2>. DEFINE name == Sanitize(raw, FALSE)
  <2>1. /\ username[n].len = 0 /\ name # << >>
        /\ username' = [username EXCEPT ![n] = [len |-> Len(name), contents |-> name]]
    BY <1>2 DEF HandleRegister
  <2>2. name \in Seq(Chars)
    BY InputAssumption, SanitizeFits
  <2>. HIDE DEF name
  <2>3. username'[n].len = Len(name)
    BY <2>1 DEF NameInv
  <2>. QED  BY <2>1, <2>2, <2>3
<1>3. ASSUME NEW n \in Nodes, NEW raw \in Inputs, HandleSend(n, raw)
      PROVE  message' = Append(Filter(input', Printable \cup Blank), NUL)
  <2>. DEFINE clean == Append(Filter(raw, Allowed(TRUE)), NUL)
  <2>1. /\ Sanitize(raw, TRUE) # << >> /\ input' = raw
        /\ message' = Sanitize(Sanitize(Sanitize(raw, TRUE), TRUE), TRUE)
    BY <1>3 DEF HandleSend, SetDeliver
  <2>2. raw \in Seq(Chars) /\ Len(raw) <= RPCHAT_MAX_STR_LENGTH
    BY InputAssumption
  <2>3. Sanitize(raw, TRUE) = clean /\ Sanitize(clean, TRUE) = clean
    BY <2>1, <2>2, SanitizeAgain
  <2>4. message' = clean
    BY <2>1, <2>3
  <2>. QED  BY <2>1, <2>4, AllowedChars
<1>4. CASE UNCHANGED cqvars
  BY <1>4 DEF cqvars, texts
<1>. QED  BY <1>1, <1>2, <1>3, <1>4 DEF Next, NewConnection, DestroyConnInfo, RemoveLoop, DestroyQueue

(* The text of a SEND passes rpchat_string_sanitize three times, in        *)
(* rpchat_handle_send, rpchat_broadcast_msg and                            *)
(* rpchat_conn_proc_set_deliver.  For every text that fits the array, the  *)
(* others get exactly its printable characters and blanks and one          *)
(* terminator. (Of a text that fills the array the terminator is written   *)
(* behind it, see StringsFitUnlessFull.)                                   *)
THEOREM MessagesAreClean == Spec => MessageClean
<1>1. Init => NameInv
  BY DEF Init, NameInv, NoName
<1>2. NameInv /\ [Next]_cqvars => NameInv'
  BY NameStep
<1>3. NameInv /\ [Next]_cqvars =>
        [message' \notin {message, << >>} /\ username' = username =>
           message' = Append(Filter(input', Printable \cup Blank), NUL)]_cqvars
  BY CleanStep
<1>. QED  BY <1>1, <1>2, <1>3, PTL DEF Spec, MessageClean
=============================================================================
