------------------------------- MODULE PQueue -------------------------------
(***************************************************************************)
(* What rtprog/heap.c promises the scheduler: a bounded priority queue of  *)
(* nodes [key, val] out of which heap_pop takes a node of least key.  A    *)
(* queue is a record: "a" is the set of nodes and "len" is the length word *)
(* of minheap_t, kept apart from the set so that a node pushed twice shows *)
(* up as a length that exceeds the number of nodes.  Which of several      *)
(* nodes with the least key comes first is the business of the array       *)
(* layout; here any of them may.  Module MinHeap has the array.            *)
(***************************************************************************)
EXTENDS Naturals, FiniteSets

HeapNode(Val) == [key : Nat, val : Val]

heap_init == [a |-> {}, len |-> 0]

heap_empty(h) == h.len = 0

heap_full_Never(h, cap) == FALSE
heap_full(h, cap) == h.len = cap

(* The node heap_push writes at the end of the array, before sift_up.      *)
heap_push(h, k, v) ==
  [a |-> h.a \cup {[key |-> k, val |-> v]}, len |-> h.len + 1]

(* The nodes that may be at a[0].                                          *)
Minima(h) == {n \in h.a : \A m \in h.a : n.key <= m.key}

(* The queue after heap_pop has returned node n.                           *)
heap_pop(h, n) == [a |-> h.a \ {n}, len |-> h.len - 1]

(* The processes, or other values, that the queue holds.                   *)
Vals(h) == {n.val : n \in h.a}
=============================================================================
