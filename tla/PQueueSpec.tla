----------------------------- MODULE PQueueSpec -----------------------------
(***************************************************************************)
(* The promise of heap.c as a state machine over the queues of PQueue:     *)
(* heap_push adds a node or refuses when the queue is full, heap_pop takes *)
(* a node of least key or answers NULL when the queue is empty.  "rc" and  *)
(* "out" are the results of the last call.                                 *)
(***************************************************************************)
EXTENDS Integers, PQueue

CONSTANTS Cap, Keys, Data
VARIABLES q, rc, out

vars == <<q, rc, out>>

Init == q = heap_init /\ rc = 0 /\ out = <<>>

Push(k, v) ==
  /\ out' = <<>>
  /\ IF heap_full(q, Cap)
     THEN rc' = -1 /\ UNCHANGED q
     ELSE rc' = 0 /\ q' = heap_push(q, k, v)

Pop ==
  /\ rc' = 0
  /\ \/ heap_empty(q) /\ out' = <<>> /\ UNCHANGED q
     \/ \E n \in Minima(q) : q' = heap_pop(q, n) /\ out' = <<n>>

Next == Pop \/ \E k \in Keys, v \in Data : Push(k, v)

Spec == Init /\ [][Next]_vars
=============================================================================
