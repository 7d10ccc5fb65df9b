------------------------------- MODULE MinHeap -------------------------------
(***************************************************************************)
(* rtprog/heap.c: the D-ary heap in an array.  heap_push and heap_pop are  *)
(* split where their loops turn round: the call changes the array once and *)
(* sets "pc" to the loop to run, and every iteration of sift_up and        *)
(* sift_down is a step, until the call returns.  The heap is only used     *)
(* with interrupts masked, so no call starts while another is under way.   *)
(* Nothing reads a[] at or above len: those slots are blank here.          *)
(***************************************************************************)
EXTENDS Integers, FiniteSets

CONSTANTS
  D,        \* HEAP_D
  Cap,      \* minheap_t.cap
  Keys,     \* keys that are pushed
  Data,     \* values that are pushed
  NoData    \* NULL

ASSUME HeapAssumption ==
  /\ D \in Nat \ {0}
  /\ Cap \in Nat \ {0}
  /\ Keys \subseteq Nat

VARIABLES
  a,        \* minheap_t.a: nodes [key, val, idx]
  len,      \* minheap_t.len
  pc,       \* the loop under way
  i,        \* its index
  rc, out   \* what the last call returned

heapVars == <<a, len, pc, i, rc, out>>

Slots == 0 .. Cap - 1
SIZE_MAX == -1

Blank == [key |-> 0, val |-> NoData, idx |-> SIZE_MAX]
Pair(n) == [key |-> n.key, val |-> n.val]

parent(j) == (j - 1) \div D
child(j, k) == D * j + 1 + k

(* heap_init on storage that is zero.                                      *)
HeapInit ==
  /\ a = [j \in Slots |-> Blank]
  /\ len = 0
  /\ pc = "idle" /\ i = 0
  /\ rc = 0 /\ out = <<>>

swap_nodes(j, k) ==
  [a EXCEPT ![j] = [a[k] EXCEPT !.idx = j], ![k] = [a[j] EXCEPT !.idx = k]]

(* Values come from a process table and a process is pushed only when it   *)
(* is not in the heap (SlotsPartitioned in module Sched).                  *)
heap_push(k, v) ==
  /\ pc = "idle"
  /\ v \notin {a[j].val : j \in 0 .. len - 1}
  /\ IF len = Cap
     THEN rc' = -1 /\ UNCHANGED <<a, len, pc, i>>
     ELSE /\ a' = [a EXCEPT ![len] = [key |-> k, val |-> v, idx |-> len]]
          /\ len' = len + 1
          /\ pc' = "sift_up" /\ i' = len
          /\ rc' = 0
  /\ out' = <<>>

Rises == i > 0 /\ a[parent(i)].key > a[i].key

sift_up ==
  /\ pc = "sift_up"
  /\ IF Rises
     THEN a' = swap_nodes(parent(i), i) /\ i' = parent(i) /\ UNCHANGED pc
     ELSE pc' = "idle" /\ i' = 0 /\ UNCHANGED a
  /\ UNCHANGED <<len, rc, out>>

heap_pop ==
  /\ pc = "idle"
  /\ rc' = 0
  /\ IF len = 0
     THEN out' = <<>> /\ UNCHANGED <<a, len, pc, i>>
     ELSE /\ out' = <<Pair(a[0])>>
          /\ len' = len - 1
          /\ IF len = 1
             THEN /\ a' = [a EXCEPT ![0] = Blank]
                  /\ UNCHANGED <<pc, i>>
             ELSE /\ a' = [a EXCEPT ![0] = [a[len - 1] EXCEPT !.idx = 0],
                                    ![len - 1] = Blank]
                  /\ pc' = "sift_down" /\ i' = 0

(* The children of i that are in the heap, and the first of least key.     *)
Children_Short(j) == {c \in child(j, 0) .. child(j, D - 2) : c < len}
Children(j) == {c \in child(j, 0) .. child(j, D - 1) : c < len}
Best(j) ==
  CHOOSE c \in Children(j) :
    \A b \in Children(j) : /\ a[c].key <= a[b].key
                           /\ b < c => a[c].key < a[b].key

Sinks == \E c \in Children(i) : a[c].key < a[i].key

sift_down ==
  /\ pc = "sift_down"
  /\ IF Sinks
     THEN a' = swap_nodes(i, Best(i)) /\ i' = Best(i) /\ UNCHANGED pc
     ELSE pc' = "idle" /\ i' = 0 /\ UNCHANGED a
  /\ UNCHANGED <<len, rc, out>>

HeapNext ==
  \/ \E k \in Keys, v \in Data : heap_push(k, v)
  \/ heap_pop
  \/ sift_up
  \/ sift_down

HeapSpec == HeapInit /\ [][HeapNext]_heapVars

-----------------------------------------------------------------------------
(* Properties.                                                             *)

(* The array implements the queue that the scheduler is written against.   *)
Q == INSTANCE PQueueSpec WITH
       q <- [a |-> {Pair(a[j]) : j \in 0 .. len - 1}, len |-> len]

(* Each call adds or removes exactly the node it says, whichever swaps its *)
(* loop makes, and a removed node has a least key.                         *)
RefinesPQueue == Q!Spec
=============================================================================
