----------------------------- MODULE MCMinHeap -----------------------------
(* Small heaps for TLC.                                                    *)
EXTENDS MinHeap

(* The values are only compared for equality: it is enough to look at what *)
(* happens when the first that is not in the heap is pushed.               *)
FirstValue ==
  len' > len => \A v \in Data : v < a'[len].val => \E j \in 0 .. len - 1 : a[j].val = v
=============================================================================
