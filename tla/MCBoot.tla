------------------------------- MODULE MCBoot -------------------------------
(* Two cores that JRT may be started on, the second with an affinity above *)
(* Aff0, beside one that runs Linux, for TLC.                              *)
EXTENDS Boot

Core(n) == [a0 |-> n, a1 |-> 0, a2 |-> 0, a3 |-> 0]
Cluster == [Core(0) EXCEPT !.a1 = 1]
Cpus_ == {Core(1), Cluster}
Frames_ == <<Core(0), Core(1), Cluster>>
=============================================================================
