------------------------------- MODULE MCRing -------------------------------
(* A small ring, for TLC: it can be full, ipc_sched can stop with requests *)
(* left, and tickets wrap after three rounds.  Liveness is checked, so the *)
(* producers, though alike, are not declared symmetric.                    *)
EXTENDS Ring

(* Nothing is promised of a ring that was reset while in use.              *)
Whole == ~torn
=============================================================================
