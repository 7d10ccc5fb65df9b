------------------------------ MODULE MCRtcore ------------------------------
(* Two tasks and memory for a few windows, for TLC.                        *)
EXTENDS Rtcore, TLC

TaskSymmetry == Permutations(Tasks)
=============================================================================
