------------------------------ MODULE MCSched ------------------------------
(* Small instances of the scheduler for TLC; the .cfg files give the       *)
(* constants.                                                              *)
EXTENDS Sched
=============================================================================
