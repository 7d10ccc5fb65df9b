---------------------------- MODULE MCTimebase ----------------------------
(* A small word that the product of a time and the frequency overflows.    *)
EXTENDS Timebase

Units_ == {10, 15}
Hertz_ == {0, 3, 5, 20}
=============================================================================
