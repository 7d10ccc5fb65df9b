------------------------------ MODULE MCAlloc ------------------------------
(* A heap of a few pages, for TLC.  A page is sixteen cells and the base   *)
(* lies one cell past a boundary.                                          *)
EXTENDS Alloc

(* Nothing is said of a heap once it is spoiled.                           *)
Sound == ~spoiled
=============================================================================
