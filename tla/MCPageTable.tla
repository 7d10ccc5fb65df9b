---------------------------- MODULE MCPageTable ----------------------------
(* Trees of three levels with three entries a table, for TLC.              *)
EXTENDS MapDump

(* Images of a part of a page, a page and two pages.  rtcore_sched_prog    *)
(* also accepts one whose entry is inside a page, inside the kernel or     *)
(* where the kernel starts.                                                *)
Programs == {<<28, 8>>, <<30, 3>>, <<24, 4>>, <<20, 4>>}
Gic_ == <<<<8, 4>>, <<12, 3>>>>
Span_ == [l \in 0 .. 2 |-> <<36, 12, 4>>[l + 1]]

(* The pages of the tables are alike: it is enough to look at what happens *)
(* when the allocator gives the first that is free.                        *)
FirstPage == \A p \in free \ free' : \A q \in free : p <= q
=============================================================================
