-------------------------------- MODULE MCMmu --------------------------------
(* The two views of the address spaces, for TLC: the trees as they are     *)
(* built and torn down, and which of them the core translates by.  One     *)
(* moves at a time while the other has not begun.                          *)
EXTENDS MCPageTable, AddrSpace

MmuInit == TableInit /\ SpaceInit
MmuNext ==
  \/ TableNext /\ SpaceInit /\ UNCHANGED spaceVars
  \/ SpaceNext /\ TableInit /\ UNCHANGED tableVars
MmuSpec == MmuInit /\ [][MmuNext]_<<tableVars, spaceVars>>
=============================================================================
