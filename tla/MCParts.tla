------------------------------ MODULE MCParts ------------------------------
(* Four parts that share no state, for TLC: the time base, the array of    *)
(* heap.c, the driver's device file and the libc.  One of them moves at a  *)
(* time while the others have not begun.                                   *)
EXTENDS MCTimebase, MCMinHeap, MCRtcore, MCLibc

LibcIdle == FmtIdle /\ MemIdle

PartsInit == Init /\ HeapInit /\ DeviceInit /\ LibcInit
PartsNext ==
  \/ /\ HeapInit /\ DeviceInit /\ LibcIdle /\ Next
     /\ UNCHANGED <<heapVars, deviceVars, libcVars>>
  \/ /\ Init /\ DeviceInit /\ LibcIdle /\ HeapNext
     /\ UNCHANGED <<vars, deviceVars, libcVars>>
  \/ /\ Init /\ HeapInit /\ LibcIdle /\ DeviceNext
     /\ UNCHANGED <<vars, heapVars, libcVars>>
  \/ /\ Init /\ HeapInit /\ DeviceInit /\ LibcNext
     /\ UNCHANGED <<vars, heapVars, deviceVars>>
PartsSpec == PartsInit /\ [][PartsNext]_<<vars, heapVars, deviceVars, libcVars>>
=============================================================================
