-------------------------------- MODULE Libc --------------------------------
(***************************************************************************)
(* The JRT's libc: one call at a time, either of the memory functions or   *)
(* of vsnprintf and the printers.                                          *)
(***************************************************************************)
EXTENDS MemOps, Format

libcVars == <<memVars, fmtVars>>

(* The state of the part that is not called.                               *)
AnyByte == CHOOSE b \in Bytes : TRUE
MemIdle ==
  Begin([op |-> "memset", dest |-> 0, src |-> 0, n |-> 0, ch |-> AnyByte], [x \in Addr |-> AnyByte])
FmtIdle ==
  /\ todo = <<>> /\ buf = <<>> /\ cap = 0 /\ outlen = 0 /\ stored = 0
  /\ done = TRUE /\ all = <<>> /\ last = Nothing

LibcInit == \/ MemInit /\ FmtIdle
            \/ MemIdle /\ FmtInit
LibcNext == \/ MemNext /\ UNCHANGED fmtVars
            \/ FmtNext /\ UNCHANGED memVars

LibcSpec == LibcInit /\ [][LibcNext]_libcVars
=============================================================================
