------------------------------- MODULE MemOps -------------------------------
(***************************************************************************)
(* memcpy, memset and memcmp of the JRT's libc.  Each goes byte by byte to *)
(* the first address that is a multiple of a word, word by word from there *)
(* and byte by byte at the end.  One step is one turn of one of the loops. *)
(***************************************************************************)
EXTENDS Integers, FiniteSets

CONSTANTS
  LANE,  \* bytes in a word: 8 in the code
  SIZE,  \* addresses
  Bytes  \* what a byte may hold

ASSUME MemOpsAssumption ==
  LANE \in Nat \ {0} /\ SIZE \in Nat

VARIABLES
  mem,      \* memory, as a function from addresses
  d, s,     \* the running pointers (l and r in memcmp)
  count,    \* what is left
  call,     \* history: the call and its arguments
  old,      \* history: memory as the call found it
  ret       \* "running", or what the call returned

memVars == <<mem, d, s, count, call, old, ret>>

Addr == 0 .. SIZE - 1
Ops == {"memcpy", "memset", "memcmp"}
Block(a, n) == a .. a + n - 1
Calls ==
  {c \in [op : Ops, dest : Addr, src : Addr, n : 0 .. SIZE, ch : Bytes] :
     /\ c.dest + c.n <= SIZE /\ c.src + c.n <= SIZE
     /\ IF c.op = "memset" THEN c.src = c.dest ELSE c.ch = CHOOSE b \in Bytes : TRUE
     /\ c.dest = c.src \/ Block(c.dest, c.n) \cap Block(c.src, c.n) = {}}

(* Each function at its entry.  The blocks that callers pass do not        *)
(* overlap; memset has no src, and only memset has ch.                     *)
Begin(c, m) ==
  /\ call = c /\ mem = m /\ old = m
  /\ d = c.dest /\ s = c.src /\ count = c.n
  /\ ret = IF c.n = 0 \/ (c.op # "memset" /\ c.dest = c.src) THEN "done" ELSE "running"

MemInit == \E c \in Calls, m \in [Addr -> Bytes] : Begin(c, m)

(* Whether this turn moves a word: the aligned pointer is d, or r (here s) *)
(* in memcmp.                                                              *)
Aligned(a) == a % LANE = 0
Wide(a) == Aligned(a) /\ count >= LANE
Width(a) == IF Wide(a) THEN LANE ELSE 1

(* One turn of a loop.                                                     *)
Turn(a) ==
  /\ ret = "running"
  /\ d' = d + Width(a) /\ s' = s + Width(a)
  /\ count' = count - Width(a)
  /\ UNCHANGED <<call, old>>

memcpy ==
  /\ call.op = "memcpy" /\ count > 0
  /\ Turn(d)
  /\ mem' = [a \in Addr |-> IF a \in Block(d, Width(d)) THEN mem[s + (a - d)] ELSE mem[a]]
  /\ UNCHANGED ret

(* The word that memset stores has the byte in every place.                *)
memset_NoSpread ==
  /\ call.op = "memset" /\ count > 0
  /\ Turn(d)
  /\ mem' = [mem EXCEPT ![d] = call.ch]
  /\ UNCHANGED ret
memset ==
  /\ call.op = "memset" /\ count > 0
  /\ Turn(d)
  /\ mem' = [a \in Addr |-> IF a \in Block(d, Width(d)) THEN call.ch ELSE mem[a]]
  /\ UNCHANGED ret

(* The first byte or word that differs ends it (the sign is abstracted:    *)
(* the caller asks whether the blocks are equal).                          *)
Differ(w) == \E i \in 0 .. w - 1 : mem[d + i] # mem[s + i]
memcmp ==
  /\ call.op = "memcmp" /\ count > 0
  /\ Turn(s)
  /\ ret' = IF Differ(Width(s)) THEN "differ" ELSE ret
  /\ UNCHANGED mem

Return ==
  /\ ret = "running" /\ count = 0
  /\ ret' = "done"
  /\ UNCHANGED <<mem, d, s, count, call, old>>

MemNext == memcpy \/ memset \/ memcmp \/ Return

MemSpec == MemInit /\ [][MemNext]_memVars

-----------------------------------------------------------------------------
(* Properties.                                                             *)

(* The registers of the loops keep their types.                            *)
TypeOK ==
  /\ mem \in [Addr -> Bytes] /\ old \in [Addr -> Bytes]
  /\ d \in 0 .. SIZE /\ s \in 0 .. SIZE /\ count \in 0 .. SIZE
  /\ call \in Calls /\ ret \in {"running", "done", "differ"}

(* At its return memcpy has copied, and memset has filled, every byte of   *)
(* the block and no other byte of memory; memcmp has changed nothing.      *)
BlockExact ==
  ret # "running" =>
    mem = [a \in Addr |->
             IF a \in Block(call.dest, call.n)
             THEN CASE call.op = "memcpy" -> old[call.src + (a - call.dest)]
                    [] call.op = "memset" -> call.ch
                    [] OTHER -> old[a]
             ELSE old[a]]

(* memcmp returns 0 exactly when the two blocks are equal, wherever in a   *)
(* head byte, a word or a tail byte they differ.                           *)
CompareExact ==
  call.op = "memcmp" /\ ret # "running" =>
    (ret = "done" <=> \A i \in 0 .. call.n - 1 : old[call.dest + i] = old[call.src + i])

(* Whatever the alignment of the blocks and their length, a call does all  *)
(* of its work and nothing else.                                           *)
CallExact == BlockExact /\ CompareExact
=============================================================================
