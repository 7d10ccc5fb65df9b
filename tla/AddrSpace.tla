------------------------------ MODULE AddrSpace ------------------------------
(***************************************************************************)
(* Address spaces on the JRT core: which translation table is in TTBR0,    *)
(* under which ASID, as the exception vectors (irq_el1.S, sync_el1.S)      *)
(* switch to the kernel's map and back, while processes are created and    *)
(* exit (sched.c, mmu.c).  The TLB is part of the model: the core may walk *)
(* the table in TTBR0 at any time and keeps what it finds, since nothing   *)
(* in the kernel invalidates it after el1_mmu_on.  (The core may also drop *)
(* entries; a TLB with more of them allows more.)                          *)
(***************************************************************************)
EXTENDS Integers, FiniteSets

CONSTANTS
  Procs,      \* process slots
  Progs,      \* physical addresses of program images
  NASID,      \* ASIDs that the u16 of sched_new_proc counts through: 2^16
  TAGS,       \* ASIDs that the TLB tells apart: 2^8
  MaxCreate   \* bound: processes that are ever created

ASSUME AddrSpaceAssumption ==
  /\ NASID \in Nat \ {0, 1}
  /\ TAGS \in Nat \ {0} /\ TAGS <= NASID
  /\ MaxCreate \in Nat
  /\ "p0" \notin Procs /\ {"none", "low"} \cap Progs = {}

VARIABLES
  maps,     \* ctx.mmap of each slot: its tables and ASID, or NoMap
  asid,     \* the next ASID: the static variable of sched_new_proc
  created,  \* history: processes created so far
  ttbr,     \* TTBR0_EL1: whose tables, under which ASID
  tlb,      \* what the core remembers of its table walks
  curr,     \* sched_t.curr
  mode      \* "program", or "kernel" between exception entry and eret

spaceVars == <<maps, asid, created, ttbr, tlb, curr, mode>>

p0 == "p0"
NoMap == [prog |-> "none", asid |-> 0]
Live == {p \in Procs : maps[p] # NoMap}

(* Pages: the low window of a process; the kernel, its memory and devices; *)
(* and the program images at their own addresses.                          *)
LOW == "low"
KERN == "kern"
Entry(va, pa, global) == [va |-> va, pa |-> pa, global |-> global]

kernel_map ==
  {Entry(KERN, KERN, TRUE)} \cup {Entry(g, g, TRUE) : g \in Progs}
process_map(g) ==
  {Entry(LOW, g, FALSE), Entry(KERN, KERN, TRUE)}

(* What the tables of p map.  After mmu_map_destroy there are none.        *)
Tables(p) ==
  IF p = p0 THEN kernel_map
  ELSE IF p \in Live THEN process_map(maps[p].prog) ELSE {}

(* sched_init and mmu_enable: the kernel runs on its own map, ASID 0.      *)
SpaceInit ==
  /\ maps = [p \in Procs |-> NoMap]
  /\ asid = 1 /\ created = 0
  /\ ttbr = [of |-> p0, asid |-> 0]
  /\ tlb = {}
  /\ curr = p0
  /\ mode = "program"

mmu_map_switch(p) ==
  ttbr' = [of |-> p, asid |-> IF p = p0 THEN 0 ELSE maps[p].asid]

(* make_tcr_el1 leaves TCR_EL1.AS 0: of the ASID in TTBR0 the core looks   *)
(* at the low eight bits.                                                  *)
Tag(x) == x % TAGS

(* A table walk for some page, whose result the core keeps.                *)
Walk ==
  /\ \E e \in Tables(ttbr.of) :
       tlb' = tlb \cup {[e |-> e, asid |-> IF e.global THEN -1 ELSE Tag(ttbr.asid)]}
  /\ UNCHANGED <<maps, asid, created, ttbr, curr, mode>>

(* irq_el1, sync_el1: up to the call of the handler.                       *)
ExceptionEntry_NoSwitch ==
  /\ mode = "program" /\ mode' = "kernel"
  /\ UNCHANGED <<maps, asid, created, ttbr, tlb, curr>>
ExceptionEntry ==
  /\ mode = "program" /\ mode' = "kernel"
  /\ mmu_map_switch(p0)
  /\ UNCHANGED <<maps, asid, created, tlb, curr>>

(* schedule_req, spawn: sched_new_proc makes a map, with the next ASID.    *)
sched_new_proc_SameAsid(p, g) ==
  /\ mode = "kernel" /\ p \notin Live
  /\ created < MaxCreate /\ created' = created + 1
  /\ maps' = [maps EXCEPT ![p] = [prog |-> g, asid |-> asid]]
  /\ UNCHANGED <<asid, ttbr, tlb, curr, mode>>
sched_new_proc(p, g) ==
  /\ mode = "kernel" /\ p \notin Live
  /\ created < MaxCreate /\ created' = created + 1
  /\ maps' = [maps EXCEPT ![p] = [prog |-> g, asid |-> asid]]
  /\ asid' = (asid + 1) % NASID
  /\ UNCHANGED <<ttbr, tlb, curr, mode>>

(* sched, wait_until: another process becomes current.                     *)
sched_switch_irq(p) ==
  /\ mode = "kernel" /\ p # curr
  /\ curr' = p
  /\ UNCHANGED <<maps, asid, created, ttbr, tlb, mode>>

(* exit: sched_yield, then mmu_map_destroy of the map of the caller.       *)
exit(p) ==
  /\ mode = "kernel" /\ curr # p0 /\ p # curr
  /\ curr' = p
  /\ maps' = [maps EXCEPT ![curr] = NoMap]
  /\ UNCHANGED <<asid, created, ttbr, tlb, mode>>

(* The end of the vectors: the map of the process that is current now.     *)
ExceptionReturn ==
  /\ mode = "kernel" /\ mode' = "program"
  /\ mmu_map_switch(curr)
  /\ UNCHANGED <<maps, asid, created, tlb, curr>>

SpaceNext ==
  \/ Walk
  \/ ExceptionEntry
  \/ \E p \in Procs, g \in Progs : sched_new_proc(p, g)
  \/ \E p \in Live \cup {p0} : sched_switch_irq(p) \/ exit(p)
  \/ ExceptionReturn

SpaceSpec == SpaceInit /\ [][SpaceNext]_spaceVars

-----------------------------------------------------------------------------
(* Properties.                                                             *)

(* Every variable has its type.                                            *)
SpaceTypeOK ==
  /\ \A p \in Procs : maps[p] = NoMap \/ maps[p] \in [prog : Progs, asid : 0 .. NASID - 1]
  /\ asid \in 0 .. NASID - 1 /\ created \in 0 .. MaxCreate
  /\ ttbr \in [of : Procs \cup {p0}, asid : 0 .. NASID - 1]
  /\ curr \in Procs \cup {p0}
  /\ mode \in {"program", "kernel"}

(* mmu.h: a table tree "must not be active in TTBR0" when it is freed.     *)
(* The tables in TTBR0 are always there, and while a program runs they are *)
(* its own, under its own ASID.                                            *)
ActiveTablesLive ==
  /\ ttbr.of \in Live \cup {p0}
  /\ mode = "program" =>
       ttbr = [of |-> curr, asid |-> IF curr = p0 THEN 0 ELSE maps[curr].asid]

(* The entries the core may use for the table in TTBR0.                    *)
Usable == {t \in tlb : t.e.global \/ t.asid = Tag(ttbr.asid)}

(* While a program runs, its low window is its own image, whatever the TLB *)
(* has kept of processes that ran before it.                               *)
OwnImage ==
  mode = "program" /\ curr # p0 =>
    \A t \in Usable : t.e.va = LOW => t.e.pa = maps[curr].prog

(* The same until the core has run out of ASIDs that it tells apart, which *)
(* is long before those of sched_new_proc come round; also when a slot and *)
(* its tables are used again.                                              *)
OwnImageUntilReuse == created <= TAGS => OwnImage
=============================================================================
