----------------------------- MODULE BootProofs -----------------------------
(***************************************************************************)
(* Proofs about exception entry and return, for any set of processes,      *)
(* register contents and interrupts, and about the bring-up: it is a       *)
(* behaviour of module Entry, and its order is one in which no interrupt   *)
(* comes too early.  At the end, about memcpy, memset and memcmp of the    *)
(* libc that the JRT is linked with, for every word size, memory and pair  *)
(* of blocks.                                                              *)
(***************************************************************************)
EXTENDS Boot, MemOps, TLAPS


(* What a register, or a word of a saved context, may hold.                *)
Words == (All \X Values) \cup {Junk, G_SCHED} \cup {Ptr(p) : p \in All}
RegFile == [Regs -> Words]

Types ==
  /\ regs \in RegFile /\ elr \in [{"pc", "pstate"} -> Words]
  /\ stash \in [Scratch -> Words]
  /\ ctx \in [All -> RegFile] /\ own \in [All -> RegFile]
  /\ live \subseteq All /\ p0 \in live /\ curr \in live
  /\ kind \in {"irq", "sync"}

(* Where the registers of the program that is current are, and what the    *)
(* vector has of them, at each place of the vectors.                       *)
InKernel == at \in {"iar", "handler", "return"}
Leaving == at \in {"eoi", "load"}
Where ==
  /\ at \in {"program", "store", "switch", "iar", "handler", "return", "eoi", "load", "halt"}
  /\ at = "program" => regs = own[curr] /\ map = curr
  /\ at = "store" => Saved = own[curr] /\ regs["x20"] = Ptr(curr)
  /\ at \in {"store", "switch", "iar", "handler", "return"} => regs["x21"] = G_SCHED
  /\ InKernel => map = p0 /\ regs["sp"] = own[p0]["sp"]
  /\ Leaving => /\ regs["x20"] = Ptr(curr) /\ map = curr
                /\ elr["pc"] = ctx[curr]["pc"] /\ elr["pstate"] = ctx[curr]["pstate"]

(* The interrupt that is being served.                                     *)
Holding == kind = "irq" /\ at \in {"handler", "return", "eoi"}
Served ==
  /\ at \in {"iar", "eoi"} => kind = "irq"
  /\ Holding => \E i \in Intids \cup {Spurious} : kstack = <<i>> /\ active = {i} \ {Spurious}
  /\ ~Holding /\ at # "halt" => kstack = <<>> /\ active = {}

EntryInv == Types /\ Where /\ Served /\ ContextsKept

-----------------------------------------------------------------------------
(* A program's own registers are a register file.                          *)
LEMMA FileType ==
  ASSUME NEW p \in All, NEW v \in Values
  PROVE  File(p, v) \in RegFile
  BY Zenon DEF File, RegFile, Words

(* What the vector is about to store is a register file.                   *)
LEMMA SavedType ==
  ASSUME Types
  PROVE  Saved \in RegFile
  BY Zenon DEF Types, Saved, RegFile, Regs, GPRs, Scratch

(* The types.                                                              *)
LEMMA TypesStep ==
  ASSUME Types, Where, [EntryNext]_entryVars
  PROVE  Types'
  <1>0. Junk \in Words /\ G_SCHED \in Words /\ \A p \in All : Ptr(p) \in Words
    BY Zenon DEF Words
  <1>1. ASSUME NEW v \in Values, Compute(v) PROVE Types'
    <2>1. File(curr, v) \in RegFile
      BY FileType, Zenon DEF Types
    <2>. QED
      BY <1>1, <2>1, Zenon DEF Compute, Types
  <1>2. ASSUME NEW i \in Intids, Register(i) PROVE Types'
    BY <1>2, Zenon DEF Register, Types
  <1>3. ASSUME NEW k \in {"irq", "sync"}, Vector(k) PROVE Types'
    <2>1. elr' \in [{"pc", "pstate"} -> Words] /\ stash' \in [Scratch -> Words]
      BY <1>3 DEF Vector, Types, RegFile, Regs, GPRs, Scratch
    <2>2. regs' \in RegFile
      BY <1>0, <1>3, Zenon DEF Vector, Types, RegFile, Regs, GPRs, Scratch
    <2>. QED
      BY <1>3, <2>1, <2>2, Zenon DEF Vector, Types
  <1>4. CASE StoreContext
    <2>1. regs' \in RegFile /\ stash' \in [Scratch -> Words]
      BY <1>0, <1>4, Zenon DEF StoreContext, Types, RegFile, NoStash
    <2>2. ctx' \in [All -> RegFile]
      BY <1>4, SavedType, Zenon DEF StoreContext, Types
    <2>. QED
      BY <1>4, <2>1, <2>2, Zenon DEF StoreContext, Types
  <1>5. CASE ToKernel
    <2>1. regs' \in RegFile
      BY <1>5 DEF ToKernel, Types, RegFile, Regs, All
    <2>. QED
      BY <1>5, <2>1, Zenon DEF ToKernel, Types
  <1>6. ASSUME NEW i \in Intids \cup {Spurious}, ReadIAR(i) PROVE Types'
    BY <1>6, Zenon DEF ReadIAR, Types
  <1>7. ASSUME Called PROVE regs' \in RegFile
    BY <1>0, <1>7, Zenon DEF Called, Types, RegFile
  <1>8. CASE NoHandler
    BY <1>7, <1>8, Zenon DEF NoHandler, Types
  <1>9. ASSUME NEW p \in live, Switch(p) PROVE Types'
    BY <1>7, <1>9, Zenon DEF Switch, Types
  <1>10. ASSUME NEW p \in live, Exit(p) PROVE Types'
    BY <1>7, <1>10, Zenon DEF Exit, Types
  <1>11. ASSUME NEW p \in All, NEW n \in Procs, NEW v \in Values, Create(p, n, v) PROVE Types'
    <2>1. n \in All /\ File(n, v) \in RegFile
      BY FileType, Zenon DEF All
    <2>2. ctx' \in [All -> RegFile] /\ own' \in [All -> RegFile]
      BY <1>11, <2>1, Zenon DEF Create, Types
    <2>3. live' \subseteq All /\ p0 \in live' /\ curr' \in live'
      BY <1>11, <2>1, Zenon DEF Create, Types
    <2>4. regs' \in RegFile
      BY <1>7, <1>11, Zenon DEF Create
    <2>. QED
      BY <1>11, <2>2, <2>3, <2>4, Zenon DEF Create, Types
  <1>12. CASE Panic
    BY <1>12, Zenon DEF Panic, Types
  <1>13. CASE Refetch
    <2>1. regs' \in RegFile
      BY <1>0, <1>13, Zenon DEF Refetch, Types, RegFile
    <2>2. ctx[curr]["pc"] \in Words /\ ctx[curr]["pstate"] \in Words
      BY DEF Types, RegFile, Regs
    <2>3. elr' \in [{"pc", "pstate"} -> Words]
      BY <1>13, <2>2 DEF Refetch
    <2>. QED
      BY <1>13, <2>1, <2>3, Zenon DEF Refetch, Types
  <1>14. CASE EndInterrupt
    BY <1>14, Zenon DEF EndInterrupt, Types
  <1>15. CASE LoadContext
    <2>1. regs["x20"][2] = curr /\ ctx[curr] \in RegFile
      BY <1>15 DEF LoadContext, Where, Leaving, Ptr, Types
    <2>2. regs' \in RegFile
      BY <1>15, <2>1, Zenon DEF LoadContext, Types, RegFile
    <2>. QED
      BY <1>15, <2>2, Zenon DEF LoadContext, Types
  <1>16. CASE UNCHANGED entryVars
    BY <1>16, Zenon DEF entryVars, Types
  <1>. QED
    BY <1>1, <1>2, <1>3, <1>4, <1>5, <1>6, <1>8, <1>9, <1>10, <1>11, <1>12, <1>13, <1>14, <1>15,
       <1>16, Zenon DEF EntryNext

(* The registers of the program and the place of the vectors.              *)
LEMMA WhereStep ==
  ASSUME Types, Where, ContextsKept, [EntryNext]_entryVars
  PROVE  Where' /\ ContextsKept'
  <1>. USE DEF Where, InKernel, Leaving
  <1>1. ASSUME NEW v \in Values, Compute(v) PROVE Where' /\ ContextsKept'
    BY <1>1, Zenon DEF Compute, Types, ContextsKept
  <1>2. ASSUME NEW i \in Intids, Register(i) PROVE Where' /\ ContextsKept'
    BY <1>2, Zenon DEF Register, ContextsKept, Saved
  <1>3. ASSUME NEW k \in {"irq", "sync"}, Vector(k) PROVE Where' /\ ContextsKept'
    <2>1. Saved' = own[curr]
      <3>1. own[curr] \in RegFile /\ regs = own[curr]
        BY <1>3, Zenon DEF Vector, Types
      <3>2. elr' = [pc |-> regs["pc"], pstate |-> regs["pstate"]]
            /\ stash' = [r \in Scratch |-> regs[r]]
            /\ \A r \in Regs \ (Scratch \cup {"pc", "pstate"}) : regs'[r] = regs[r]
        BY <1>3, Zenon DEF Vector, Types, RegFile, Regs, GPRs, Scratch
      <3>3. \A r \in Regs : Saved'[r] = regs[r]
        BY <3>2 DEF Saved, Regs, GPRs, Scratch
      <3>4. Saved' = [r \in Regs |-> Saved'[r]] /\ own[curr] = [r \in Regs |-> own[curr][r]]
        BY <3>1, Zenon DEF Saved, RegFile
      <3>. QED
        BY <3>1, <3>3, <3>4, Zenon
    <2>2. regs'["x20"] = Ptr(curr) /\ regs'["x21"] = G_SCHED
      BY <1>3, Zenon DEF Vector, Types, RegFile, Regs, GPRs, Scratch
    <2>3. at' = "store" /\ UNCHANGED <<curr, own, ctx, live>> /\ at = "program"
      BY <1>3, Zenon DEF Vector
    <2>. QED
      BY <2>1, <2>2, <2>3, Zenon DEF ContextsKept
  <1>4. CASE StoreContext
    <2>1. ctx' = [ctx EXCEPT ![curr] = own[curr]] /\ at' = "switch" /\ UNCHANGED <<own, live, curr>>
      <3>1. regs["x20"] = Ptr(curr) /\ Saved = own[curr]
        BY <1>4, Zenon DEF StoreContext
      <3>2. regs["x20"][2] = curr
        BY <3>1 DEF Ptr
      <3>3. ctx' = [ctx EXCEPT ![regs["x20"][2]] = Saved]
        BY <1>4, Zenon DEF StoreContext
      <3>4. ctx' = [ctx EXCEPT ![curr] = own[curr]]
        BY <3>1, <3>2, <3>3, Zenon
      <3>. QED
        BY <1>4, <3>4, Zenon DEF StoreContext
    <2>2. regs'["x21"] = G_SCHED
      BY <1>4, Zenon DEF StoreContext, Types, RegFile, Regs, GPRs, Scratch
    <2>3. ContextsKept'
      BY <1>4, <2>1, Zenon DEF ContextsKept, StoreContext, Types
    <2>. QED
      BY <2>1, <2>2, <2>3, Zenon
  <1>5. CASE ToKernel
    <2>1. ctx[p0] = own[p0]
      BY <1>5, Zenon DEF ToKernel, ContextsKept, Types
    <2>2. regs'["x21"] = G_SCHED /\ regs'["sp"] = own[p0]["sp"]
      BY <1>5, <2>1, Zenon DEF ToKernel, Types, RegFile, Regs, GPRs, Scratch
    <2>. QED
      BY <1>5, <2>2, Zenon DEF ToKernel, ContextsKept
  <1>6. ASSUME NEW i \in Intids \cup {Spurious}, ReadIAR(i) PROVE Where' /\ ContextsKept'
    BY <1>6, Zenon DEF ReadIAR, ContextsKept
  <1>7. ASSUME Called PROVE regs'["x21"] = regs["x21"] /\ regs'["sp"] = regs["sp"]
    BY <1>7, Zenon DEF Called, Types, RegFile, Regs, GPRs, Scratch
  <1>8. CASE NoHandler
    BY <1>7, <1>8, Zenon DEF NoHandler, ContextsKept
  <1>9. ASSUME NEW p \in live, Switch(p) PROVE Where' /\ ContextsKept'
    BY <1>7, <1>9, Zenon DEF Switch, ContextsKept
  <1>10. ASSUME NEW p \in live, Exit(p) PROVE Where' /\ ContextsKept'
    BY <1>7, <1>10, Zenon DEF Exit, ContextsKept
  <1>11. ASSUME NEW p \in All, NEW n \in Procs, NEW v \in Values, Create(p, n, v)
         PROVE  Where' /\ ContextsKept'
    <2>1. n \in All /\ n # p0 /\ at = "handler" /\ at' = "return"
      BY <1>11, Zenon DEF Create, All, Types
    <2>2. own'[p0] = own[p0]
      BY <1>11, <2>1, Zenon DEF Create, Types
    <2>3. ContextsKept'
      BY <1>11, <2>1, Zenon DEF Create, ContextsKept, Types
    <2>. QED
      BY <1>7, <1>11, <2>1, <2>2, <2>3, Zenon DEF Create
  <1>12. CASE Panic
    BY <1>12, Zenon DEF Panic, ContextsKept
  <1>13. CASE Refetch
    <2>1. regs'["x20"] = Ptr(curr)
      BY <1>13, Zenon DEF Refetch, Types, RegFile, Regs, GPRs, Scratch
    <2>. QED
      BY <1>13, <2>1, Zenon DEF Refetch, ContextsKept
  <1>14. CASE EndInterrupt
    BY <1>14, Zenon DEF EndInterrupt, ContextsKept
  <1>15. CASE LoadContext
    <2>1. ctx[curr] = own[curr] /\ own[curr] \in RegFile
      BY <1>15, Zenon DEF LoadContext, ContextsKept, Types
    <2>2. regs["x20"][2] = curr /\ elr["pc"] = own[curr]["pc"] /\ elr["pstate"] = own[curr]["pstate"]
      BY <1>15, <2>1 DEF LoadContext, Ptr
    <2>3. regs' = [r \in Regs |-> own[curr][r]]
      BY <1>15, <2>1, <2>2, Zenon DEF LoadContext
    <2>4. regs' = own[curr]
      BY <2>1, <2>3, Zenon DEF RegFile
    <2>. QED
      BY <1>15, <2>4, Zenon DEF LoadContext, ContextsKept
  <1>16. CASE UNCHANGED entryVars
    BY <1>16, Zenon DEF entryVars, ContextsKept, Saved
  <1>. QED
    BY <1>1, <1>2, <1>3, <1>4, <1>5, <1>6, <1>8, <1>9, <1>10, <1>11, <1>12, <1>13, <1>14, <1>15,
       <1>16, Zenon DEF EntryNext

(* The interrupt that is being served.                                     *)
LEMMA ServedStep ==
  ASSUME Types, Where, Served, [EntryNext]_entryVars
  PROVE  Served'
  <1>. USE DEF Served, Holding
  <1>1. ASSUME NEW k \in {"irq", "sync"}, Vector(k) PROVE Served'
    BY <1>1, Zenon DEF Vector
  <1>2. CASE ToKernel
    BY <1>2, Zenon DEF ToKernel
  <1>3. ASSUME NEW i \in Intids \cup {Spurious}, ReadIAR(i) PROVE Served'
    <2>1. kstack = <<>> /\ active = {} /\ kind = "irq"
      BY <1>3, Zenon DEF ReadIAR
    <2>2. kstack' = <<i>> /\ active' = {i} \ {Spurious}
      BY <1>3, <2>1 DEF ReadIAR
    <2>. QED
      BY <1>3, <2>1, <2>2, Zenon DEF ReadIAR
  <1>4. ASSUME at = "handler", at' = "return", UNCHANGED <<kind, kstack, active>> PROVE Served'
    BY <1>4, Zenon
  <1>5. CASE Refetch
    BY <1>5, Zenon DEF Refetch, Types
  <1>6. CASE EndInterrupt
    <2>1. PICK i \in Intids \cup {Spurious} : kstack = <<i>> /\ active = {i} \ {Spurious}
      BY <1>6, Zenon DEF EndInterrupt
    <2>2. kstack' = <<>>
      BY <1>6, <2>1 DEF EndInterrupt
    <2>3. active' = {}
      BY <1>6, <2>1, Zenon DEF EndInterrupt
    <2>. QED
      BY <1>6, <2>2, <2>3, Zenon DEF EndInterrupt
  <1>7. CASE \/ \E v \in Values : Compute(v)
             \/ \E i \in Intids : Register(i)
             \/ StoreContext \/ Panic \/ LoadContext \/ UNCHANGED entryVars
    BY <1>7, Zenon DEF Compute, Register, StoreContext, Panic, LoadContext, entryVars
  <1>8. CASE \/ NoHandler \/ \E p \in live : Switch(p) \/ Exit(p)
             \/ \E p \in All, n \in Procs, v \in Values : Create(p, n, v)
    BY <1>4, <1>8, Zenon DEF NoHandler, Switch, Exit, Create
  <1>. QED
    BY <1>1, <1>2, <1>3, <1>5, <1>6, <1>7, <1>8, Zenon DEF EntryNext

(* The invariant holds when jrt_main begins.                               *)
LEMMA EntryStart ==
  ASSUME EntryInit
  PROVE  EntryInv
  <1>1. p0 \in All /\ Junk \in Words
    BY Zenon DEF All, Words
  <1>2. regs \in RegFile
    BY <1>1, FileType, Zenon DEF EntryInit
  <1>3. Types
    BY <1>1, <1>2 DEF EntryInit, Types, RegFile, NoStash
  <1>4. Where /\ Served /\ ContextsKept
    BY <1>1, Zenon DEF EntryInit, Where, InKernel, Leaving, Served, Holding, ContextsKept
  <1>. QED
    BY <1>3, <1>4, Zenon DEF EntryInv

(* Every step of the programs, the vectors and the handlers keeps it.      *)
LEMMA EntryStep ==
  ASSUME EntryInv, [EntryNext]_entryVars
  PROVE  EntryInv'
  BY TypesStep, WhereStep, ServedStep, Zenon DEF EntryInv

(* It holds whatever programs, interrupts and system calls come.           *)
THEOREM EntryInvariant == EntrySpec => []EntryInv
  <1>1. EntryInit => EntryInv
    BY EntryStart, Zenon
  <1>2. EntryInv /\ [EntryNext]_entryVars => EntryInv'
    BY EntryStep, Zenon
  <1>. QED
    BY <1>1, <1>2, PTL DEF EntrySpec

(* The vectors give every program its own registers and map back.          *)
THEOREM EntryResumesOwn == EntrySpec => []ResumesOwn
  <1>1. EntryInv => ResumesOwn
    BY Zenon DEF EntryInv, Where, ResumesOwn
  <1>. QED
    BY <1>1, EntryInvariant, PTL

(* The saved context of every process that is not running is its own.      *)
THEOREM EntryContextsKept == EntrySpec => []ContextsKept
  <1>1. EntryInv => ContextsKept
    BY Zenon DEF EntryInv
  <1>. QED
    BY <1>1, EntryInvariant, PTL

(* The interrupt that was acknowledged is ended, and the kernel's stack is *)
(* empty again, when a program runs.                                       *)
THEOREM EntryInterruptsEnded == EntrySpec => []InterruptsEnded
  <1>1. EntryInv => InterruptsEnded
    BY Zenon DEF EntryInv, Served, Holding, InterruptsEnded
  <1>. QED
    BY <1>1, EntryInvariant, PTL

(* Handlers run on the stack and the map of p0.                            *)
THEOREM EntryKernelRunsOnItsOwn == EntrySpec => []KernelRunsOnItsOwn
  <1>1. EntryInv => KernelRunsOnItsOwn
    BY Zenon DEF EntryInv, Where, InKernel, KernelRunsOnItsOwn
  <1>. QED
    BY <1>1, EntryInvariant, PTL

-----------------------------------------------------------------------------
(* The bring-up.                                                           *)


(* What jrt_main has done at each of its steps, and that nothing is taken, *)
(* and no process made, before SCHED_SPI is enabled (the eleventh step).   *)
Progress ==
  /\ step \in 1 .. 19 /\ mpidr \in Cpus
  /\ step <= 6 => table = {}
  /\ step > 6 => SCHED_SPI \in table
  /\ step > 10 => irouter = build_irouter_from_mpidr(mpidr)
  /\ step <= 11 => "enabled" \notin spi /\ at = "program" /\ live = {p0}
  /\ step <= 12 \/ frq
  /\ step > 13 => TIMER_PPI \in table
  /\ step <= 17 => frame = 0
  /\ Low => ~stolen
  /\ HandlerRegistered
BootInv == EntryInv /\ Progress

-----------------------------------------------------------------------------
(* The order of the calls in jrt_main.                                     *)
LEMMA Order ==
  ASSUME NEW k \in 1 .. 19
  PROVE  /\ jrt_main[k] = "irq_init" => k = 2
         /\ jrt_main[k] = "spi_register" <=> k = 6
         /\ jrt_main[k] = "route" <=> k = 10
         /\ jrt_main[k] = "spi_enable" <=> k = 11
         /\ jrt_main[k] = "timebase" <=> k = 12
         /\ jrt_main[k] = "ppi_register" <=> k = 13
         /\ jrt_main[k] = "ppi_enable" <=> k = 17
         /\ jrt_main[k] = "loop" <=> k = 19
  <1>1. k \in {1, 2, 3, 4, 5, 6, 7, 8, 9, 10, 11, 12, 13, 14, 15, 16, 17, 18, 19}
    OBVIOUS
  <1>. QED
    BY <1>1 DEF jrt_main

(* A core whose affinity is in Aff0 alone is routed to.                    *)
LEMMA RouteLow ==
  ASSUME mpidr \in Cpus, Low
  PROVE  build_irouter_from_mpidr(mpidr) = mpidr
  BY BootAssumption, Zenon DEF Low, build_irouter_from_mpidr

(* The GIC signals an interrupt to this core only when its function is in  *)
(* its table, and not before the step after gic_enable_spi.                *)
LEMMA DeliverableRegistered ==
  ASSUME Progress, NEW i \in Deliverable
  PROVE  i \in table /\ step > 11
  BY DEF Progress, Deliverable, Forwarded

-----------------------------------------------------------------------------
(* Boot steps are steps of Entry, or leave its state alone.  irq_init      *)
(* clears the tables, which Entry has no step for: they are empty then.    *)
LEMMA BootIsEntry ==
  ASSUME BootInv, [Next]_vars
  PROVE  [EntryNext]_entryVars
  <1>1. CASE irq_init
    <2>1. step \in 1 .. 19 /\ jrt_main[step] = "irq_init"
      BY <1>1, Zenon DEF irq_init, Main, BootInv, Progress
    <2>2. table = {}
      BY <2>1, Order DEF BootInv, Progress
    <2>. QED
      BY <1>1, <2>2, Zenon DEF irq_init, entryVars
  <1>2. CASE irq_register
    BY <1>2, BootAssumption, Zenon DEF irq_register, EntryNext
  <1>3. CASE \/ Other \/ interrupts_disable_all \/ interrupts_enable_all \/ sys_enable_icc_el1
             \/ gic_enable_dist \/ gic_enable_spi \/ route_spi_to_this_cpu \/ timebase_init
             \/ gic_enable_ppi \/ Poke \/ Awaken \/ Expire \/ Steal
    BY <1>3, Zenon DEF Other, interrupts_disable_all, interrupts_enable_all, sys_enable_icc_el1,
      gic_enable_dist, gic_enable_spi, route_spi_to_this_cpu, timebase_init, gic_enable_ppi,
      Poke, Awaken, Expire, Steal, External
  <1>4. CASE Program \/ Interrupt \/ Vectors \/ Panic
    BY <1>4, Zenon DEF Program, Interrupt, Vectors, EntryNext
  <1>5. ASSUME NEW i \in Intids \cup {Spurious}, Acknowledge(i) PROVE EntryNext
    BY <1>5, Zenon DEF Acknowledge, EntryNext
  <1>6. CASE Handlers
    <2>1. curr \in live
      BY Zenon DEF BootInv, EntryInv, Types
    <2>. QED
      BY <1>6, <2>1, Zenon DEF Handlers, ipc_sched, timer_fn, wait_until, spawn_or_exit, EntryNext
  <1>7. CASE UNCHANGED vars
    BY <1>7, Zenon DEF vars
  <1>. QED
    BY <1>1, <1>2, <1>3, <1>4, <1>5, <1>6, <1>7, Zenon DEF Next, Bringup

(* jrt_main at the call k, which is not its last.                          *)
At(k) ==
  /\ step \in 1 .. 18 /\ step' = step + 1 /\ jrt_main[step] = k
  /\ at = "program" /\ curr = p0
  /\ UNCHANGED <<mpidr, stolen>>

(* A step of jrt_main is such a call.                                      *)
LEMMA MainStep ==
  ASSUME Progress, NEW k, k # "loop", Main(k)
  PROVE  At(k)
  <1>1. step \in 1 .. 19 /\ jrt_main[step] = k
    BY Zenon DEF Progress, Main
  <1>2. step \in 1 .. 18
    BY <1>1, Order
  <1>. QED
    BY <1>1, <1>2, Zenon DEF At, Main

(* Every step keeps what holds of the order.                               *)
LEMMA ProgressStep ==
  ASSUME BootInv, [Next]_vars
  PROVE  Progress'
  <1>. USE DEF Progress
  <1>0. Progress /\ Types /\ Served /\ Where
    BY Zenon DEF BootInv, EntryInv
  <1>1. HandlerRegistered' \/ at' # "program"
    BY Zenon DEF HandlerRegistered
  <1>2. CASE irq_init
    <2>1. At("irq_init") /\ table' = {} /\ UNCHANGED <<at, live, masked, gicVars, frq>>
      BY <1>0, <1>2, MainStep, Zenon DEF irq_init
    <2>2. step = 2
      BY <2>1, Order DEF At
    <2>. QED
      BY <1>0, <1>1, <2>1, <2>2 DEF At, Low, gicVars
  <1>3. CASE irq_register
    <2>1. /\ \/ At("spi_register") /\ table' = table \cup {SCHED_SPI}
             \/ At("ppi_register") /\ table' = table \cup {TIMER_PPI}
          /\ UNCHANGED <<at, live, spi, irouter, frame, frq>>
      BY <1>0, <1>3, MainStep, Zenon DEF irq_register, Register, gicVars
    <2>2. \/ step = 6 /\ table' = table \cup {SCHED_SPI}
          \/ step = 13 /\ table' = table \cup {TIMER_PPI}
      BY <2>1, Order DEF At
    <2>. QED
      BY <1>0, <1>1, <2>1, <2>2 DEF At, Low
  <1>4. CASE \/ Other \/ interrupts_disable_all \/ interrupts_enable_all
             \/ sys_enable_icc_el1 \/ gic_enable_dist
    <2>1. PICK k \in {"sched_init", "mmu_enable", "disable", "enable", "unmask", "spi_icc",
                      "ppi_icc", "dist"} :
             At(k) /\ UNCHANGED <<at, live, table, spi, irouter, frame, frq>>
      BY <1>0, <1>4, MainStep, Zenon DEF Other, interrupts_disable_all, interrupts_enable_all,
        sys_enable_icc_el1, gic_enable_dist, entryVars, gicVars
    <2>2. step \notin {6, 10, 11, 12, 13, 17}
      BY <2>1, Order DEF At
    <2>. QED
      BY <1>0, <1>1, <2>1, <2>2 DEF At, Low, build_irouter_from_mpidr
  <1>5. CASE gic_enable_spi
    <2>1. /\ \/ At("spi_config") /\ spi' = spi \cup {"group1", "edge", "priority"}
             \/ At("spi_enable")
          /\ UNCHANGED <<at, live, table, irouter, frame, frq>>
      BY <1>0, <1>5, MainStep, Zenon DEF gic_enable_spi, entryVars
    <2>2. \/ step \notin {6, 10, 11, 12, 13, 17} /\ ("enabled" \in spi' => "enabled" \in spi)
          \/ step = 11
      BY <2>1, Order DEF At
    <2>. QED
      BY <1>0, <1>1, <2>1, <2>2 DEF At, Low, build_irouter_from_mpidr
  <1>6. CASE route_spi_to_this_cpu
    <2>1. /\ At("route") /\ irouter' = build_irouter_from_mpidr(mpidr)
          /\ UNCHANGED <<at, live, table, spi, frame, frq>>
      BY <1>0, <1>6, MainStep, Zenon DEF route_spi_to_this_cpu, entryVars
    <2>2. step = 10
      BY <2>1, Order DEF At
    <2>. QED
      BY <1>0, <1>1, <2>1, <2>2 DEF At, Low, build_irouter_from_mpidr
  <1>7. CASE timebase_init
    <2>1. At("timebase") /\ frq' /\ UNCHANGED <<at, live, table, spi, irouter, frame>>
      BY <1>0, <1>7, MainStep, Zenon DEF timebase_init, entryVars, gicVars
    <2>2. step = 12
      BY <2>1, Order DEF At
    <2>. QED
      BY <1>0, <1>1, <2>1, <2>2 DEF At, Low, build_irouter_from_mpidr
  <1>8. CASE gic_enable_ppi
    <2>1. /\ \/ At("wake") /\ frame' = frame
             \/ At("poll") /\ frame' = frame
             \/ At("ppi_enable")
          /\ UNCHANGED <<at, live, table, spi, irouter, frq>>
      BY <1>0, <1>8, MainStep, Zenon DEF gic_enable_ppi, entryVars
    <2>2. \/ step \notin {6, 10, 11, 12, 13, 17} /\ frame' = frame
          \/ step = 17
      BY <2>1, Order DEF At
    <2>. QED
      BY <1>0, <1>1, <2>1, <2>2 DEF At, Low, build_irouter_from_mpidr
  <1>10. ASSUME UNCHANGED <<step, spi, irouter, frame, frq, mpidr, table, stolen>>,
                step <= 11 => at' = "program" /\ live' = live,
                HandlerRegistered'
         PROVE  Progress'
    BY <1>0, <1>10, Zenon DEF Low, build_irouter_from_mpidr
  <1>11. CASE Poke \/ Awaken \/ Expire
    <2>1. HandlerRegistered'
      BY <1>0, <1>11, Zenon DEF Poke, Awaken, Expire, External, entryVars, HandlerRegistered
    <2>. QED
      BY <1>0, <1>10, <1>11, <2>1, Zenon DEF Poke, Awaken, Expire, External, entryVars
  <1>12. CASE Steal
    <2>1. step > 11 /\ irouter # mpidr
      BY <1>0, <1>12 DEF Steal, Forwarded
    <2>2. ~Low
      BY <1>0, <2>1, RouteLow
    <2>. QED
      BY <1>0, <1>12, <2>2 DEF Steal, External, entryVars, Low, HandlerRegistered
  <1>13. CASE Program
    BY <1>0, <1>10, <1>13, Zenon DEF Program, Compute, Vector, bootVars, gicVars, HandlerRegistered, Types
  <1>14. CASE Interrupt
    <2>1. step > 11
      BY <1>0, <1>14, DeliverableRegistered, Zenon DEF Interrupt
    <2>. QED
      BY <1>0, <1>10, <1>14, <2>1 DEF Interrupt, Vector, bootVars, gicVars, HandlerRegistered
  <1>15. ASSUME NEW i \in Intids \cup {Spurious}, Acknowledge(i) PROVE Progress'
    <2>1. kstack' = <<i>> /\ table' = table
      BY <1>0, <1>15 DEF Acknowledge, ReadIAR, Served, Holding
    <2>2. i \in table \cup {Spurious}
      BY <1>0, <1>15, DeliverableRegistered, Zenon DEF Acknowledge
    <2>3. HandlerRegistered'
      BY <2>1, <2>2, Zenon DEF HandlerRegistered
    <2>. QED
      BY <1>0, <1>10, <1>15, <2>3, Zenon DEF Acknowledge, ReadIAR, gicVars
  <1>16. CASE Vectors \/ (Panic /\ UNCHANGED bootVars)
    <2>1. at # "program" /\ UNCHANGED <<table, bootVars>>
      BY <1>16, Zenon DEF Vectors, StoreContext, ToKernel, NoHandler, Refetch, EndInterrupt, LoadContext,
        Panic
    <2>2. HandlerRegistered'
      BY <1>0, <1>16, Zenon DEF Vectors, StoreContext, ToKernel, NoHandler, Refetch, EndInterrupt,
        LoadContext, Panic, HandlerRegistered
    <2>. QED
      BY <1>0, <1>10, <2>1, <2>2, Zenon DEF bootVars, gicVars
  <1>17. CASE Handlers
    <2>1. at = "handler" /\ at' = "return" /\ UNCHANGED <<table, step, spi, irouter, frame, frq, mpidr, stolen>>
      BY <1>17, Zenon DEF Handlers, ipc_sched, timer_fn, wait_until, spawn_or_exit, Switch, Create, Exit,
        bootVars, gicVars
    <2>. QED
      BY <1>0, <1>10, <2>1, Zenon DEF HandlerRegistered
  <1>18. CASE UNCHANGED vars
    BY <1>0, <1>10, <1>18, Zenon DEF vars, entryVars, bootVars, gicVars, HandlerRegistered
  <1>. QED
    BY <1>2, <1>3, <1>4, <1>5, <1>6, <1>7, <1>8, <1>11, <1>12, <1>13, <1>14, <1>15, <1>16,
       <1>17, <1>18, Zenon DEF Next, Bringup

(* Both invariants hold together from the start of jrt_main on.            *)
THEOREM BootInvariant == Spec => []BootInv
  <1>1. Init => BootInv
    <2>. SUFFICES ASSUME Init PROVE BootInv
      BY Zenon
    <2>1. EntryInv
      BY EntryStart, Zenon DEF Init
    <2>2. Progress
      BY DEF Init, EntryInit, Progress, HandlerRegistered
    <2>. QED
      BY <2>1, <2>2, Zenon DEF BootInv
  <1>2. BootInv /\ [Next]_vars => BootInv'
    <2>. SUFFICES ASSUME BootInv, [Next]_vars PROVE BootInv'
      BY Zenon
    <2>1. EntryInv'
      BY BootIsEntry, EntryStep, Zenon DEF BootInv
    <2>. QED
      BY <2>1, ProgressStep, Zenon DEF BootInv
  <1>. QED
    BY <1>1, <1>2, PTL DEF Spec

(* The bring-up with everything that interrupts it is a behaviour of the   *)
(* vectors of module Entry.                                                *)
THEOREM BootRefinesEntry == Spec => RefinesEntry
  <1>1. Init => EntryInit
    BY Zenon DEF Init
  <1>2. BootInv /\ [Next]_vars => [EntryNext]_entryVars
    BY BootIsEntry, Zenon
  <1>. QED
    BY <1>1, <1>2, BootInvariant, PTL DEF Spec, RefinesEntry, EntrySpec

(* So what is proved of the vectors holds during the bring-up.             *)
THEOREM BootResumesOwn == Spec => []ResumesOwn
  BY BootRefinesEntry, EntryResumesOwn, PTL DEF RefinesEntry

(* No interrupt is acknowledged before its function is registered.         *)
THEOREM BootHandlerRegistered == Spec => []HandlerRegistered
  <1>1. BootInv => HandlerRegistered
    BY Zenon DEF BootInv, Progress
  <1>. QED
    BY <1>1, BootInvariant, PTL

(* A program can find the time base unset only while jrt_main is held up   *)
(* right before timebase_init.                                             *)
THEOREM BootTimebaseGap == Spec => []TimebaseGap
  <1>1. BootInv => TimebaseGap
    <2>. SUFFICES ASSUME BootInv, curr # p0, ~frq PROVE jrt_main[step] = "timebase"
      BY Zenon DEF TimebaseGap
    <2>1. step \in 1 .. 19 /\ step <= 12
      BY Zenon DEF BootInv, Progress
    <2>2. step > 11
      BY <2>1 DEF BootInv, Progress, EntryInv, Types
    <2>. QED
      BY <2>1, <2>2, Order
  <1>. QED
    BY <1>1, BootInvariant, PTL

(* No other core takes a poke, when the core is one that IROUTER can name. *)
THEOREM BootNoPokeStolen == Spec => []NoPokeStolen
  <1>1. BootInv => NoPokeStolen
    BY Zenon DEF BootInv, Progress, NoPokeStolen
  <1>. QED
    BY <1>1, BootInvariant, PTL

-----------------------------------------------------------------------------
(* memcpy, memset and memcmp.                                              *)

(* How far the call has come, and what the byte at a is to become.         *)
Done == call.n - count
Target(a) ==
  CASE call.op = "memcpy" -> old[call.src + (a - call.dest)]
    [] call.op = "memset" -> call.ch
    [] OTHER -> old[a]
Same(k) == \A i \in 0 .. k - 1 : old[call.dest + i] = old[call.src + i]

(* The loop invariant: the pointers go together, the block is done up to   *)
(* them and memory is as it was beyond them.                               *)
LoopInv ==
  /\ TypeOK
  /\ count <= call.n /\ d = call.dest + Done /\ s = call.src + Done
  /\ \A a \in Addr : mem[a] = IF a \in Block(call.dest, Done) THEN Target(a) ELSE old[a]
  /\ ret = "running" => call.op = "memset" \/ call.dest # call.src
  /\ ret = "done" => count = 0 \/ (call.dest = call.src /\ call.op # "memset")
  /\ call.op = "memcmp" => IF ret = "differ" THEN ~Same(call.n) ELSE Same(Done)
  /\ ret = "differ" => call.op = "memcmp"

-----------------------------------------------------------------------------
(* What is known of the arguments.                                         *)
LEMMA CallFacts ==
  ASSUME call \in Calls
  PROVE  /\ call.op \in Ops /\ call.dest \in Nat /\ call.src \in Nat /\ call.n \in Nat
         /\ call.dest \in Addr /\ call.src \in Addr
         /\ call.ch \in Bytes
         /\ call.dest + call.n <= SIZE /\ call.src + call.n <= SIZE
         /\ call.dest = call.src \/ Block(call.dest, call.n) \cap Block(call.src, call.n) = {}
  BY MemOpsAssumption DEF Calls, Addr

(* A turn moves at least a byte, and no more than is left.                 *)
LEMMA TurnWidth ==
  ASSUME NEW a \in Nat, count \in Nat, count > 0
  PROVE  Width(a) \in Nat /\ Width(a) >= 1 /\ Width(a) <= count
  BY MemOpsAssumption DEF Width, Wide

(* The pointers and the count after a turn.                                *)
LEMMA TurnStep ==
  ASSUME LoopInv, NEW a \in {d, s}, count > 0, Turn(a)
  PROVE  /\ Width(a) \in Nat /\ Width(a) >= 1 /\ Width(a) <= count
         /\ Done \in Nat /\ Done' = Done + Width(a) /\ Done' <= call.n
         /\ d' = call.dest + Done' /\ s' = call.src + Done'
         /\ d' \in 0 .. SIZE /\ s' \in 0 .. SIZE /\ count' \in 0 .. SIZE /\ count' <= call.n
         /\ UNCHANGED <<call, old>>
  <1>1. /\ call.n \in Nat /\ call.dest \in Nat /\ call.src \in Nat
        /\ call.dest + call.n <= SIZE /\ call.src + call.n <= SIZE
    BY CallFacts, Zenon DEF LoopInv, TypeOK
  <1>2. count \in Nat /\ count <= call.n /\ d \in Nat /\ s \in Nat /\ SIZE \in Nat
    BY MemOpsAssumption DEF LoopInv, TypeOK
  <1>3. Width(a) \in Nat /\ Width(a) >= 1 /\ Width(a) <= count
    BY <1>2, TurnWidth, Zenon
  <1>4. /\ d' = d + Width(a) /\ s' = s + Width(a) /\ count' = count - Width(a)
        /\ UNCHANGED <<call, old>>
    BY Zenon DEF Turn
  <1>5. d = call.dest + (call.n - count) /\ s = call.src + (call.n - count)
    BY Zenon DEF LoopInv, Done
  <1>. QED
    BY <1>1, <1>2, <1>3, <1>4, <1>5 DEF Done

(* A turn that stores the targets of the bytes it covers, and no others,   *)
(* keeps the block done up to the pointers.                                *)
LEMMA StoreTurn ==
  ASSUME LoopInv, count > 0, Turn(d), mem' \in [Addr -> Bytes], UNCHANGED ret,
         call.op \in {"memcpy", "memset"},
         \A a \in Addr : mem'[a] = IF a \in Block(d, Width(d)) THEN Target(a) ELSE mem[a]
  PROVE  LoopInv'
  <1>1. /\ Width(d) \in Nat /\ Width(d) >= 1 /\ Width(d) <= count
        /\ Done \in Nat /\ Done' = Done + Width(d) /\ Done' <= call.n
        /\ d' = call.dest + Done' /\ s' = call.src + Done'
        /\ d' \in 0 .. SIZE /\ s' \in 0 .. SIZE /\ count' \in 0 .. SIZE /\ count' <= call.n
        /\ UNCHANGED <<call, old>>
    BY TurnStep, Zenon
  <1>2. TypeOK'
    BY <1>1, Zenon DEF LoopInv, TypeOK
  <1>3. d = call.dest + Done /\ call.dest \in Nat
    BY CallFacts, Zenon DEF LoopInv, TypeOK
  <1>4. ASSUME NEW a \in Addr
        PROVE  mem'[a] = IF a \in Block(call.dest, Done') THEN Target(a) ELSE old[a]
    <2>1. a \in Int
      BY DEF Addr
    <2>2. a \in Block(call.dest, Done') <=> a \in Block(call.dest, Done) \/ a \in Block(d, Width(d))
      BY <1>1, <1>3, <2>1 DEF Block
    <2>3. mem[a] = IF a \in Block(call.dest, Done) THEN Target(a) ELSE old[a]
      BY Zenon DEF LoopInv
    <2>. QED
      BY <2>2, <2>3, Zenon
  <1>5. \A a \in Addr : Target(a)' = Target(a)
    BY <1>1, Zenon DEF Target
  <1>6. \A a \in Addr : mem'[a] = IF a \in Block(call'.dest, Done') THEN Target(a)' ELSE old'[a]
    BY <1>1, <1>4, <1>5, Zenon
  <1>7. ret = "running" /\ ret' = "running" /\ call.op # "memcmp"
    BY Zenon DEF Turn
  <1>. QED
    BY <1>1, <1>2, <1>6, <1>7, Zenon DEF LoopInv

(* memcpy reads bytes that it has not written: the blocks are apart.       *)
LEMMA CopyTurn ==
  ASSUME LoopInv, memcpy
  PROVE  LoopInv'
  <1>1. /\ call.op = "memcpy" /\ count > 0 /\ Turn(d) /\ UNCHANGED ret /\ ret = "running"
        /\ mem' = [a \in Addr |-> IF a \in Block(d, Width(d)) THEN mem[s + (a - d)] ELSE mem[a]]
    BY Zenon DEF memcpy, Turn
  <1>2. /\ Width(d) \in Nat /\ Width(d) >= 1
        /\ Done \in Nat /\ Done + Width(d) <= call.n
    BY <1>1, TurnStep, Zenon
  <1>3. /\ call.dest \in Nat /\ call.src \in Nat /\ call.n \in Nat
        /\ call.dest + call.n <= SIZE /\ call.src + call.n <= SIZE /\ SIZE \in Nat
        /\ Block(call.dest, call.n) \cap Block(call.src, call.n) = {}
    BY <1>1, CallFacts, MemOpsAssumption, Zenon DEF LoopInv, TypeOK
  <1>4. d = call.dest + Done /\ s = call.src + Done
    BY Zenon DEF LoopInv
  <1>5. ASSUME NEW a \in Addr, a \in Block(d, Width(d))
        PROVE  /\ s + (a - d) \in Addr
               /\ mem[s + (a - d)] = old[call.src + (a - call.dest)]
    <2>. DEFINE b == s + (a - d)
    <2>1. a \in Int /\ d <= a /\ a <= d + Width(d) - 1
      BY <1>2, <1>3, <1>4, <1>5 DEF Block, Addr
    <2>2. b = call.src + (a - call.dest) /\ b \in Addr /\ b \in Block(call.src, call.n)
      BY <1>2, <1>3, <1>4, <2>1 DEF Block, Addr
    <2>. HIDE DEF b
    <2>3. b \notin Block(call.dest, call.n)
      BY <1>3, <2>2, Zenon
    <2>4. b \notin Block(call.dest, Done)
      BY <1>2, <1>3, <2>2, <2>3 DEF Block, Addr
    <2>5. mem[b] = old[b]
      BY <2>2, <2>4, Zenon DEF LoopInv
    <2>. QED
      BY <2>2, <2>5, Zenon DEF b
  <1>6. \A a \in Addr : mem'[a] = IF a \in Block(d, Width(d)) THEN Target(a) ELSE mem[a]
    BY <1>1, <1>5, Zenon DEF Target
  <1>7. mem' \in [Addr -> Bytes]
    BY <1>1, <1>5, Zenon DEF LoopInv, TypeOK
  <1>. QED
    BY <1>1, <1>6, <1>7, StoreTurn, Zenon

(* memset stores the byte in every place of the word.                      *)
LEMMA SetTurn ==
  ASSUME LoopInv, memset
  PROVE  LoopInv'
  <1>1. /\ call.op = "memset" /\ count > 0 /\ Turn(d) /\ UNCHANGED ret
        /\ mem' = [a \in Addr |-> IF a \in Block(d, Width(d)) THEN call.ch ELSE mem[a]]
    BY Zenon DEF memset
  <1>2. call.ch \in Bytes /\ mem \in [Addr -> Bytes]
    BY CallFacts, Zenon DEF LoopInv, TypeOK
  <1>3. \A a \in Addr : mem'[a] = IF a \in Block(d, Width(d)) THEN Target(a) ELSE mem[a]
    BY <1>1, Zenon DEF Target
  <1>4. mem' \in [Addr -> Bytes]
    BY <1>1, <1>2, Zenon
  <1>. QED
    BY <1>1, <1>3, <1>4, StoreTurn, Zenon

(* memcmp: the bytes behind the pointers are equal, and the turn looks at  *)
(* all of those it covers.                                                 *)
LEMMA CompareTurn ==
  ASSUME LoopInv, memcmp
  PROVE  LoopInv'
  <1>. DEFINE w == Width(s)
  <1>1. /\ call.op = "memcmp" /\ count > 0 /\ Turn(s) /\ UNCHANGED mem /\ ret = "running"
        /\ ret' = IF Differ(w) THEN "differ" ELSE ret
    BY Zenon DEF memcmp, Turn
  <1>2. /\ w \in Nat /\ w >= 1 /\ w <= count
        /\ Done \in Nat /\ Done' = Done + w /\ Done' <= call.n
        /\ d' = call.dest + Done' /\ s' = call.src + Done'
        /\ d' \in 0 .. SIZE /\ s' \in 0 .. SIZE /\ count' \in 0 .. SIZE /\ count' <= call.n
        /\ UNCHANGED <<call, old>>
    BY <1>1, TurnStep, Zenon
  <1>. HIDE DEF w
  <1>3. /\ call.dest \in Nat /\ call.src \in Nat /\ call.n \in Nat
        /\ call.dest + call.n <= SIZE /\ call.src + call.n <= SIZE /\ SIZE \in Nat
    BY CallFacts, MemOpsAssumption, Zenon DEF LoopInv, TypeOK
  <1>4. d = call.dest + Done /\ s = call.src + Done /\ Same(Done)
    BY <1>1, Zenon DEF LoopInv
  <1>5. \A a \in Addr : mem[a] = old[a]
    BY <1>1, Zenon DEF LoopInv, Target
  <1>6. ASSUME NEW i \in 0 .. w - 1
        PROVE  /\ mem[d + i] = old[call.dest + (Done + i)] /\ mem[s + i] = old[call.src + (Done + i)]
               /\ Done + i \in 0 .. call.n - 1
    <2>1. d + i \in Addr /\ s + i \in Addr
      BY <1>2, <1>3, <1>4 DEF Addr
    <2>2. d + i = call.dest + (Done + i) /\ s + i = call.src + (Done + i)
      BY <1>2, <1>3, <1>4
    <2>3. Done + i \in 0 .. call.n - 1
      BY <1>2, <1>3
    <2>. QED
      BY <1>5, <2>1, <2>2, <2>3, Zenon
  <1>7. CASE Differ(w)
    <2>1. PICK i \in 0 .. w - 1 : mem[d + i] # mem[s + i]
      BY <1>7, Zenon DEF Differ
    <2>2. ~Same(call.n)
      BY <1>6, <2>1, Zenon DEF Same
    <2>. QED
      BY <1>1, <1>2, <1>7, <2>2, Zenon DEF LoopInv, TypeOK, Same, Target
  <1>8. CASE ~Differ(w)
    <2>1. ASSUME NEW i \in 0 .. Done + w - 1
          PROVE  old[call.dest + i] = old[call.src + i]
      <3>1. CASE i < Done
        BY <1>2, <1>4, <3>1 DEF Same
      <3>2. CASE i >= Done
        <4>. DEFINE j == i - Done
        <4>1. j \in 0 .. w - 1 /\ Done + j = i
          BY <1>2, <3>2
        <4>. HIDE DEF j
        <4>2. mem[d + j] = mem[s + j]
          BY <1>8, <4>1, Zenon DEF Differ
        <4>. QED
          BY <1>6, <4>1, <4>2, Zenon
      <3>. QED
        BY <1>2, <3>1, <3>2
    <2>2. Same(Done')
      BY <1>2, <2>1 DEF Same
    <2>. QED
      BY <1>1, <1>2, <1>8, <2>2, Zenon DEF LoopInv, TypeOK, Same, Target
  <1>. QED
    BY <1>7, <1>8, Zenon

(* The loop invariant holds throughout a call.                             *)
THEOREM MemInvariant == MemSpec => []LoopInv
  <1>1. MemInit => LoopInv
    <2>. SUFFICES ASSUME NEW c \in Calls, NEW m \in [Addr -> Bytes], Begin(c, m)
                  PROVE  LoopInv
      BY Zenon DEF MemInit
    <2>1. call \in Calls /\ call = c
      BY Zenon DEF Begin
    <2>2. /\ call.dest \in Nat /\ call.src \in Nat /\ call.n \in Nat /\ SIZE \in Nat
          /\ call.dest + call.n <= SIZE /\ call.src + call.n <= SIZE
      BY <2>1, CallFacts, MemOpsAssumption, Zenon
    <2>3. Done = 0 /\ count = call.n /\ d = call.dest /\ s = call.src /\ mem = m /\ old = m
      BY <2>1, <2>2 DEF Begin, Done
    <2>4. TypeOK
      BY <2>1, <2>2, <2>3 DEF Begin, TypeOK
    <2>5. Block(call.dest, Done) = {} /\ Same(Done)
      BY <2>2, <2>3 DEF Block, Same
    <2>. QED
      BY <2>1, <2>2, <2>3, <2>4, <2>5 DEF LoopInv, Begin
  <1>2. LoopInv /\ [MemNext]_memVars => LoopInv'
    <2>. SUFFICES ASSUME LoopInv, [MemNext]_memVars PROVE LoopInv'
      BY Zenon
    <2>1. CASE Return
      BY <2>1, Zenon DEF Return, LoopInv, TypeOK, Done, Target, Same
    <2>2. CASE UNCHANGED memVars
      BY <2>2, Zenon DEF memVars, LoopInv, TypeOK, Done, Target, Same
    <2>. QED
      BY <2>1, <2>2, CopyTurn, SetTurn, CompareTurn, Zenon DEF MemNext
  <1>. QED
    BY <1>1, <1>2, PTL DEF MemSpec

(* memcpy and memset do the block, the whole block and nothing but it.     *)
THEOREM MemBlockExact == MemSpec => []BlockExact
  <1>1. LoopInv => BlockExact
    <2>. SUFFICES ASSUME LoopInv, ret # "running" PROVE BlockExact
      BY Zenon DEF BlockExact
    <2>1. /\ call.dest \in Nat /\ call.src \in Nat /\ call.n \in Nat /\ call.op \in Ops
          /\ mem \in [Addr -> Bytes] /\ count \in Nat
      BY CallFacts DEF LoopInv, TypeOK
    <2>2. ASSUME NEW a \in Addr
          PROVE  mem[a] = IF a \in Block(call.dest, call.n) THEN Target(a) ELSE old[a]
      <3>0. mem[a] = IF a \in Block(call.dest, Done) THEN Target(a) ELSE old[a]
        BY Zenon DEF LoopInv
      <3>1. CASE call.op = "memcmp"
        BY <3>0, <3>1, Zenon DEF Target
      <3>2. CASE count = 0
        BY <2>1, <3>0, <3>2 DEF Done
      <3>3. CASE call.op = "memcpy" /\ call.dest = call.src
        <4>1. call.src + (a - call.dest) = a
          BY <2>1, <3>3 DEF Addr
        <4>. QED
          BY <3>0, <3>3, <4>1, Zenon DEF Target
      <3>. QED
        BY <2>1, <3>1, <3>2, <3>3, Zenon DEF LoopInv, TypeOK, Ops
    <2>3. mem = [a \in Addr |-> mem[a]]
      BY <2>1, Zenon
    <2>4. mem = [a \in Addr |-> IF a \in Block(call.dest, call.n) THEN Target(a) ELSE old[a]]
      BY <2>2, <2>3, Zenon
    <2>. QED
      BY <2>4, Zenon DEF BlockExact, Target
  <1>. QED
    BY <1>1, MemInvariant, PTL

(* memcmp returns 0 exactly when the blocks are equal.                     *)
THEOREM MemCompareExact == MemSpec => []CompareExact
  <1>1. LoopInv => CompareExact
    <2>. SUFFICES ASSUME LoopInv, call.op = "memcmp", ret # "running"
                  PROVE  ret = "done" <=> Same(call.n)
      BY Zenon DEF CompareExact, Same
    <2>1. call.n \in Nat /\ ret \in {"done", "differ"}
      BY CallFacts, Zenon DEF LoopInv, TypeOK
    <2>2. CASE ret = "differ"
      BY <2>2, Zenon DEF LoopInv
    <2>3. CASE ret = "done" /\ count = 0
      BY <2>1, <2>3 DEF LoopInv, Done
    <2>4. CASE ret = "done" /\ call.dest = call.src
      BY <2>4, Zenon DEF Same
    <2>. QED
      BY <2>1, <2>2, <2>3, <2>4, Zenon DEF LoopInv
  <1>. QED
    BY <1>1, MemInvariant, PTL

(* memcpy, memset and memcmp do all of their work and nothing else, for    *)
(* every alignment, length and word size.                                  *)
THEOREM MemCallExact == MemSpec => []CallExact
BY MemBlockExact, MemCompareExact, PTL DEF CallExact
=============================================================================
