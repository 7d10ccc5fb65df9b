------------------------------- MODULE Entry -------------------------------
(***************************************************************************)
(* Exception entry and return on the JRT core (irq_el1.S, sync_el1.S) with *)
(* the C code they call (irq_dispatch, sync_exception_entry).  The vectors *)
(* save the registers of the program that was interrupted in its ctx_t,    *)
(* go to the kernel's stack and map, call the handler, which may make      *)
(* another process current, and load the registers of that one.            *)
(* Interrupts stay masked from the vector to the eret.                     *)
(***************************************************************************)
EXTENDS Integers, Sequences, FiniteSets

CONSTANTS
  Procs,     \* process slots
  Values,    \* what a program may have in its registers
  Intids,    \* interrupts
  Spurious   \* INTID 1023: nothing was pending when the IAR was read

ASSUME EntryAssumption == Spurious \notin Intids /\ "p0" \notin Procs

(* Registers by the way the vectors treat them; "xn" is all the others of  *)
(* x2 to x30.  The FP registers are not saved in this build (SAVE_FP 0).   *)
Scratch == {"x0", "x1", "x20", "x21"}
GPRs == Scratch \cup {"xn"}
Regs == GPRs \cup {"sp", "pc", "pstate"}

VARIABLES
  regs,   \* the registers of the core
  elr,    \* ELR_EL1 and SPSR_EL1, as a record of pc and pstate
  map,    \* whose map is in TTBR0
  stash,  \* the words the vector pushes on the stack it finds
  ctx,    \* proc_t.ctx of each process
  live,   \* the processes there are
  curr,   \* sched_t.curr
  kstack, \* what the vector has pushed on the kernel's stack
  table,  \* interrupts with a function in ppi_table or spi_table
  active, \* interrupts acknowledged and not ended, in the GIC
  kind,   \* "irq" or "sync"
  at,     \* where the core is
  own     \* history: the registers each program has, from its own view

entryVars == <<regs, elr, map, stash, ctx, live, curr, kstack, table, active, kind, at, own>>

p0 == "p0"
All == Procs \cup {p0}
G_SCHED == <<"G_SCHED", "">>
Ptr(p) == <<"ctx", p>>
Junk == <<"kernel", "">>
File(p, v) == [r \in Regs |-> <<p, v>>]
NoStash == [r \in Scratch |-> Junk]

(* jrt_main begins: it is p0 that is interrupted first, and nothing was    *)
(* saved yet.                                                              *)
EntryInit ==
  /\ \E v \in Values : regs = File(p0, v)
  /\ own = [p \in All |-> regs]
  /\ elr = [pc |-> Junk, pstate |-> Junk]
  /\ map = p0 /\ stash = NoStash
  /\ ctx = [p \in All |-> [r \in Regs |-> Junk]]
  /\ live = {p0} /\ curr = p0
  /\ kstack = <<>> /\ table = {} /\ active = {}
  /\ kind = "sync" /\ at = "program"

(* The program computes; p0 is jrt_main.                                   *)
Compute(v) ==
  /\ at = "program"
  /\ regs' = File(curr, v)
  /\ own' = [own EXCEPT ![curr] = regs']
  /\ UNCHANGED <<elr, map, stash, ctx, live, curr, kstack, table, active, kind, at>>

(* irq_register_ppi and irq_register_spi, from jrt_main.                   *)
Register(i) ==
  /\ at = "program" /\ curr = p0
  /\ table' = table \cup {i}
  /\ UNCHANGED <<regs, elr, map, stash, ctx, live, curr, kstack, active, kind, at, own>>

(* An interrupt, or svc: the core saves pc and pstate and the vector gets  *)
(* some registers to work with.                                            *)
Vector(k) ==
  /\ at = "program"
  /\ k = "sync" => curr # p0
  /\ kind' = k
  /\ elr' = [pc |-> regs["pc"], pstate |-> regs["pstate"]]
  /\ stash' = [r \in Scratch |-> regs[r]]
  /\ regs' = [regs EXCEPT !["pc"] = Junk, !["pstate"] = Junk,
                          !["x21"] = G_SCHED, !["x20"] = Ptr(curr)]
  /\ at' = "store"
  /\ UNCHANGED <<map, ctx, live, curr, kstack, table, active, own>>

(* All registers go to the ctx_t that x20 points to; x0 and x1 carry the   *)
(* stashed ones there.                                                     *)
Saved ==
  [r \in Regs |-> IF r \in {"pc", "pstate"} THEN elr[r]
                  ELSE IF r \in Scratch THEN stash[r] ELSE regs[r]]
StoreContext ==
  /\ at = "store"
  /\ ctx' = [ctx EXCEPT ![regs["x20"][2]] = Saved]
  /\ regs' = [regs EXCEPT !["x0"] = Junk, !["x1"] = Junk]
  /\ stash' = NoStash
  /\ at' = "switch"
  /\ UNCHANGED <<elr, map, live, curr, kstack, table, active, kind, own>>

(* To the kernel's stack, which is where p0 was interrupted, and its map.  *)
ToKernel ==
  /\ at = "switch"
  /\ regs' = [regs EXCEPT !["sp"] = ctx[p0]["sp"]]
  /\ map' = p0
  /\ at' = IF kind = "irq" THEN "iar" ELSE "handler"
  /\ UNCHANGED <<elr, stash, ctx, live, curr, kstack, table, active, kind, own>>

(* The IAR acknowledges an interrupt and is kept on the kernel's stack.    *)
ReadIAR(i) ==
  /\ at = "iar"
  /\ kstack' = Append(kstack, i)
  /\ active' = active \cup ({i} \ {Spurious})
  /\ at' = "handler"
  /\ UNCHANGED <<regs, elr, map, stash, ctx, live, curr, table, kind, own>>

(* The handlers, as the vectors see them: module Sched has what they do.   *)
(* C code keeps x20 and x21 and gives sp back as it was.                   *)
Called == regs' = [regs EXCEPT !["x0"] = Junk, !["x1"] = Junk, !["xn"] = Junk]
Runs == kind = "irq" => kstack[Len(kstack)] \in table

(* irq_dispatch finds no function, or calls irq_default_handler.           *)
NoHandler ==
  /\ at = "handler" /\ ~Runs
  /\ Called /\ at' = "return"
  /\ UNCHANGED <<elr, map, stash, ctx, live, curr, kstack, table, active, kind, own>>

(* timer_fn, ipc_sched, wait_until: perhaps another process is current.    *)
Switch(p) ==
  /\ at = "handler" /\ Runs
  /\ curr' = p
  /\ Called /\ at' = "return"
  /\ UNCHANGED <<elr, map, stash, ctx, live, kstack, table, active, kind, own>>

(* ipc_sched, spawn: a new process, which may be current at once.          *)
Create(p, n, v) ==
  /\ at = "handler" /\ Runs /\ n \notin live
  /\ p \in live \cup {n}
  /\ live' = live \cup {n}
  /\ ctx' = [ctx EXCEPT ![n] = File(n, v)]
  /\ own' = [own EXCEPT ![n] = File(n, v)]
  /\ curr' = p
  /\ Called /\ at' = "return"
  /\ UNCHANGED <<elr, map, stash, kstack, table, active, kind>>

(* exit: the caller is gone and another process is current.                *)
Exit(p) ==
  /\ at = "handler" /\ kind = "sync" /\ curr # p0 /\ p # curr
  /\ live' = live \ {curr}
  /\ curr' = p
  /\ Called /\ at' = "return"
  /\ UNCHANGED <<elr, map, stash, ctx, kstack, table, active, kind, own>>

(* KERNEL_PANIC, a failed KASSERT, an abort: recover or report, and halt.  *)
Panic ==
  /\ at = "handler" /\ Runs
  /\ at' = "halt"
  /\ UNCHANGED <<regs, elr, map, stash, ctx, live, curr, kstack, table, active, kind, own>>

(* Back in the vector: x20 is fetched again through x21, and the map and   *)
(* ELR, SPSR follow it.  mmu_map_switch is a C call as well.               *)
Refetch_None ==
  /\ at = "return"
  /\ LET c == regs["x20"][2]
     IN  /\ map' = c
         /\ elr' = [pc |-> ctx[c]["pc"], pstate |-> ctx[c]["pstate"]]
  /\ at' = IF kind = "irq" THEN "eoi" ELSE "load"
  /\ UNCHANGED <<regs, stash, ctx, live, curr, kstack, table, active, kind, own>>
Refetch ==
  /\ at = "return" /\ regs["x21"] = G_SCHED
  /\ regs' = [regs EXCEPT !["x20"] = Ptr(curr)]
  /\ map' = curr
  /\ elr' = [pc |-> ctx[curr]["pc"], pstate |-> ctx[curr]["pstate"]]
  /\ at' = IF kind = "irq" THEN "eoi" ELSE "load"
  /\ UNCHANGED <<stash, ctx, live, curr, kstack, table, active, kind, own>>

(* The IAR is popped and written to the EOIR.                              *)
EndInterrupt_Keep ==
  /\ at = "eoi"
  /\ active' = active \ {Head(kstack)}
  /\ at' = "load"
  /\ UNCHANGED <<regs, elr, map, stash, ctx, live, curr, kstack, table, kind, own>>
EndInterrupt ==
  /\ at = "eoi"
  /\ active' = active \ {kstack[Len(kstack)]}
  /\ kstack' = SubSeq(kstack, 1, Len(kstack) - 1)
  /\ at' = "load"
  /\ UNCHANGED <<regs, elr, map, stash, ctx, live, curr, table, kind, own>>

(* sp, then the GPRs, and eret.                                            *)
LoadContext ==
  /\ at = "load"
  /\ LET c == ctx[regs["x20"][2]]
     IN  regs' = [r \in Regs |-> IF r \in {"pc", "pstate"} THEN elr[r] ELSE c[r]]
  /\ at' = "program"
  /\ UNCHANGED <<elr, map, stash, ctx, live, curr, kstack, table, active, kind, own>>

EntryNext ==
  \/ \E v \in Values : Compute(v)
  \/ \E i \in Intids : Register(i)
  \/ \E k \in {"irq", "sync"} : Vector(k)
  \/ StoreContext \/ ToKernel
  \/ \E i \in Intids \cup {Spurious} : ReadIAR(i)
  \/ NoHandler
  \/ \E p \in live : Switch(p) \/ Exit(p)
  \/ \E p \in All, n \in Procs, v \in Values : Create(p, n, v)
  \/ Panic
  \/ Refetch \/ EndInterrupt \/ LoadContext

EntrySpec == EntryInit /\ [][EntryNext]_entryVars

-----------------------------------------------------------------------------
(* Properties.                                                             *)

(* A program that runs has every register as it left it itself (or as      *)
(* sched_new_proc set it), under its own map, after any sequence of        *)
(* interrupts, system calls and switches.                                  *)
ResumesOwn ==
  at = "program" => regs = own[curr] /\ map = curr

(* While the kernel runs, the ctx_t of every process, the interrupted one  *)
(* included, holds its registers: any of them may be resumed next.         *)
ContextsKept ==
  \A p \in live :
    ctx[p] = own[p] \/ (at \in {"program", "store"} /\ p = curr)

(* The vector ends exactly the interrupt it acknowledged, and leaves       *)
(* nothing on the kernel's stack: when a program runs no interrupt is      *)
(* active (an active one would not be taken again).                        *)
InterruptsEnded ==
  at \in {"program", "load"} => active = {} /\ kstack = <<>>

(* Handlers run on the kernel's map and on the stack of p0, never on the   *)
(* stack or under the map of the program that was interrupted.             *)
KernelRunsOnItsOwn ==
  at \in {"iar", "handler", "return"} => map = p0 /\ regs["sp"] = own[p0]["sp"]
=============================================================================
