-------------------------------- MODULE Boot --------------------------------
(***************************************************************************)
(* The bring-up of the JRT core: jrt_main, step by step, with the GIC it   *)
(* configures (gic.c), and the interrupts that arrive meanwhile through    *)
(* the vectors of module Entry.  Linux may poke SCHED_SPI at any time, the *)
(* time before the core was started included.                              *)
(***************************************************************************)
EXTENDS Entry

CONSTANTS
  SCHED_SPI, TIMER_PPI, \* the interrupts (Intids)
  Cpus,                 \* cores JRT may be started on, as records of their affinity
  Frames                \* whose the redistributor frames are, in order

ASSUME BootAssumption ==
  /\ Intids = {SCHED_SPI, TIMER_PPI} /\ SCHED_SPI # TIMER_PPI
  /\ Len(Frames) > 0
  /\ Cpus \subseteq [a0 : Nat, a1 : Nat, a2 : Nat, a3 : Nat]

VARIABLES
  step,    \* how far jrt_main has come
  masked,  \* whether jrt_main has interrupts masked
  icc,     \* CPU interface: group 1 on, priorities unmasked
  dist,    \* distributor on
  waker,   \* the redistributor: "asleep", "waking" or "awake"
  spi,     \* what is set for SCHED_SPI in the distributor
  irouter, \* GICD_IROUTER of SCHED_SPI
  frame,   \* the frame in which TIMER_PPI is enabled, or 0
  frq,     \* whether g_cntfrq is set
  mpidr,   \* the core JRT was started on
  pending, \* interrupts pending in the GIC
  armed,   \* whether the timer is programmed
  stolen   \* history: another core took the poke

gicVars == <<icc, dist, waker, spi, irouter, frame>>
bootVars == <<step, masked, gicVars, frq, mpidr, pending, armed, stolen>>
vars == <<entryVars, bootVars>>

jrt_main_EnableFirst ==
  <<"disable", "irq_init", "sched_init", "mmu_enable", "enable",
    "spi_icc", "dist", "spi_config", "route", "spi_enable", "spi_register",
    "timebase", "ppi_register", "ppi_icc", "wake", "poll", "ppi_enable", "unmask", "loop">>
jrt_main_RouteLast ==
  <<"disable", "irq_init", "sched_init", "mmu_enable", "enable",
    "spi_register", "spi_icc", "dist", "spi_config", "spi_enable", "route",
    "timebase", "ppi_register", "ppi_icc", "wake", "poll", "ppi_enable", "unmask", "loop">>
jrt_main_InitLate ==
  <<"disable", "sched_init", "mmu_enable", "enable",
    "spi_register", "irq_init", "spi_icc", "dist", "spi_config", "route", "spi_enable",
    "timebase", "ppi_register", "ppi_icc", "wake", "poll", "ppi_enable", "unmask", "loop">>
(* The order of the calls; sched_init stands for alloc_init and            *)
(* mmu_set_alloc as well.                                                  *)
jrt_main ==
  <<"disable", "irq_init", "sched_init", "mmu_enable", "enable",
    "spi_register", "spi_icc", "dist", "spi_config", "route", "spi_enable",
    "timebase", "ppi_register", "ppi_icc", "wake", "poll", "ppi_enable", "unmask", "loop">>

(* build_irouter_from_mpidr: Aff1 lands in the field of Aff2, Aff2 in that *)
(* of Aff3, and Aff3 in none.                                              *)
build_irouter_from_mpidr(c) == [a0 |-> c.a0, a1 |-> 0, a2 |-> c.a1, a3 |-> c.a2]

(* gicr_base_for_this_cpu: the first frame that is this core's, or the     *)
(* first frame of all.                                                     *)
gicr_base_for_this_cpu(c) ==
  LET mine == {k \in DOMAIN Frames : Frames[k] = c}
  IN  IF mine = {} THEN 1 ELSE CHOOSE k \in mine : \A j \in mine : k <= j

(* The core starts with interrupts masked.  Linux runs on the same GIC and *)
(* may have turned the distributor on, and firmware may have woken the     *)
(* redistributor.                                                          *)
Init ==
  /\ EntryInit
  /\ step = 1 /\ masked = TRUE
  /\ icc = FALSE /\ dist \in BOOLEAN /\ waker \in {"asleep", "awake"}
  /\ spi = {} /\ irouter = [a0 |-> 0, a1 |-> 0, a2 |-> 0, a3 |-> 0] /\ frame = 0
  /\ frq = FALSE /\ mpidr \in Cpus
  /\ pending = {} /\ armed = FALSE /\ stolen = FALSE

-----------------------------------------------------------------------------
(* jrt_main.  A step of it that changes nothing of this model is Other.    *)
Main(s) ==
  /\ at = "program" /\ curr = p0
  /\ jrt_main[step] = s
  /\ step' = step + 1
  /\ UNCHANGED <<mpidr, pending, armed, stolen>>

Other ==
  /\ Main("sched_init") \/ Main("mmu_enable")
  /\ UNCHANGED <<entryVars, masked, gicVars, frq>>
interrupts_disable_all ==
  /\ Main("disable")
  /\ masked' = TRUE
  /\ UNCHANGED <<entryVars, gicVars, frq>>
interrupts_enable_all ==
  /\ Main("enable") \/ Main("unmask")
  /\ masked' = FALSE
  /\ UNCHANGED <<entryVars, gicVars, frq>>
irq_init ==
  /\ Main("irq_init")
  /\ table' = {}
  /\ UNCHANGED <<regs, elr, map, stash, ctx, live, curr, kstack, active, kind, at, own>>
  /\ UNCHANGED <<masked, gicVars, frq>>
irq_register ==
  /\ \/ Main("spi_register") /\ Register(SCHED_SPI)
     \/ Main("ppi_register") /\ Register(TIMER_PPI)
  /\ UNCHANGED <<masked, gicVars, frq>>
sys_enable_icc_el1 ==
  /\ Main("spi_icc") \/ Main("ppi_icc")
  /\ icc' = TRUE
  /\ UNCHANGED <<entryVars, masked, dist, waker, spi, irouter, frame, frq>>
gic_enable_dist ==
  /\ Main("dist")
  /\ dist' = TRUE
  /\ UNCHANGED <<entryVars, masked, icc, waker, spi, irouter, frame, frq>>
gic_enable_spi_Overwrite ==
  /\ \/ Main("spi_config") /\ spi' = spi \cup {"group1", "edge", "priority"}
     \/ Main("spi_enable") /\ spi' = {"enabled"}
  /\ UNCHANGED <<entryVars, masked, icc, dist, waker, irouter, frame, frq>>
gic_enable_spi ==
  /\ \/ Main("spi_config") /\ spi' = spi \cup {"group1", "edge", "priority"}
     \/ Main("spi_enable") /\ spi' = spi \cup {"enabled"}
  /\ UNCHANGED <<entryVars, masked, icc, dist, waker, irouter, frame, frq>>
route_spi_to_this_cpu ==
  /\ Main("route")
  /\ irouter' = build_irouter_from_mpidr(mpidr)
  /\ UNCHANGED <<entryVars, masked, icc, dist, waker, spi, frame, frq>>
timebase_init ==
  /\ Main("timebase")
  /\ frq' = TRUE
  /\ UNCHANGED <<entryVars, masked, gicVars>>
(* gic_enable_ppi, which repeats gic_enable_dist: wake the redistributor,  *)
(* poll it, and enable in its frame at the end.                            *)
EnableIn_None(k) == UNCHANGED frame
EnableIn(k) == frame' = k
gic_enable_ppi ==
  /\ LET mine == Frames[gicr_base_for_this_cpu(mpidr)] = mpidr
     IN  \/ /\ Main("wake")
            /\ waker' = IF mine /\ waker = "asleep" THEN "waking" ELSE waker
            /\ UNCHANGED frame
         \/ /\ Main("poll") /\ (mine => waker = "awake")
            /\ UNCHANGED <<waker, frame>>
         \/ /\ Main("ppi_enable")
            /\ EnableIn(gicr_base_for_this_cpu(mpidr))
            /\ UNCHANGED waker
  /\ UNCHANGED <<entryVars, masked, icc, dist, spi, irouter, frq>>

Bringup ==
  \/ Other \/ interrupts_disable_all \/ interrupts_enable_all
  \/ irq_init \/ irq_register \/ sys_enable_icc_el1 \/ gic_enable_dist \/ gic_enable_spi
  \/ route_spi_to_this_cpu \/ timebase_init \/ gic_enable_ppi

-----------------------------------------------------------------------------
(* Around the core: Linux, the redistributor, the timer, another core that *)
(* an SPI is routed to.                                                    *)
External == UNCHANGED <<entryVars, step, masked, icc, dist, spi, irouter, frame, frq, mpidr, armed>>
Poke ==
  /\ pending' = pending \cup {SCHED_SPI}
  /\ External /\ UNCHANGED <<waker, stolen>>
Awaken ==
  /\ waker = "waking" /\ waker' = "awake"
  /\ External /\ UNCHANGED <<pending, stolen>>
Expire ==
  /\ armed
  /\ pending' = pending \cup {TIMER_PPI}
  /\ External /\ UNCHANGED <<waker, stolen>>
Forwarded == SCHED_SPI \in pending /\ dist /\ {"group1", "enabled"} \subseteq spi
Steal ==
  /\ Forwarded /\ irouter # mpidr
  /\ pending' = pending \ {SCHED_SPI} /\ stolen' = TRUE
  /\ External /\ UNCHANGED waker

(* What the GIC signals to this core.                                      *)
Deliverable ==
  IF ~icc \/ waker # "awake" THEN {}
  ELSE {i \in pending :
          \/ i = SCHED_SPI /\ Forwarded /\ irouter = mpidr
          \/ i = TIMER_PPI /\ dist /\ frame # 0 /\ Frames[frame] = mpidr}

Interrupt ==
  /\ ~(curr = p0 /\ masked) /\ Deliverable # {}
  /\ Vector("irq")
  /\ UNCHANGED bootVars

(* gic_enable_spi and timer_ppi_init give both interrupts the priority     *)
(* 0x80, and the GIC hands out the lower INTID first: the timer's.         *)
(* SCHED_SPI is an edge and ends with its acknowledgement; the timer is a  *)
(* level.                                                                  *)
Acknowledge(i) ==
  /\ i \in Deliverable \cup {Spurious}
  /\ i = SCHED_SPI => TIMER_PPI \notin Deliverable
  /\ ReadIAR(i)
  /\ pending' = pending \ ({i} \cap {SCHED_SPI})
  /\ UNCHANGED <<step, masked, gicVars, frq, mpidr, armed, stolen>>

(* The handlers.  ipc_sched may find the ring empty, or make a process;    *)
(* timer_fn and wait_until leave the timer programmed when one waits.      *)
Serving(i) == at = "handler" /\ kind = "irq" /\ kstack[Len(kstack)] = i
ipc_sched ==
  /\ Serving(SCHED_SPI)
  /\ \/ Switch(curr)
     \/ \E p \in All, n \in Procs, v \in Values : Create(p, n, v)
  /\ UNCHANGED bootVars
timer_fn ==
  /\ Serving(TIMER_PPI)
  /\ \E p \in live : Switch(p)
  /\ armed' \in BOOLEAN /\ pending' = pending \ {TIMER_PPI}
  /\ UNCHANGED <<step, masked, gicVars, frq, mpidr, stolen>>
wait_until ==
  /\ at = "handler" /\ kind = "sync"
  /\ \E p \in live : Switch(p)
  /\ armed' = TRUE
  /\ UNCHANGED <<step, masked, gicVars, frq, mpidr, pending, stolen>>
spawn_or_exit ==
  /\ at = "handler" /\ kind = "sync"
  /\ \/ \E p \in All, n \in Procs, v \in Values : Create(p, n, v)
     \/ \E p \in live : Exit(p)
  /\ UNCHANGED bootVars

Program ==
  /\ curr = p0 => jrt_main[step] # "loop"
  /\ \/ \E v \in Values : Compute(v)
     \/ Vector("sync")
  /\ UNCHANGED bootVars
Vectors ==
  /\ StoreContext \/ ToKernel \/ NoHandler \/ Refetch \/ EndInterrupt \/ LoadContext
  /\ UNCHANGED bootVars
Handlers == ipc_sched \/ timer_fn \/ wait_until \/ spawn_or_exit

Next ==
  \/ Bringup
  \/ Poke \/ Awaken \/ Expire \/ Steal
  \/ Program \/ Interrupt
  \/ \E i \in Intids \cup {Spurious} : Acknowledge(i)
  \/ Vectors \/ Handlers
  \/ Panic /\ UNCHANGED bootVars

(* The core executes the vectors and handlers, and takes an interrupt that *)
(* is signalled; jrt_main goes on whenever p0 is let to; the hardware      *)
(* wakes the redistributor, lets the timer expire and hands out the first  *)
(* of what is pending: SCHED_SPI is taken only if the core comes, again    *)
(* and again, to ask for an interrupt while the timer's is not pending.    *)
(* No program has to end or to wait.                                       *)
Fairness ==
  /\ WF_vars(Vectors) /\ WF_vars(Handlers) /\ SF_vars(Interrupt)
  /\ SF_vars(Bringup)
  /\ WF_vars(Awaken) /\ WF_vars(Expire)
  /\ \A i \in Intids : SF_vars(Acknowledge(i))
  /\ WF_vars(Acknowledge(Spurious))

Spec == Init /\ [][Next]_vars /\ Fairness

-----------------------------------------------------------------------------
(* Properties.                                                             *)

(* The cores that the code can set up: the affinity is in Aff0 alone, and  *)
(* the core has a redistributor frame.                                     *)
Low == mpidr.a1 = 0 /\ mpidr.a2 = 0 /\ mpidr.a3 = 0
HasFrame == \E k \in DOMAIN Frames : Frames[k] = mpidr

(* Every interrupt that the core acknowledges finds its function in the    *)
(* tables: sched_spi_init and timer_ppi_init register before they enable.  *)
HandlerRegistered ==
  at = "handler" /\ kind = "irq" =>
    kstack[Len(kstack)] \in table \cup {Spurious}

(* A program runs before g_cntfrq is set (its clock then reads 0, and the  *)
(* deadlines it computes lie in the past) only while jrt_main is held up   *)
(* between gic_enable_spi and timebase_init.                               *)
TimebaseGap ==
  curr # p0 /\ ~frq => jrt_main[step] = "timebase"

(* No other core takes a poke of Linux: the route is set when SCHED_SPI is *)
(* enabled.  This holds for cores whose affinity is in Aff0 alone: the     *)
(* other levels do not get to their places in GICD_IROUTER.                *)
NoPokeStolen == Low => ~stolen

(* A poke is never lost, whether it is made before the core starts, during *)
(* bring-up or while a handler runs: the core takes it, unless it panics   *)
(* or the timer keeps SCHED_SPI waiting for ever.  The timer does so only  *)
(* when it has expired again each time the vector reads the IAR (as it     *)
(* does when it was programmed for a time the counter takes for passed).   *)
Asking == at = "iar"
Starved ==
  /\ []<>(Asking /\ TIMER_PPI \in Deliverable)
  /\ <>[](Asking => TIMER_PPI \in Deliverable)
PokeTaken ==
  \/ Starved
  \/ SCHED_SPI \in pending /\ Low /\ HasFrame ~> SCHED_SPI \notin pending \/ at = "halt"

(* A wait is served even when it began before timer_ppi_init: as long as   *)
(* the other processes leave p0 some time again and again, the timer's     *)
(* interrupt is enabled and comes.                                         *)
Idle == at = "program" /\ curr = p0
WaitServed ==
  []<>Idle => (armed /\ Low /\ HasFrame ~> ~armed \/ Serving(TIMER_PPI))

(* Boot steps are steps of Entry, or leave its state alone: what Entry     *)
(* promises of every program holds during bring-up too.                    *)
RefinesEntry == EntrySpec
=============================================================================
