-------------------------------- MODULE Sched --------------------------------
(***************************************************************************)
(* The scheduler of the JanusRT kernel (rtprog/sched.c, sched.h), the      *)
(* three system calls (syscall.c), the two interrupt handlers (rtprog.c)   *)
(* and the one-shot timer under them (timer.c), on the one core that JRT   *)
(* owns.                                                                   *)
(*                                                                         *)
(* Exception entry masks interrupts, so a handler runs to its end before   *)
(* the next one starts; only the counter moves meanwhile.  A handler that  *)
(* reads the counter once or never is one action.  timer_fn reads it once  *)
(* per iteration and once more when it arms the timer, and ipc_sched reads *)
(* a ring that Linux is filling, so each of their iterations is an action  *)
(* and "handler" says which of them is under way.                          *)
(*                                                                         *)
(* KERNEL_PANIC and KASSERT end in halt() and nothing on the core runs     *)
(* again.  A handler that panics half way leaves the scheduler's data as   *)
(* they were: nobody looks at them afterwards.                             *)
(***************************************************************************)
EXTENDS Integers, Sequences, FiniteSets, PQueue

CONSTANTS
  MAX_PROC,    \* process slots (0x1000 in the code)
  READY_MAX,   \* nodes of either heap (0xFF in the code)
  IPC_BUDGET,  \* records ipc_sched takes per interrupt (3 in the code)
  Deadlines,   \* deadlines the programs pass to spawn
  Untils,      \* times the programs pass to wait_until
  Half,        \* half the range of the counter (2^63 in the code)
  MaxTime      \* bound: the counter stops here

ASSUME SchedAssumption ==
  /\ MAX_PROC \in Nat \ {0}
  /\ READY_MAX \in Nat \ {0}
  /\ IPC_BUDGET \in Nat
  /\ Deadlines \subseteq Nat
  /\ Half \in Nat \ {0}
  /\ Untils \subseteq 0 .. 2 * Half - 1
  /\ MaxTime \in 0 .. 2 * Half - 1

VARIABLES
  proc,        \* pb[], and p0 at index 0: the fields the scheduler uses
  free_proc,   \* the stack of unused slots; its length is nfree_proc
  ready,       \* the ready heap, keyed by eff_deadline
  waiting,     \* the waiting heap, keyed by wait_until
  curr,        \* the pid of the process sched_t.curr points to
  pid,         \* sched_t.pid
  now,         \* CNTPCT_EL0
  cval,        \* CNTP_CVAL_EL0
  enable,      \* CNTP_CTL_EL0.ENABLE
  handler,     \* the interrupt handler under way
  budget,      \* iterations of ipc_sched so far
  dl,          \* the deadline timer_fn is about to arm
  halt         \* why the core has halted, or "no"

sc == <<proc, free_proc, ready, waiting, curr, pid>>
timer == <<cval, enable>>
irq == <<handler, budget, dl>>
vars == <<sc, now, timer, irq, halt>>

Pids == 1 .. MAX_PROC
p0 == 0
State == {"READY", "RUNNING", "WAITING", "UNUSED"}
Process == [state : State, eff_deadline : Nat, wait_until : Nat, mem : BOOLEAN]
Handler == {"none", "ipc", "timer", "rearm"}
Halt == {"no", "ENOMEM", "EASSERT"}

(* sched_init: all slots unused, the kernel process p0 current.  The rest  *)
(* of the structure is zero, and zero is PROC_READY.                       *)
Init ==
  /\ proc = [p \in 0 .. MAX_PROC |->
               [state |-> IF p = p0 THEN "READY" ELSE "UNUSED",
                eff_deadline |-> 0, wait_until |-> 0, mem |-> FALSE]]
  /\ free_proc = [i \in Pids |-> i]
  /\ ready = heap_init
  /\ waiting = heap_init
  /\ curr = p0 /\ pid = p0
  /\ now = 0 /\ cval = 0 /\ enable = FALSE
  /\ handler = "none" /\ budget = 0 /\ dl = 0
  /\ halt = "no"

-----------------------------------------------------------------------------
(* The timer.                                                              *)

(* (s64)(deadline - now) <= 0                                              *)
NotAfter(deadline, t) ==
  LET d == IF deadline >= t THEN deadline - t ELSE 2 * Half + deadline - t
  IN  d = 0 \/ d >= Half

timer_schedule_at_ticks_NoEnable(deadline) ==
  /\ cval' = IF NotAfter(deadline, now) THEN now + 1 ELSE deadline
  /\ UNCHANGED enable
timer_schedule_at_ticks(deadline) ==
  /\ cval' = IF NotAfter(deadline, now) THEN now + 1 ELSE deadline
  /\ enable' = TRUE

timer_cancel ==
  /\ enable' = FALSE
  /\ UNCHANGED cval

-----------------------------------------------------------------------------
(* The scheduler.                                                          *)

KERNEL_PANIC(err) ==
  /\ halt' = err
  /\ UNCHANGED <<sc, now, timer>>

(* The queue r after sched_ready_proc(p).                                  *)
sched_ready_proc(procs, r, p) == heap_push(r, procs[p].eff_deadline, p)

(* The queue w after sched_wait_proc(p).                                   *)
sched_wait_proc(procs, w, p) == heap_push(w, procs[p].wait_until, p)

sched_switch_irq_NoPid(n) == curr' = n /\ UNCHANGED pid
sched_switch_irq(n) == curr' = n /\ pid' = n

(* The test for a context switch.                                          *)
Preempts_OnEqual(procs, n) == curr = p0 \/ procs[pid].eff_deadline >= n.key
Preempts_Never(procs, n) == curr = p0
Preempts(procs, n) == curr = p0 \/ procs[pid].eff_deadline > n.key

(* sched(): preempt the current process when the queue r holds an earlier  *)
(* deadline.  procs and r are the table and the queue its caller leaves;   *)
(* every caller has just pushed a node on r.                               *)
sched(procs, r) ==
  \E n \in Minima(r) :
    IF Preempts(procs, n)
    THEN LET c == IF curr = p0 THEN p0 ELSE pid
             popped == heap_pop(r, n)
         IN  /\ proc' = [procs EXCEPT ![n.val].state = "RUNNING",
                                      ![c].state = "READY"]
             /\ ready' = IF curr = p0 THEN popped
                         ELSE sched_ready_proc(procs, popped, c)
             /\ sched_switch_irq(n.val)
    ELSE /\ proc' = procs
         /\ ready' = r
         /\ UNCHANGED <<curr, pid>>

Yielded_Peek ==
  IF heap_empty(ready)
  THEN {[p |-> p0, ready |-> ready]}
  ELSE {[p |-> n.val, ready |-> ready] : n \in Minima(ready)}

(* sched_yield(): what p and the queue may be after its heap_pop.          *)
Yielded ==
  IF heap_empty(ready)
  THEN {[p |-> p0, ready |-> ready]}
  ELSE {[p |-> n.val, ready |-> heap_pop(ready, n)] : n \in Minima(ready)}

(* sched_alloc_proc and sched_new_proc: the slot on top of the stack, and  *)
(* the table once it is filled in.                                         *)
NewPid == free_proc[Len(free_proc)]
sched_new_proc(deadline, mem) ==
  [proc EXCEPT ![NewPid].state = "READY",
               ![NewPid].eff_deadline = deadline,
               ![NewPid].mem = mem]

(* The common tail of schedule_req and spawn: a slot, page tables (the     *)
(* KASSERT on a page that cannot be had), the ready heap, and sched().     *)
StartProc(deadline, mem) ==
  LET procs == sched_new_proc(deadline, mem)
  IN  IF free_proc = <<>>
      THEN KERNEL_PANIC("ENOMEM")
      ELSE \/ KERNEL_PANIC("EASSERT")
           \/ /\ heap_full(ready, READY_MAX)
              /\ KERNEL_PANIC("ENOMEM")
           \/ /\ ~heap_full(ready, READY_MAX)
              /\ sched(procs, sched_ready_proc(procs, ready, NewPid))
              /\ free_proc' = SubSeq(free_proc, 1, Len(free_proc) - 1)
              /\ UNCHANGED <<waiting, now, timer, halt>>

-----------------------------------------------------------------------------
(* The system calls of the current process.  p0 makes none.                *)

UserMode == halt = "no" /\ handler = "none"

(* The test for setting the timer again: no waiter is due as early.        *)
FirstDue_Only(until) == waiting.a = {}
FirstDue(until) == \A n \in waiting.a : n.key > until

(* wait_until: yield, then queue the caller and, when it is due before the *)
(* waiters there were, set the timer.  The counter has not reached its     *)
(* bound, so that a timer set for the next tick can go off.                *)
wait_until(until) ==
  /\ UserMode /\ curr # p0
  /\ now < MaxTime
  /\ UNCHANGED irq
  /\ IF heap_full(waiting, READY_MAX)
     THEN KERNEL_PANIC("ENOMEM")
     ELSE \E y \in Yielded :
            LET procs == [proc EXCEPT ![y.p].state = "RUNNING",
                                      ![pid].wait_until = until,
                                      ![pid].state = "WAITING"]
            IN  /\ proc' = procs
                /\ ready' = y.ready
                /\ sched_switch_irq(y.p)
                /\ waiting' = sched_wait_proc(procs, waiting, pid)
                /\ IF FirstDue(until)
                   THEN timer_schedule_at_ticks(until)
                   ELSE UNCHANGED timer
                /\ UNCHANGED <<free_proc, now, halt>>

(* exit: yield, then return the slot and the memory of the caller.  free() *)
(* asserts that the memory lies in the heap, which NULL does not.          *)
exit ==
  /\ UserMode /\ curr # p0
  /\ UNCHANGED irq
  /\ IF Len(free_proc) >= MAX_PROC
     THEN KERNEL_PANIC("ENOMEM")
     ELSE IF ~proc[pid].mem
     THEN KERNEL_PANIC("EASSERT")
     ELSE \E y \in Yielded :
            /\ proc' = [proc EXCEPT ![y.p].state = "RUNNING",
                                    ![pid].state = "UNUSED"]
            /\ ready' = y.ready
            /\ sched_switch_irq(y.p)
            /\ free_proc' = Append(free_proc, pid)
            /\ UNCHANGED <<waiting, now, timer, halt>>

(* spawn: alloc may return NULL, and spawn goes on with it.                *)
spawn(deadline) ==
  /\ UserMode /\ curr # p0
  /\ \E mem \in BOOLEAN : StartProc(deadline, mem)
  /\ UNCHANGED irq

-----------------------------------------------------------------------------
(* The interrupts.                                                         *)

(* SPI 72, raised by Linux: ipc_sched starts.                              *)
IpcIrq ==
  /\ UserMode
  /\ handler' = "ipc" /\ budget' = 0
  /\ UNCHANGED <<sc, now, timer, dl, halt>>

(* One record of the ring: schedule_req, which panics when alloc fails.    *)
schedule_req ==
  /\ halt = "no" /\ handler = "ipc" /\ budget < IPC_BUDGET
  /\ KERNEL_PANIC("ENOMEM") \/ StartProc(0, TRUE)
  /\ budget' = budget + 1
  /\ UNCHANGED <<handler, dl>>

(* The loop ends: the ring is empty, which it may be at any iteration, or  *)
(* the budget is spent.                                                    *)
IpcDone ==
  /\ halt = "no" /\ handler = "ipc"
  /\ handler' = "none" /\ budget' = 0
  /\ UNCHANGED <<sc, now, timer, dl, halt>>

(* The timer's level-sensitive PPI 30 is taken and timer_fn starts.        *)
TimerIrq ==
  /\ UserMode
  /\ enable /\ cval <= now
  /\ IF heap_empty(waiting)
     THEN timer_cancel /\ UNCHANGED handler
     ELSE handler' = "timer" /\ UNCHANGED timer
  /\ UNCHANGED <<sc, now, budget, dl, halt>>

(* The test of timer_fn on the waiter it has popped.                       *)
Due_NextTick(n) == n.key <= now + 1
Due(n) == n.key <= now

(* One iteration of the loop of timer_fn: the earliest waiter is not due   *)
(* and goes back on the heap, or it is made ready.                         *)
TimerIter ==
  /\ halt = "no" /\ handler = "timer"
  /\ \E n \in Minima(waiting) :
       LET popped == heap_pop(waiting, n)
       IN  \/ /\ ~Due(n)
              /\ waiting' = sched_wait_proc(proc, popped, n.val)
              /\ handler' = "rearm" /\ dl' = n.key
              /\ UNCHANGED <<proc, free_proc, ready, curr, pid, timer, halt>>
           \/ /\ Due(n)
              /\ heap_full(ready, READY_MAX)
              /\ KERNEL_PANIC("ENOMEM")
              /\ UNCHANGED <<handler, dl>>
           \/ /\ Due(n)
              /\ ~heap_full(ready, READY_MAX)
              /\ waiting' = popped
              /\ sched(proc, sched_ready_proc(proc, ready, n.val))
              /\ IF heap_empty(popped)
                 THEN timer_cancel /\ handler' = "none"
                 ELSE UNCHANGED <<timer, handler>>
              /\ UNCHANGED <<free_proc, dl, halt>>
  /\ UNCHANGED <<now, budget>>

(* The end of timer_fn when a waiter is left.                              *)
TimerRearm ==
  /\ halt = "no" /\ handler = "rearm"
  /\ timer_schedule_at_ticks(dl)
  /\ handler' = "none" /\ dl' = 0
  /\ UNCHANGED <<sc, now, budget, halt>>

(* The counter counts, whatever the core does.  It makes its last step     *)
(* when the timer is not about to be set, which could then not go off.     *)
Tick ==
  /\ now < MaxTime
  /\ handler = "rearm" => now + 1 < MaxTime
  /\ now' = now + 1
  /\ UNCHANGED <<sc, timer, irq, halt>>

(* halt(): the core waits for events for ever.                             *)
Halted ==
  /\ halt # "no"
  /\ UNCHANGED vars

Next ==
  \/ \E until \in Untils : wait_until(until)
  \/ exit
  \/ \E deadline \in Deadlines : spawn(deadline)
  \/ IpcIrq \/ schedule_req \/ IpcDone
  \/ TimerIrq \/ TimerIter \/ TimerRearm
  \/ Tick
  \/ Halted

Spec == Init /\ [][Next]_vars

(* Time passes, interrupts are taken, and handlers end.  A timer interrupt *)
(* that stays pending while others come and go is taken in the end: it has *)
(* the priority of SPI 72 and the lower number.  Nothing is assumed of the *)
(* programs or of Linux.                                                   *)
Fairness ==
  /\ WF_vars(Tick)
  /\ SF_vars(TimerIrq)
  /\ WF_vars(TimerIter)
  /\ WF_vars(TimerRearm)
  /\ WF_vars(IpcDone)

FairSpec == Spec /\ Fairness

-----------------------------------------------------------------------------
(* Properties.                                                             *)

(* Every variable has its type.                                            *)
TypeOK ==
  /\ proc \in [0 .. MAX_PROC -> Process]
  /\ free_proc \in Seq(Pids)
  /\ ready.a \subseteq HeapNode(Pids) /\ ready.len \in 0 .. READY_MAX
  /\ waiting.a \subseteq HeapNode(Pids) /\ waiting.len \in 0 .. READY_MAX
  /\ curr \in 0 .. MAX_PROC /\ pid \in 0 .. MAX_PROC
  /\ now \in 0 .. MaxTime /\ cval \in Nat /\ enable \in BOOLEAN
  /\ handler \in Handler /\ budget \in 0 .. IPC_BUDGET /\ dl \in Nat
  /\ halt \in Halt

(* Earliest deadline first: after every call of sched() and sched_yield()  *)
(* the current process has the least effective deadline of all that could  *)
(* run, and the kernel process is current only when nothing is ready.      *)
EDF ==
  IF curr = p0
  THEN ready.a = {}
  ELSE \A p \in Vals(ready) : proc[curr].eff_deadline <= proc[p].eff_deadline

(* The slots on the stack of unused ones.                                  *)
FreePids == {free_proc[i] : i \in 1 .. Len(free_proc)}

(* Every slot is in exactly one place: on the stack of unused slots, in    *)
(* the ready heap, in the waiting heap, or current.  No place holds it     *)
(* twice.  So sched_free_proc never finds the stack full, a heap never     *)
(* hands out a process that has exited, and no slot is lost.               *)
SlotsPartitioned ==
  /\ FreePids \cup Vals(ready) \cup Vals(waiting) \cup ({curr} \ {p0}) = Pids
  /\ FreePids \cap Vals(ready) = {}
  /\ FreePids \cap Vals(waiting) = {}
  /\ Vals(ready) \cap Vals(waiting) = {}
  /\ curr \notin FreePids \cup Vals(ready) \cup Vals(waiting)
  /\ \A i, j \in 1 .. Len(free_proc) : free_proc[i] = free_proc[j] => i = j
  /\ \A m, n \in ready.a : m.val = n.val => m = n
  /\ \A m, n \in waiting.a : m.val = n.val => m = n
  /\ ready.len = Cardinality(ready.a)
  /\ waiting.len = Cardinality(waiting.a)

(* The copies agree: sched_t.pid names the process sched_t.curr points to, *)
(* and the key a process was queued with is still its deadline, or the end *)
(* of its wait, when the heap is next read.                                *)
CopiesAgree ==
  /\ pid = curr
  /\ \A n \in ready.a : n.key = proc[n.val].eff_deadline
  /\ \A n \in waiting.a : n.key = proc[n.val].wait_until

(* No wakeup is lost: whenever a program runs, the timer is set, and set   *)
(* no later than the end of every wait or, if that had passed when it was  *)
(* set, than the next tick.  With nobody waiting the timer is off.         *)
TimerCoversWaiters ==
  handler = "none" =>
    /\ enable <=> waiting.a # {}
    /\ \A p \in Vals(waiting) : cval <= proc[p].wait_until \/ cval <= now + 1

(* wait_until never returns early: a step that takes a process out of the  *)
(* waiting heap comes at or after the time the process asked for.          *)
NoEarlyWake ==
  [][\A p \in Vals(waiting) \ Vals(waiting)' : proc[p].wait_until <= now]_vars

(* A program that has not called wait_until or exit loses the core only to *)
(* one with a strictly earlier deadline, and it is then in the ready heap. *)
PreemptOnlyEarlier ==
  [][ LET c == curr
          n == curr'
      IN  c # p0 /\ n # c /\ c \notin FreePids' \cup Vals(waiting)'
            => /\ n # p0
               /\ proc'[n].eff_deadline < proc[c].eff_deadline
               /\ c \in Vals(ready)' ]_vars

(* Every wait ends: a process that waits for a time the counter reaches is *)
(* made ready, unless the kernel panics.                                   *)
WaitsEnd ==
  \A p \in Pids :
    p \in Vals(waiting) /\ proc[p].wait_until <= MaxTime
      ~> p \notin Vals(waiting) \/ halt # "no"
=============================================================================
