-------------------------------- MODULE Ring --------------------------------
(***************************************************************************)
(* The way of a request from Linux to JRT: the ring in shared memory       *)
(* (shared/mailbox.h), its producers, which are tasks in the ioctl of the  *)
(* kernel module (kernelmod/rtmain.c), the software-generated SPI that the *)
(* GIC latches, and its consumer, the SPI's handler on the JRT core        *)
(* (rtprog/rtprog.c).                                                      *)
(*                                                                         *)
(* Every load and store of the shared ring is a step of its own.  Release  *)
(* stores and acquire loads order the payload before the flag; nothing     *)
(* orders the flag before the write that pokes the GIC, because the        *)
(* barrier comes after that write, so the two may take effect either way   *)
(* round (Overtake).  Loading the module again resets the ring, store by   *)
(* store, while JRT runs on.                                               *)
(***************************************************************************)
EXTENDS Integers, Sequences, FiniteSets

CONSTANTS
  Producers,   \* tasks that may be in the ioctl
  SIZE,        \* TOJRT_SIZE
  RANGE,       \* number of values of a ticket (2^32 in the code)
  IPC_BUDGET,  \* records ipc_sched takes per interrupt
  Recs,        \* requests
  NoRec,       \* contents of a variable that holds no request
  Overtake,    \* may a poke take effect before the flag it announces?
  MAX_LOADS    \* bound: how often the module is loaded again

ASSUME RingAssumption ==
  /\ SIZE \in Nat \ {0}
  /\ RANGE \in Nat /\ RANGE % SIZE = 0 /\ RANGE > SIZE + 2
  /\ IPC_BUDGET \in Nat
  /\ NoRec \notin Recs
  /\ Overtake \in BOOLEAN /\ MAX_LOADS \in Nat

VARIABLES
  head, tail, flags, data,  \* struct mpsc_ring
  lock,      \* sched_lock: its holder, or {}
  ppc,       \* where each producer is
  tkt,       \* the ticket of the producer that holds the lock
  pending,   \* the pending bit of SPI 72
  load,      \* where ipc_init is, "done" when it is not running
  jpc,       \* where the consumer is
  budget,    \* iterations of ipc_sched so far
  out,       \* the request the consumer has copied
  last,      \* history: how the last ipc_sched ended
  early,     \* history: did the last poke overtake its flag?
  loads,     \* history: how often ipc_init has run again
  torn       \* history: it ran while a producer or the consumer used the ring

ring == <<head, tail, flags, data>>
linux == <<lock, ppc, tkt>>
jrt == <<jpc, budget, out>>
hist == <<last, early>>
module == <<load, loads, torn>>
vars == <<ring, linux, pending, jrt, hist, module>>

Slots == 0 .. SIZE - 1
idx(t) == t % SIZE

Init ==
  /\ head = 0 /\ tail = 0
  /\ flags = [i \in Slots |-> 0]
  /\ data = [i \in Slots |-> NoRec]
  /\ lock = {} /\ tkt = 0
  /\ ppc = [p \in Producers |-> "user"]
  /\ pending = FALSE
  /\ jpc = "idle" /\ budget = 0 /\ out = NoRec
  /\ last = "empty" /\ early = FALSE
  /\ load = "done" /\ loads = 0 /\ torn = FALSE

-----------------------------------------------------------------------------
(* A producer: rtcore_sched_prog from its mutex_lock on, and mpsc_push.    *)

Goto(p, from, to) == ppc[p] = from /\ ppc' = [ppc EXCEPT ![p] = to]

rtcore_sched_prog(p) ==
  /\ Goto(p, "user", "lock")
  /\ UNCHANGED <<ring, lock, tkt, pending, jrt, hist, module>>

mutex_lock(p) ==
  /\ lock = {}
  /\ Goto(p, "lock", "claim")
  /\ lock' = {p}
  /\ UNCHANGED <<ring, tkt, pending, jrt, hist, module>>

mpsc_fetch_add_head_relaxed(p) ==
  /\ Goto(p, "claim", "spin")
  /\ tkt' = head
  /\ head' = (head + 1) % RANGE
  /\ torn' = (torn \/ load # "done")
  /\ UNCHANGED <<tail, flags, data, lock, pending, jrt, hist, load, loads>>

(* The loop of mpsc_push: once more round while the slot is full.          *)
Spin_Once(p) ==
  /\ Goto(p, "spin", "copy")
  /\ UNCHANGED <<ring, lock, tkt, pending, jrt, hist, module>>
Spin(p) ==
  /\ IF flags[idx(tkt)] # 0
     THEN ppc[p] = "spin" /\ UNCHANGED ppc
     ELSE Goto(p, "spin", "copy")
  /\ UNCHANGED <<ring, lock, tkt, pending, jrt, hist, module>>

(* The request of the task, which nothing looks at before this.            *)
Payload(p) ==
  /\ Goto(p, "copy", "post")
  /\ \E r \in Recs : data' = [data EXCEPT ![idx(tkt)] = r]
  /\ UNCHANGED <<head, tail, flags, lock, tkt, pending, jrt, hist, module>>

(* The flag becomes visible, before the poke or after it.                  *)
Publish(p) ==
  /\ Goto(p, "post", "poke") \/ Goto(p, "late", "unlock")
  /\ flags' = [flags EXCEPT ![idx(tkt)] = 1]
  /\ UNCHANGED <<head, tail, data, lock, tkt, pending, jrt, hist, module>>

(* writel_relaxed to GICD_ISPENDR: the bit latches, however often it is    *)
(* set.                                                                    *)
Poke_None(p) ==
  /\ Goto(p, "poke", "unlock") /\ early' = FALSE
  /\ UNCHANGED <<ring, lock, tkt, pending, jrt, last, module>>
Poke(p) ==
  /\ \/ Goto(p, "poke", "unlock") /\ early' = FALSE
     \/ Overtake /\ Goto(p, "post", "late") /\ early' = TRUE
  /\ pending' = TRUE
  /\ UNCHANGED <<ring, lock, tkt, jrt, last, module>>

(* wmb(), mutex_unlock and the return to user space.                       *)
mutex_unlock(p) ==
  /\ Goto(p, "unlock", "user")
  /\ lock' = {}
  /\ tkt' = 0
  /\ UNCHANGED <<ring, pending, jrt, hist, module>>

Producer(p) ==
  \/ mutex_lock(p) \/ mpsc_fetch_add_head_relaxed(p) \/ Spin(p)
  \/ Payload(p) \/ Publish(p) \/ Poke(p) \/ mutex_unlock(p)

-----------------------------------------------------------------------------
(* The consumer: ipc_sched and mpsc_pop, in the handler of SPI 72.         *)

(* The interrupt is acknowledged, which clears its pending bit: a poke     *)
(* from now on makes it pending again.                                     *)
IrqEntry ==
  /\ jpc = "idle" /\ pending
  /\ pending' = FALSE
  /\ jpc' = "flag"
  /\ torn' = (torn \/ load # "done")
  /\ UNCHANGED <<ring, linux, budget, out, hist, load, loads>>

(* The test of the for loop and mpsc_pop's load of the flag.               *)
LoadFlag ==
  /\ jpc = "flag"
  /\ \/ /\ budget = IPC_BUDGET
        /\ jpc' = "idle" /\ budget' = 0 /\ last' = "budget"
     \/ /\ budget < IPC_BUDGET /\ flags[idx(tail)] = 0
        /\ jpc' = "idle" /\ budget' = 0 /\ last' = "empty"
     \/ /\ budget < IPC_BUDGET /\ flags[idx(tail)] # 0
        /\ jpc' = "copy" /\ UNCHANGED <<budget, last>>
  /\ UNCHANGED <<ring, linux, pending, out, early, module>>

CopyOut ==
  /\ jpc = "copy"
  /\ out' = data[idx(tail)]
  /\ jpc' = "clear"
  /\ UNCHANGED <<ring, linux, pending, budget, hist, module>>

ClearFlag ==
  /\ jpc = "clear"
  /\ flags' = [flags EXCEPT ![idx(tail)] = 0]
  /\ jpc' = "tail"
  /\ UNCHANGED <<head, tail, data, linux, pending, budget, out, hist, module>>

AdvanceTail ==
  /\ jpc = "tail"
  /\ tail' = (tail + 1) % RANGE
  /\ jpc' = "req"
  /\ UNCHANGED <<head, flags, data, linux, pending, budget, out, hist, module>>

(* schedule_req starts a process, or panics and the core halts.            *)
schedule_req ==
  /\ jpc = "req"
  /\ jpc' \in {"flag", "halt"}
  /\ budget' = budget + 1
  /\ out' = NoRec
  /\ UNCHANGED <<ring, linux, pending, hist, module>>

ipc_sched == LoadFlag \/ CopyOut \/ ClearFlag \/ AdvanceTail \/ schedule_req

-----------------------------------------------------------------------------
(* The module loaded again: it can go when no task has the device open,    *)
(* but the device is back before ipc_init has run.                         *)
rtcore_init ==
  /\ load = "done" /\ loads < MAX_LOADS
  /\ \A p \in Producers : ppc[p] = "user"
  /\ load' = "head"
  /\ torn' = (torn \/ jpc \notin {"idle", "halt"})
  /\ UNCHANGED <<ring, linux, pending, jrt, hist, loads>>

ipc_init ==
  /\ \/ load = "head" /\ load' = "tail" /\ loads' = loads + 1
        /\ head' = 0 /\ UNCHANGED <<tail, flags>>
     \/ load = "tail" /\ load' = "flags"
        /\ tail' = 0 /\ UNCHANGED <<head, flags, loads>>
     \/ load = "flags" /\ load' = "done"
        /\ flags' = [i \in Slots |-> 0] /\ UNCHANGED <<head, tail, loads>>
  /\ UNCHANGED <<data, linux, pending, jrt, hist, torn>>

Next ==
  \/ rtcore_init \/ ipc_init
  \/ \E p \in Producers : rtcore_sched_prog(p) \/ Producer(p)
  \/ IrqEntry
  \/ ipc_sched

Spec == Init /\ [][Next]_vars

(* A task in the ioctl runs on, the mutex is fair among the tasks that     *)
(* wait for it, a pending interrupt is taken and its handler runs on.      *)
(* Linux need not send anything.                                           *)
Fairness ==
  /\ \A p \in Producers : SF_vars(mutex_lock(p)) /\ WF_vars(Producer(p))
  /\ WF_vars(IrqEntry)
  /\ WF_vars(ipc_sched)
  /\ WF_vars(ipc_init)

FairSpec == Spec /\ Fairness

-----------------------------------------------------------------------------
(* Properties.                                                             *)

(* Every variable has its type, and the lock is held by the producer that  *)
(* is past mutex_lock.                                                     *)
TypeOK ==
  /\ head \in 0 .. RANGE - 1 /\ tail \in 0 .. RANGE - 1 /\ tkt \in 0 .. RANGE - 1
  /\ flags \in [Slots -> {0, 1}]
  /\ data \in [Slots -> Recs \cup {NoRec}]
  /\ ppc \in [Producers -> {"user", "lock", "claim", "spin", "copy", "post",
                            "poke", "late", "unlock"}]
  /\ lock = {p \in Producers : ppc[p] \notin {"user", "lock"}}
  /\ Cardinality(lock) <= 1
  /\ pending \in BOOLEAN
  /\ jpc \in {"idle", "flag", "copy", "clear", "tail", "req", "halt"}
  /\ budget \in 0 .. IPC_BUDGET
  /\ out \in Recs \cup {NoRec}
  /\ last \in {"empty", "budget"} /\ early \in BOOLEAN
  /\ load \in {"done", "head", "tail", "flags"} /\ loads \in 0 .. MAX_LOADS
  /\ torn \in BOOLEAN

Full == Cardinality({i \in Slots : flags[i] = 1})
Claimed == {p \in Producers : ppc[p] \in {"spin", "copy", "post", "late"}}

(* mailbox.h: head is the next ticket to claim, tail is the next slot the  *)
(* consumer reads, and flags tell full from empty.  The three agree: the   *)
(* tickets from tail to head are those of the full slots, one that a       *)
(* producer has yet to publish, and one that the consumer is letting go.   *)
(* They agree again after ipc_init, unless it ran on a ring in use.        *)
TicketsMatch ==
  ~torn /\ load = "done" => (head - tail) % RANGE
    = Full + Cardinality(Claimed) + (IF jpc = "tail" THEN 1 ELSE 0)

(* A request is in the queue from the store of its flag until the consumer *)
(* has copied it.                                                          *)
Queue ==
  LET copied == jpc = "clear"
      start == IF copied \/ jpc = "tail" THEN tail + 1 ELSE tail
  IN  IF load \in {"tail", "flags"} THEN <<>>
      ELSE [i \in 1 .. Full - (IF copied THEN 1 ELSE 0) |-> data[idx(start + i - 1)]]
Q == INSTANCE Fifo WITH q <- Queue, taken <- out, cleared <- loads, broken <- torn

(* mpsc_push and mpsc_pop implement the queue: no request is lost, seen    *)
(* twice, torn or overtaken, also when the tickets wrap and when the ring  *)
(* is full and a producer waits in its slot.  Requests get lost only where *)
(* ipc_init resets the ring, and then all of them, unless it is in use.    *)
RefinesFifo == Q!Spec

(* What can leave a request in the ring with nobody about to look for it:  *)
(* only the budget of ipc_sched, a poke that overtook its flag, or a reset *)
(* of the ring in use.                                                     *)
StrandedOnlyBy ==
  /\ jpc = "idle" /\ ~pending
  /\ \A p \in Producers : ppc[p] \in {"user", "lock", "unlock"}
  /\ Full > 0
  => last = "budget" \/ early \/ torn \/ load # "done"

=============================================================================
