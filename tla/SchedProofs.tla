----------------------------- MODULE SchedProofs -----------------------------
(***************************************************************************)
(* Proofs about the scheduler, for every number of slots, size of heap,    *)
(* set of deadlines and waits, and width of the counter; and about the     *)
(* character device of the Linux module, through which programs come to    *)
(* it: where the windows and the images lie and what the cache maintenance *)
(* covers, for any number of tasks, mappings and module loads, and any     *)
(* sizes.                                                                  *)
(***************************************************************************)
EXTENDS Sched, Rtcore, FiniteSetTheorems, TLAPS

(* What the proofs need of a heap: finitely many nodes, as many as its     *)
(* length says, and at most one for each process.                          *)
QueueOK(h) ==
  /\ h.a \subseteq HeapNode(Pids)
  /\ IsFiniteSet(h.a)
  /\ h.len = Cardinality(h.a)
  /\ \A m, n \in h.a : m.val = n.val => m = n

(* heap_push of a process that is not in the heap.                         *)
LEMMA PushOK ==
  ASSUME NEW h, QueueOK(h), NEW k \in Nat, NEW v \in Pids, v \notin Vals(h)
  PROVE  /\ QueueOK(heap_push(h, k, v))
         /\ Vals(heap_push(h, k, v)) = Vals(h) \cup {v}
         /\ heap_push(h, k, v).len = h.len + 1
<1> DEFINE e == [key |-> k, val |-> v]
<1>1. e \notin h.a
  BY DEF Vals
<1>2. /\ IsFiniteSet(h.a \cup {e})
      /\ Cardinality(h.a \cup {e}) = Cardinality(h.a) + 1
  BY <1>1, FS_AddElement, Zenon DEF QueueOK
<1>3. QueueOK(heap_push(h, k, v))
  BY <1>2 DEF QueueOK, heap_push, HeapNode, Vals
<1>4. Vals(heap_push(h, k, v)) = Vals(h) \cup {v}
  <2>1. heap_push(h, k, v).a = h.a \cup {e} /\ e.val = v
    BY Zenon DEF heap_push
  <2> HIDE DEF e
  <2> QED
    BY <2>1, Zenon DEF Vals
<1> QED
  BY <1>3, <1>4, Zenon DEF heap_push

(* heap_pop of a node that is in the heap.                                 *)
LEMMA PopOK ==
  ASSUME NEW h, QueueOK(h), NEW n \in h.a
  PROVE  /\ QueueOK(heap_pop(h, n))
         /\ Vals(heap_pop(h, n)) = Vals(h) \ {n.val}
         /\ n.val \in Pids /\ n.val \in Vals(h) /\ n.key \in Nat
         /\ h.len \in Nat \ {0}
         /\ heap_pop(h, n).len = h.len - 1
<1>1. /\ IsFiniteSet(h.a \ {n})
      /\ Cardinality(h.a \ {n}) = Cardinality(h.a) - 1
  BY FS_RemoveElement, Zenon DEF QueueOK
<1>2. Cardinality(h.a) \in Nat /\ Cardinality(h.a) # 0
  BY FS_CardinalityType, FS_EmptySet, Zenon DEF QueueOK
<1>3. QueueOK(heap_pop(h, n))
  BY <1>1, <1>2, Zenon DEF QueueOK, heap_pop
<1>4. Vals(heap_pop(h, n)) = Vals(h) \ {n.val}
  BY Zenon DEF Vals, heap_pop, QueueOK
<1> QED
  BY <1>2, <1>3, <1>4, Zenon DEF heap_pop, QueueOK, HeapNode, Vals

(* The length word tells whether the heap is empty.                        *)
LEMMA EmptyOK ==
  ASSUME NEW h, QueueOK(h)
  PROVE  heap_empty(h) <=> h.a = {}
BY FS_EmptySet, Zenon DEF QueueOK, heap_empty

-----------------------------------------------------------------------------
(* The parts of the inductive invariant.                                   *)

(* The slots are shared out between the stack F, the ready heap R, the     *)
(* waiting heap W and the current process c.                               *)
Part(F, R, W, c) ==
  /\ F \cup R \cup W \cup ({c} \ {p0}) = Pids
  /\ F \cap R = {} /\ F \cap W = {} /\ R \cap W = {}
  /\ c \notin F \cup R \cup W

(* The slots on a stack, and that none is on it twice.                     *)
Elems(s) == {s[i] : i \in 1 .. Len(s)}
NoDup(s) == \A i, j \in 1 .. Len(s) : s[i] = s[j] => i = j

ReadyKeys(h, procs) == \A n \in h.a : n.key = procs[n.val].eff_deadline
WaitKeys(h, procs) == \A n \in h.a : n.key = procs[n.val].wait_until

(* A slot p leaves the stack, and the ready heap and the core share it and *)
(* what they had in another way.                                           *)
LEMMA PartStart ==
  ASSUME NEW F, NEW R, NEW W, NEW c, NEW p \in F, NEW R2, NEW c2,
         Part(F, R, W, c), c2 \notin R2,
         R2 \cup ({c2} \ {p0}) = R \cup {p} \cup ({c} \ {p0})
  PROVE  Part(F \ {p}, R2, W, c2)
BY DEF Part, Pids, p0

(* A waiter p leaves the waiting heap, likewise.                           *)
LEMMA PartWake ==
  ASSUME NEW F, NEW R, NEW W, NEW c, NEW p \in W, NEW R2, NEW c2,
         Part(F, R, W, c), c2 \notin R2,
         R2 \cup ({c2} \ {p0}) = R \cup {p} \cup ({c} \ {p0})
  PROVE  Part(F, R2, W \ {p}, c2)
BY DEF Part, Pids, p0

(* The current process leaves the core for the stack, or the waiting heap. *)
LEMMA PartLeave ==
  ASSUME NEW F, NEW R, NEW W, NEW c, NEW R2, NEW c2,
         Part(F, R, W, c), c # p0, c2 \notin R2,
         R2 \cup ({c2} \ {p0}) = R
  PROVE  Part(F \cup {c}, R2, W, c2) /\ Part(F, R2, W \cup {c}, c2)
BY DEF Part, Pids, p0

(* The invariant of sched_t ...                                            *)
ScInv ==
  /\ proc \in [0 .. MAX_PROC -> Process]
  /\ free_proc \in Seq(Pids) /\ NoDup(free_proc)
  /\ QueueOK(ready) /\ ready.len <= READY_MAX
  /\ QueueOK(waiting) /\ waiting.len <= READY_MAX
  /\ curr \in 0 .. MAX_PROC
  /\ Part(FreePids, Vals(ready), Vals(waiting), curr)
  /\ CopiesAgree
  /\ EDF

(* ... and of the rest.                                                    *)
RegInv ==
  /\ now \in 0 .. MaxTime /\ cval \in Nat /\ enable \in BOOLEAN
  /\ handler \in Handler /\ budget \in 0 .. IPC_BUDGET /\ dl \in Nat
  /\ halt \in Halt

IInv == ScInv /\ RegInv

(* The invariant implies the property the runs check.                      *)
LEMMA IInvImplies ==
  IInv => TypeOK /\ EDF /\ SlotsPartitioned /\ CopiesAgree
<1> SUFFICES ASSUME IInv
             PROVE  TypeOK /\ EDF /\ SlotsPartitioned /\ CopiesAgree
  BY Zenon
<1>1. ready.len \in Nat /\ waiting.len \in Nat
  BY FS_CardinalityType, Zenon DEF IInv, ScInv, QueueOK
<1>2. TypeOK
  BY <1>1, SchedAssumption DEF IInv, ScInv, RegInv, TypeOK, QueueOK, CopiesAgree
<1>3. SlotsPartitioned
  BY Zenon DEF IInv, ScInv, SlotsPartitioned, Part, NoDup, QueueOK
<1> QED
  BY <1>2, <1>3, Zenon DEF IInv, ScInv

(* The fields that sched() and sched_yield() leave alone.                  *)
SameFields(f, g) ==
  \A p \in 0 .. MAX_PROC : /\ f[p].eff_deadline = g[p].eff_deadline
                           /\ f[p].wait_until = g[p].wait_until
                           /\ f[p].mem = g[p].mem

(* Setting the state of one process.                                       *)
LEMMA SetState ==
  ASSUME NEW f \in [0 .. MAX_PROC -> Process],
         NEW p \in 0 .. MAX_PROC, NEW s \in State
  PROVE  /\ [f EXCEPT ![p].state = s] \in [0 .. MAX_PROC -> Process]
         /\ SameFields([f EXCEPT ![p].state = s], f)
BY Zenon DEF Process, SameFields

(* EDF as a statement about the next state.                                *)
LEMMA EDFNext ==
  ASSUME curr' # p0,
         \A p \in Vals(ready') : proc'[curr'].eff_deadline <= proc'[p].eff_deadline
  PROVE  EDF'
BY Zenon DEF EDF, p0

(* What a change of the current process means when nobody yields: whoever  *)
(* has the core now is due before the one that had it, whose deadline is   *)
(* in the table f, and who is ready.                                       *)
Preempted(f) ==
  curr # p0 /\ curr' # curr
    => /\ curr' # p0
       /\ proc'[curr'].eff_deadline < f[curr].eff_deadline
       /\ curr \in Vals(ready')

(* sched() keeps the heap and its keys in order, moves processes only      *)
(* between the heap and the core, and leaves the earliest deadline on the  *)
(* core, whatever was there before.                                        *)
LEMMA SchedStep ==
  ASSUME NEW procs \in [0 .. MAX_PROC -> Process],
         NEW r, QueueOK(r), ReadyKeys(r, procs),
         curr \in 0 .. MAX_PROC, pid = curr, curr \notin Vals(r),
         sched(procs, r)
  PROVE  /\ proc' \in [0 .. MAX_PROC -> Process]
         /\ SameFields(proc', procs)
         /\ QueueOK(ready') /\ ReadyKeys(ready', proc')
         /\ ready'.len <= r.len
         /\ curr' \in Pids \cup {curr} /\ pid' = curr'
         /\ curr' \notin Vals(ready')
         /\ Vals(ready') \cup ({curr'} \ {p0}) = Vals(r) \cup ({curr} \ {p0})
         /\ EDF'
         /\ Preempted(procs)
<1> USE SchedAssumption
<1>1. PICK n \in Minima(r) :
         IF Preempts(procs, n)
         THEN LET c == IF curr = p0 THEN p0 ELSE pid
                  popped == heap_pop(r, n)
              IN  /\ proc' = [procs EXCEPT ![n.val].state = "RUNNING",
                                           ![c].state = "READY"]
                  /\ ready' = IF curr = p0 THEN popped
                              ELSE sched_ready_proc(procs, popped, c)
                  /\ sched_switch_irq(n.val)
         ELSE /\ proc' = procs
              /\ ready' = r
              /\ UNCHANGED <<curr, pid>>
  BY Zenon DEF sched
<1>2. n \in r.a /\ \A m \in r.a : n.key <= m.key
  BY Zenon DEF Minima
<1> DEFINE popped == heap_pop(r, n)
<1>3. /\ QueueOK(popped) /\ Vals(popped) = Vals(r) \ {n.val}
      /\ n.val \in Pids /\ n.val \in Vals(r) /\ n.key \in Nat
      /\ r.len \in Nat \ {0} /\ popped.len = r.len - 1
  BY <1>2, PopOK, Zenon
<1>4. n.key = procs[n.val].eff_deadline
  BY <1>2, Zenon DEF ReadyKeys
<1>5. CASE ~Preempts(procs, n)
  <2>1. proc' = procs /\ ready' = r /\ curr' = curr /\ pid' = pid
    BY <1>1, <1>5, Zenon
  <2>2. curr # p0 /\ procs[curr].eff_deadline <= n.key /\ procs[curr].eff_deadline \in Nat
    BY <1>3, <1>5 DEF Preempts, Process, p0
  <2>3. EDF'
    <3>1. \A p \in Vals(r) : procs[curr].eff_deadline <= procs[p].eff_deadline
      BY <1>2, <1>3, <2>2 DEF Vals, ReadyKeys, QueueOK, HeapNode
    <3> QED
      BY <3>1, <2>1, <2>2, EDFNext, Zenon
  <2> QED
    BY <1>3, <2>1, <2>3, <2>2 DEF SameFields, QueueOK, Preempted
<1>6. CASE Preempts(procs, n)
  <2> DEFINE c == curr
  <2>1. /\ proc' = [procs EXCEPT ![n.val].state = "RUNNING", ![c].state = "READY"]
        /\ ready' = IF curr = p0 THEN popped ELSE sched_ready_proc(procs, popped, c)
        /\ curr' = n.val /\ pid' = n.val
    BY <1>1, <1>6, Zenon DEF sched_switch_irq, p0
  <2>a. curr' = n.val /\ pid' = n.val /\ curr' # p0
    BY <2>1, <1>3 DEF Pids, p0
  <2>2. /\ proc' \in [0 .. MAX_PROC -> Process]
        /\ SameFields(proc', procs)
    <3> DEFINE q == [procs EXCEPT ![n.val].state = "RUNNING"]
    <3>1. n.val \in 0 .. MAX_PROC /\ {"RUNNING", "READY"} \subseteq State
      BY <1>3 DEF Pids, State
    <3>2. q \in [0 .. MAX_PROC -> Process] /\ SameFields(q, procs)
      BY <3>1, SetState, Zenon
    <3>3. proc' = [q EXCEPT ![c].state = "READY"]
      BY <2>1, Zenon
    <3> HIDE DEF q
    <3>4. proc' \in [0 .. MAX_PROC -> Process] /\ SameFields(proc', q)
      BY <3>1, <3>2, <3>3, SetState, Zenon
    <3> QED
      BY <3>2, <3>4, Zenon DEF SameFields
  <2>3. CASE curr = p0
    <3>1. ready' = popped /\ ready'.a = r.a \ {n}
      BY <2>1, <2>3, Zenon DEF heap_pop
    <3>2. ReadyKeys(ready', proc')
      BY <3>1, <2>2, <1>2 DEF ReadyKeys, QueueOK, HeapNode, Pids, SameFields
    <3>3. EDF'
      <4>1. \A p \in Vals(ready') : p \in Pids /\ n.key <= procs[p].eff_deadline
        BY <3>1, <1>2, <1>3 DEF Vals, ReadyKeys, QueueOK, HeapNode
      <4>2. \A p \in Vals(ready') : proc'[curr'].eff_deadline <= proc'[p].eff_deadline
        <5>1. proc'[curr'].eff_deadline = n.key
          BY <2>a, <2>2, <1>3, <1>4 DEF SameFields, Pids
        <5>2. \A p \in Pids : proc'[p].eff_deadline = procs[p].eff_deadline
          BY <2>2 DEF SameFields, Pids
        <5> QED
          BY <4>1, <5>1, <5>2, Zenon
      <4> QED
        BY <4>2, <2>a, EDFNext, Zenon
    <3> QED
      <4>1. Vals(ready') \cup ({curr'} \ {p0}) = Vals(r) \cup ({curr} \ {p0})
        BY <3>1, <2>1, <2>3, <1>3, Zenon DEF Pids, p0
      <4> QED
        BY <4>1, <3>1, <3>2, <3>3, <2>3, <2>a, <2>2, <1>3 DEF Preempted
  <2>4. CASE curr # p0
    <3>1. curr \in Pids /\ procs[curr].eff_deadline \in Nat /\ curr \notin Vals(popped)
      BY <2>4, <1>3 DEF Pids, p0, Process
    <3>2. /\ ready' = heap_push(popped, procs[curr].eff_deadline, curr)
          /\ ready'.a = (r.a \ {n}) \cup {[key |-> procs[curr].eff_deadline, val |-> curr]}
      BY <2>1, <2>4, Zenon DEF sched_ready_proc, heap_push, heap_pop
    <3>3. /\ QueueOK(ready') /\ Vals(ready') = Vals(popped) \cup {curr}
          /\ ready'.len = popped.len + 1
      BY <3>1, <3>2, <1>3, PushOK
    <3>4. ReadyKeys(ready', proc')
      BY <3>1, <3>2, <2>2, <1>2 DEF ReadyKeys, QueueOK, HeapNode, Pids, SameFields
    <3>5. n.key < procs[curr].eff_deadline
      BY <1>3, <1>6, <2>4, <3>1, Zenon DEF Preempts
    <3>6. EDF'
      <4>1. \A p \in Vals(ready') : p \in Pids /\ n.key <= procs[p].eff_deadline
        BY <3>1, <3>2, <3>5, <1>2, <1>3 DEF Vals, ReadyKeys, QueueOK, HeapNode
      <4>2. \A p \in Vals(ready') : proc'[curr'].eff_deadline <= proc'[p].eff_deadline
        <5>1. proc'[curr'].eff_deadline = n.key
          BY <2>a, <2>2, <1>3, <1>4 DEF SameFields, Pids
        <5>2. \A p \in Pids : proc'[p].eff_deadline = procs[p].eff_deadline
          BY <2>2 DEF SameFields, Pids
        <5> QED
          BY <4>1, <5>1, <5>2, Zenon
      <4> QED
        BY <4>2, <2>a, EDFNext, Zenon
    <3> QED
      <4>1. Vals(ready') \cup ({curr'} \ {p0}) = Vals(r) \cup ({curr} \ {p0})
        BY <3>3, <2>1, <2>4, <1>3 DEF Pids, p0
      <4>2. curr' \notin Vals(ready')
        BY <3>3, <2>1, <1>3, Zenon
      <4>3. Preempted(procs)
        <5>1. proc'[curr'].eff_deadline = n.key
          BY <2>a, <2>2, <1>3, <1>4 DEF SameFields, Pids
        <5> QED
          BY <5>1, <3>3, <3>5, <2>a, Zenon DEF Preempted
      <4> QED
        BY <4>1, <4>2, <4>3, <3>3, <3>4, <3>6, <2>a, <2>2, <1>3
  <2> QED
    BY <2>3, <2>4, Zenon
<1> QED
  BY <1>5, <1>6, Zenon

-----------------------------------------------------------------------------
(* The stack of unused slots.                                              *)

(* sched_alloc_proc takes the top of the stack away.                       *)
LEMMA FreePop ==
  ASSUME NEW s \in Seq(Pids), NoDup(s), s # <<>>,
         NEW t, t = SubSeq(s, 1, Len(s) - 1)
  PROVE  /\ t \in Seq(Pids) /\ NoDup(t)
         /\ s[Len(s)] \in Pids
         /\ Elems(t) = Elems(s) \ {s[Len(s)]}
         /\ s[Len(s)] \in Elems(s)
<1>1. Len(s) \in Nat \ {0} /\ \A i \in 1 .. Len(s) : s[i] \in Pids
  OBVIOUS
<1>2. t \in Seq(Pids) /\ Len(t) = Len(s) - 1 /\ \A i \in 1 .. Len(s) - 1 : t[i] = s[i]
  <2>1. Len(t) = Len(s) - 1
    <3>1. CASE Len(s) = 1
      BY <3>1
    <3>2. CASE Len(s) # 1
      <4>1. \A m \in Nat \ {0} : m # 1 => m - 1 \in Nat /\ 1 <= m - 1
        OBVIOUS
      <4>2. Len(s) - 1 \in Nat /\ 1 <= Len(s) - 1
        BY <1>1, <3>2, <4>1, Zenon
      <4> QED
        BY <4>2
    <3> QED
      BY <3>1, <3>2, Zenon
  <2>2. \A i \in 1 .. Len(s) - 1 : t[i] = s[i]
    BY <1>1
  <2>3. t \in Seq(Pids)
    BY <1>1
  <2> QED
    BY <2>1, <2>2, <2>3, Zenon
<1>3. NoDup(t)
  BY <1>1, <1>2 DEF NoDup
<1>4. Elems(t) = Elems(s) \ {s[Len(s)]}
  BY <1>1, <1>2 DEF NoDup, Elems
<1>5. s[Len(s)] \in Elems(s)
  BY <1>1 DEF Elems
<1> QED
  BY <1>1, <1>2, <1>3, <1>4, <1>5

(* sched_free_proc puts a slot on top that was not on the stack.           *)
LEMMA FreePush ==
  ASSUME NEW s \in Seq(Pids), NoDup(s), NEW p \in Pids,
         p \notin Elems(s), NEW t, t = Append(s, p)
  PROVE  t \in Seq(Pids) /\ NoDup(t) /\ Elems(t) = Elems(s) \cup {p}
<1>1. Len(s) \in Nat
  OBVIOUS
<1>2. /\ t \in Seq(Pids) /\ Len(t) = Len(s) + 1 /\ t[Len(s) + 1] = p
      /\ \A i \in 1 .. Len(s) : t[i] = s[i]
  OBVIOUS
<1>3. NoDup(t)
  BY <1>1, <1>2 DEF NoDup, Elems
<1>4. Elems(t) = Elems(s) \cup {p}
  BY <1>1, <1>2 DEF Elems
<1> QED
  BY <1>2, <1>3, <1>4, Zenon

(* sched_yield() takes a least deadline off the ready heap, or p0.         *)
LEMMA YieldStep ==
  ASSUME ScInv, NEW y \in Yielded
  PROVE  /\ y.p \in 0 .. MAX_PROC
         /\ QueueOK(y.ready) /\ y.ready.len <= ready.len
         /\ y.p \notin Vals(y.ready)
         /\ Vals(y.ready) \cup ({y.p} \ {p0}) = Vals(ready)
         /\ ReadyKeys(y.ready, proc)
         /\ IF y.p = p0 THEN y.ready.a = {}
            ELSE \A p \in Vals(y.ready) : proc[y.p].eff_deadline <= proc[p].eff_deadline
<1> USE SchedAssumption
<1>0. QueueOK(ready) /\ ReadyKeys(ready, proc)
  BY Zenon DEF ScInv, CopiesAgree, ReadyKeys
<1>1. CASE heap_empty(ready)
  <2>1. y.p = p0 /\ y.ready = ready /\ ready.a = {}
    BY <1>0, <1>1, EmptyOK DEF Yielded
  <2>2. Vals(ready) = {}
    BY <2>1, Zenon DEF Vals
  <2>3. ready.len <= ready.len
    BY FS_CardinalityType, <1>0 DEF QueueOK
  <2> QED
    BY <1>0, <2>1, <2>2, <2>3 DEF p0
<1>2. CASE ~heap_empty(ready)
  <2>1. PICK n \in Minima(ready) : y = [p |-> n.val, ready |-> heap_pop(ready, n)]
    BY <1>2, Zenon DEF Yielded
  <2>2. n \in ready.a /\ \A m \in ready.a : n.key <= m.key
    BY Zenon DEF Minima
  <2>3. /\ QueueOK(y.ready) /\ Vals(y.ready) = Vals(ready) \ {n.val}
        /\ n.val \in Pids /\ n.val \in Vals(ready)
        /\ ready.len \in Nat \ {0} /\ y.ready.len = ready.len - 1
    BY <1>0, <2>1, <2>2, PopOK, Zenon
  <2>4. y.p = n.val /\ y.ready.a = ready.a \ {n}
    BY <2>1, Zenon DEF heap_pop
  <2>5. ReadyKeys(y.ready, proc)
    BY <1>0, <2>4, Zenon DEF ReadyKeys
  <2>6. \A p \in Vals(y.ready) : proc[y.p].eff_deadline <= proc[p].eff_deadline
    BY <1>0, <2>2, <2>4, Zenon DEF Vals, ReadyKeys
  <2> QED
    BY <2>3, <2>4, <2>5, <2>6 DEF Pids, p0
<1> QED
  BY <1>1, <1>2, Zenon

-----------------------------------------------------------------------------
(* Each operation preserves the invariant of sched_t.                      *)

(* A step that leaves sched_t alone.                                       *)
LEMMA ScUnchanged ==
  ASSUME ScInv, UNCHANGED sc
  PROVE  ScInv'
BY Zenon DEF ScInv, sc, FreePids, CopiesAgree, EDF

(* sched_init.                                                             *)
LEMMA InitScInv ==
  ASSUME Init
  PROVE  ScInv
<1> USE SchedAssumption
<1>1. proc \in [0 .. MAX_PROC -> Process]
  BY Zenon DEF Init, Process, State
<1>2. /\ free_proc \in Seq(Pids) /\ NoDup(free_proc)
      /\ Len(free_proc) = MAX_PROC /\ \A i \in Pids : free_proc[i] = i
  BY DEF Init, Pids, NoDup
<1>3. FreePids = Pids
  BY <1>2, Zenon DEF FreePids, Pids
<1>4. /\ QueueOK(heap_init) /\ heap_init.len = 0
      /\ heap_init.a = {} /\ Vals(heap_init) = {}
  BY FS_EmptySet, Zenon DEF QueueOK, heap_init, Vals
<1>5. ready = heap_init /\ waiting = heap_init /\ curr = p0 /\ pid = p0
  BY Zenon DEF Init
<1>6. Part(FreePids, Vals(ready), Vals(waiting), curr)
  BY <1>3, <1>4, <1>5 DEF Part, Pids, p0
<1>7. CopiesAgree /\ EDF
  BY <1>4, <1>5, Zenon DEF CopiesAgree, EDF
<1> QED
  BY <1>1, <1>2, <1>4, <1>5, <1>6, <1>7 DEF ScInv, p0

(* schedule_req and spawn, from sched_new_proc on.                         *)
LEMMA StartStep ==
  ASSUME ScInv, NEW deadline \in Nat, NEW mem \in BOOLEAN,
         StartProc(deadline, mem)
  PROVE  /\ ScInv' /\ Preempted(proc)
         /\ UNCHANGED <<now, timer>> /\ halt' \in Halt \cup {halt}
<1> USE SchedAssumption
<1>1. CASE halt' \in {"ENOMEM", "EASSERT"} /\ UNCHANGED <<sc, now, timer>>
  BY <1>1, ScUnchanged, Zenon DEF Halt, sc, Preempted
<1> DEFINE procs == sched_new_proc(deadline, mem)
           p == NewPid
           r == sched_ready_proc(procs, ready, p)
<1>2. CASE /\ free_proc # <<>>
           /\ ~heap_full(ready, READY_MAX)
           /\ sched(procs, r)
           /\ free_proc' = SubSeq(free_proc, 1, Len(free_proc) - 1)
           /\ UNCHANGED <<waiting, now, timer, halt>>
  <2>1. /\ free_proc' \in Seq(Pids) /\ NoDup(free_proc')
        /\ p \in Pids /\ p \in FreePids /\ FreePids' = FreePids \ {p}
    <3>1. free_proc \in Seq(Pids) /\ NoDup(free_proc)
      BY Zenon DEF ScInv
    <3>2. /\ free_proc' \in Seq(Pids) /\ NoDup(free_proc')
          /\ free_proc[Len(free_proc)] \in Pids
          /\ Elems(free_proc') = Elems(free_proc) \ {free_proc[Len(free_proc)]}
          /\ free_proc[Len(free_proc)] \in Elems(free_proc)
      BY <1>2, <3>1, FreePop, Zenon
    <3> QED
      BY <3>2, Zenon DEF NewPid, FreePids, Elems
  <2>2. /\ p \notin Vals(ready) /\ p \notin Vals(waiting) /\ p # curr
    BY <2>1, Zenon DEF ScInv, Part
  <2>3. /\ procs \in [0 .. MAX_PROC -> Process]
        /\ procs[p].eff_deadline = deadline
        /\ \A q \in 0 .. MAX_PROC : q # p => procs[q] = proc[q]
        /\ procs[p].wait_until = proc[p].wait_until
    <3>1. proc \in [0 .. MAX_PROC -> Process] /\ p \in 0 .. MAX_PROC
      BY <2>1 DEF ScInv, Pids
    <3>2. procs = [proc EXCEPT ![p] = [@ EXCEPT !.state = "READY",
                                                !.eff_deadline = deadline,
                                                !.mem = mem]]
      BY <3>1, Zenon DEF sched_new_proc, Process
    <3> HIDE DEF procs, p
    <3> QED
      BY <3>1, <3>2, Zenon DEF Process, State
  <2> HIDE DEF procs, p
  <2>4. /\ r = heap_push(ready, deadline, p)
        /\ r.a = ready.a \cup {[key |-> deadline, val |-> p]}
    BY <2>3, Zenon DEF sched_ready_proc, heap_push
  <2>5. /\ QueueOK(r) /\ Vals(r) = Vals(ready) \cup {p}
        /\ r.len = ready.len + 1
    BY <2>1, <2>2, <2>4, PushOK DEF ScInv
  <2>6. r.len <= READY_MAX
    <3>1. ready.len \in Nat /\ ready.len <= READY_MAX
      BY FS_CardinalityType, Zenon DEF ScInv, QueueOK
    <3> QED
      BY <1>2, <2>5, <3>1 DEF heap_full
  <2>7. ReadyKeys(r, procs)
    <3>1. \A n \in ready.a : /\ n.key = proc[n.val].eff_deadline
                             /\ n.val \in Pids /\ n.val # p
      BY <2>2, Zenon DEF ScInv, CopiesAgree, QueueOK, HeapNode, Vals
    <3> QED
      BY <3>1, <2>3, <2>4 DEF ReadyKeys, Pids
  <2>8. curr \in 0 .. MAX_PROC /\ pid = curr /\ curr \notin Vals(r)
    BY <2>2, <2>5, Zenon DEF ScInv, CopiesAgree, Part
  <2> HIDE DEF r
  <2>9. /\ proc' \in [0 .. MAX_PROC -> Process] /\ SameFields(proc', procs)
        /\ QueueOK(ready') /\ ReadyKeys(ready', proc')
        /\ ready'.len <= r.len
        /\ curr' \in Pids \cup {curr} /\ pid' = curr'
        /\ curr' \notin Vals(ready')
        /\ Vals(ready') \cup ({curr'} \ {p0}) = Vals(r) \cup ({curr} \ {p0})
        /\ EDF' /\ Preempted(procs)
    BY <1>2, <2>3, <2>5, <2>7, <2>8, SchedStep, Zenon
  <2>10. Part(FreePids', Vals(ready'), Vals(waiting'), curr')
    <3>1. waiting' = waiting
      BY <1>2, Zenon
    <3>2. Part(FreePids, Vals(ready), Vals(waiting), curr)
      BY Zenon DEF ScInv
    <3> QED
      BY <3>1, <3>2, <2>1, <2>5, <2>9, PartStart, Zenon
  <2>11. CopiesAgree'
    <3>1. \A n \in waiting.a : /\ n.key = proc[n.val].wait_until
                               /\ n.val \in 0 .. MAX_PROC
      BY DEF ScInv, CopiesAgree, QueueOK, HeapNode, Pids
    <3>2. \A n \in waiting.a : n.key = proc'[n.val].wait_until
      BY <3>1, <2>3, <2>9 DEF SameFields
    <3> QED
      BY <3>2, <1>2, <2>9, Zenon DEF CopiesAgree, ReadyKeys
  <2>12. ready'.len <= READY_MAX
    <3>1. ready'.len \in Nat /\ r.len \in Nat
      BY <2>5, <2>9, FS_CardinalityType, Zenon DEF QueueOK
    <3> QED
      BY <3>1, <2>6, <2>9
  <2>13. curr' \in 0 .. MAX_PROC
    BY <2>8, <2>9 DEF Pids
  <2>14. QueueOK(waiting') /\ waiting'.len <= READY_MAX
    BY <1>2, Zenon DEF ScInv
  <2>15. ScInv'
    BY <2>1, <2>9, <2>10, <2>11, <2>12, <2>13, <2>14, Zenon DEF ScInv
  <2>16. Preempted(proc)
    BY <2>2, <2>3, <2>8, <2>9, Zenon DEF Preempted
  <2> QED
    BY <1>2, <2>15, <2>16, Zenon
<1> QED
  BY <1>1, <1>2, Zenon DEF StartProc, KERNEL_PANIC

(* wait_until.                                                             *)
LEMMA WaitStep ==
  ASSUME ScInv, NEW until \in Nat, wait_until(until)
  PROVE  ScInv'
<1> USE SchedAssumption
<1>1. CASE heap_full(waiting, READY_MAX)
  BY <1>1, ScUnchanged, Zenon DEF wait_until, KERNEL_PANIC
<1>2. CASE ~heap_full(waiting, READY_MAX)
  <2>1. PICK y \in Yielded :
          LET procs == [proc EXCEPT ![y.p].state = "RUNNING",
                                    ![pid].wait_until = until,
                                    ![pid].state = "WAITING"]
          IN  /\ proc' = procs
              /\ ready' = y.ready
              /\ sched_switch_irq(y.p)
              /\ waiting' = sched_wait_proc(procs, waiting, pid)
              /\ UNCHANGED free_proc
    BY <1>2, Zenon DEF wait_until
  <2>2. /\ proc' = [proc EXCEPT ![y.p].state = "RUNNING",
                                ![pid].wait_until = until,
                                ![pid].state = "WAITING"]
        /\ ready' = y.ready /\ curr' = y.p /\ pid' = y.p
        /\ waiting' = heap_push(waiting, proc'[pid].wait_until, pid)
        /\ free_proc' = free_proc
    BY <2>1, Zenon DEF sched_switch_irq, sched_wait_proc
  <2>a. ready' = y.ready /\ curr' = y.p /\ pid' = y.p /\ free_proc' = free_proc
    BY <2>2, Zenon
  <2>3. pid = curr /\ curr # p0 /\ curr \in Pids /\ curr \in 0 .. MAX_PROC
    <3>1. curr # p0
      BY Zenon DEF wait_until
    <3>2. pid = curr /\ curr \in 0 .. MAX_PROC
      BY Zenon DEF ScInv, CopiesAgree
    <3> QED
      BY <3>1, <3>2, SMTT(30) DEF Pids, p0
  <2>4. /\ y.p \in 0 .. MAX_PROC
        /\ QueueOK(y.ready) /\ y.ready.len <= ready.len
        /\ y.p \notin Vals(y.ready)
        /\ Vals(y.ready) \cup ({y.p} \ {p0}) = Vals(ready)
        /\ ReadyKeys(y.ready, proc)
        /\ IF y.p = p0 THEN y.ready.a = {}
           ELSE \A p \in Vals(y.ready) : proc[y.p].eff_deadline <= proc[p].eff_deadline
    BY YieldStep, Zenon
  <2>b. QueueOK(y.ready) /\ ReadyKeys(y.ready, proc)
    BY <2>4, Zenon
  <2>c. y.ready.len <= ready.len
    BY <2>4, Zenon
  <2>d. y.p \notin Vals(y.ready) /\ Vals(y.ready) \cup ({y.p} \ {p0}) = Vals(ready)
    BY <2>4, Zenon
  <2>5. /\ proc' \in [0 .. MAX_PROC -> Process]
        /\ \A p \in 0 .. MAX_PROC :
             /\ proc'[p].eff_deadline = proc[p].eff_deadline
             /\ p # pid => proc'[p].wait_until = proc[p].wait_until
        /\ proc'[pid].wait_until = until
    <3> DEFINE q1 == [proc EXCEPT ![y.p].state = "RUNNING"]
               q2 == [q1 EXCEPT ![pid].wait_until = until]
    <3>1. proc \in [0 .. MAX_PROC -> Process]
      BY Zenon DEF ScInv
    <3>2. q1 \in [0 .. MAX_PROC -> Process] /\ SameFields(q1, proc)
      BY <3>1, <2>4, SetState, Zenon DEF State
    <3>3. proc' = [q2 EXCEPT ![pid].state = "WAITING"]
      BY <2>2, Zenon
    <3> HIDE DEF q1
    <3>4. /\ q2 \in [0 .. MAX_PROC -> Process] /\ q2[pid].wait_until = until
          /\ \A p \in 0 .. MAX_PROC :
               /\ q2[p].eff_deadline = q1[p].eff_deadline
               /\ p # pid => q2[p].wait_until = q1[p].wait_until
      BY <3>2, <2>3, Zenon DEF Process
    <3> HIDE DEF q2
    <3>5. proc' \in [0 .. MAX_PROC -> Process] /\ SameFields(proc', q2)
      BY <3>3, <3>4, <2>3, SetState, Zenon DEF State
    <3> QED
      BY <3>2, <3>4, <3>5, <2>3, Zenon DEF SameFields
  <2>6. QueueOK(waiting) /\ curr \notin Vals(waiting)
    BY Zenon DEF ScInv, Part
  <2>7. /\ QueueOK(waiting') /\ Vals(waiting') = Vals(waiting) \cup {curr}
        /\ waiting'.len = waiting.len + 1
    BY <2>2, <2>3, <2>5, <2>6, PushOK
  <2>8. waiting'.len <= READY_MAX /\ ready'.len <= READY_MAX
    <3>1. /\ waiting.len \in Nat /\ waiting.len <= READY_MAX
          /\ ready.len \in Nat /\ ready.len <= READY_MAX
          /\ y.ready.len \in Nat
      BY <2>4, FS_CardinalityType, Zenon DEF ScInv, QueueOK
    <3> QED
      BY <1>2, <2>a, <2>c, <2>7, <3>1 DEF heap_full
  <2>9. Part(FreePids', Vals(ready'), Vals(waiting'), curr')
    <3>1. FreePids' = FreePids
      BY <2>2, Zenon DEF FreePids
    <3>2. Part(FreePids, Vals(ready), Vals(waiting), curr)
      BY Zenon DEF ScInv
    <3>3. Part(FreePids, Vals(y.ready), Vals(waiting) \cup {curr}, y.p)
      BY <3>2, <2>3, <2>d, PartLeave, Zenon
    <3> QED
      BY <3>1, <3>3, <2>a, <2>7, Zenon
  <2>10. CopiesAgree'
    <3>1. \A n \in ready'.a : n.key = proc'[n.val].eff_deadline
      <4>1. \A n \in y.ready.a : n.val \in 0 .. MAX_PROC /\ n.key = proc[n.val].eff_deadline
        BY <2>b DEF ReadyKeys, QueueOK, HeapNode, Pids
      <4> QED
        BY <4>1, <2>a, <2>5, Zenon
    <3>2. waiting'.a = waiting.a \cup {[key |-> until, val |-> curr]}
      BY <2>2, <2>3, <2>5, Zenon DEF heap_push
    <3>3. \A n \in waiting.a : /\ n.key = proc[n.val].wait_until
                               /\ n.val \in 0 .. MAX_PROC /\ n.val # curr
      BY <2>6 DEF ScInv, CopiesAgree, QueueOK, HeapNode, Pids, Vals
    <3>4. \A n \in waiting'.a : n.key = proc'[n.val].wait_until
      BY <3>2, <3>3, <2>3, <2>5
    <3> QED
      BY <3>1, <3>4, <2>2, Zenon DEF CopiesAgree
  <2>11. EDF'
    <3>1. CASE y.p = p0
      BY <3>1, <2>2, <2>4, Zenon DEF EDF
    <3>2. CASE y.p # p0
      <4>1. \A p \in Vals(y.ready) : p \in 0 .. MAX_PROC
        BY <2>4 DEF Vals, QueueOK, HeapNode, Pids
      <4>2. \A p \in Vals(ready') : proc'[curr'].eff_deadline <= proc'[p].eff_deadline
        BY <4>1, <3>2, <2>2, <2>4, <2>5, Zenon
      <4> QED
        BY <4>2, <3>2, <2>2, EDFNext, Zenon
    <3> QED
      BY <3>1, <3>2, Zenon
  <2>12. free_proc' \in Seq(Pids) /\ NoDup(free_proc')
    BY <2>2, Zenon DEF ScInv
  <2>13. QueueOK(ready') /\ curr' \in 0 .. MAX_PROC
    BY <2>2, <2>4, Zenon
  <2> QED
    BY <2>5, <2>7, <2>8, <2>9, <2>10, <2>11, <2>12, <2>13, SMTT(30) DEF ScInv
<1> QED
  BY <1>1, <1>2, Zenon

(* exit.                                                                   *)
LEMMA ExitStep ==
  ASSUME ScInv, exit
  PROVE  ScInv'
<1> USE SchedAssumption
<1>1. CASE UNCHANGED sc
  BY <1>1, ScUnchanged, Zenon
<1>2. CASE \E y \in Yielded :
            /\ proc' = [proc EXCEPT ![y.p].state = "RUNNING",
                                    ![pid].state = "UNUSED"]
            /\ ready' = y.ready
            /\ sched_switch_irq(y.p)
            /\ free_proc' = Append(free_proc, pid)
            /\ UNCHANGED waiting
  <2>1. PICK y \in Yielded :
            /\ proc' = [proc EXCEPT ![y.p].state = "RUNNING",
                                    ![pid].state = "UNUSED"]
            /\ ready' = y.ready
            /\ curr' = y.p /\ pid' = y.p
            /\ free_proc' = Append(free_proc, pid)
            /\ waiting' = waiting
    BY <1>2, Zenon DEF sched_switch_irq
  <2>2. pid = curr /\ curr # p0 /\ curr \in Pids /\ curr \in 0 .. MAX_PROC
    BY DEF ScInv, CopiesAgree, exit, Pids, p0
  <2>3. /\ y.p \in 0 .. MAX_PROC
        /\ QueueOK(y.ready) /\ y.ready.len <= ready.len
        /\ y.p \notin Vals(y.ready)
        /\ Vals(y.ready) \cup ({y.p} \ {p0}) = Vals(ready)
        /\ ReadyKeys(y.ready, proc)
        /\ IF y.p = p0 THEN y.ready.a = {}
           ELSE \A p \in Vals(y.ready) : proc[y.p].eff_deadline <= proc[p].eff_deadline
    BY YieldStep, Zenon
  <2>4. proc' \in [0 .. MAX_PROC -> Process] /\ SameFields(proc', proc)
    <3> DEFINE q == [proc EXCEPT ![y.p].state = "RUNNING"]
    <3>1. proc \in [0 .. MAX_PROC -> Process]
      BY Zenon DEF ScInv
    <3>2. q \in [0 .. MAX_PROC -> Process] /\ SameFields(q, proc)
      BY <3>1, <2>3, SetState, Zenon DEF State
    <3>3. proc' = [q EXCEPT ![pid].state = "UNUSED"]
      BY <2>1, Zenon
    <3> HIDE DEF q
    <3>4. proc' \in [0 .. MAX_PROC -> Process] /\ SameFields(proc', q)
      BY <3>2, <3>3, <2>2, SetState, Zenon DEF State
    <3> QED
      BY <3>2, <3>4, Zenon DEF SameFields
  <2>5. /\ free_proc' \in Seq(Pids) /\ NoDup(free_proc')
        /\ FreePids' = FreePids \cup {curr}
    <3>1. /\ free_proc \in Seq(Pids) /\ NoDup(free_proc)
          /\ curr \notin FreePids /\ FreePids = Elems(free_proc)
      BY Zenon DEF ScInv, Part, FreePids, Elems
    <3>2. /\ free_proc' \in Seq(Pids) /\ NoDup(free_proc')
          /\ Elems(free_proc') = Elems(free_proc) \cup {curr}
      BY <3>1, <2>1, <2>2, FreePush, Zenon
    <3> QED
      BY <3>1, <3>2, Zenon DEF FreePids, Elems
  <2>6. ready'.len <= READY_MAX
    <3>1. ready.len \in Nat /\ ready.len <= READY_MAX /\ y.ready.len \in Nat
      BY <2>3, FS_CardinalityType DEF ScInv, QueueOK
    <3> QED
      BY <2>1, <2>3, <3>1
  <2>7. Part(FreePids', Vals(ready'), Vals(waiting'), curr')
    <3>1. Part(FreePids, Vals(ready), Vals(waiting), curr)
      BY Zenon DEF ScInv
    <3> QED
      BY <3>1, <2>1, <2>2, <2>3, <2>5, PartLeave, Zenon
  <2>8. CopiesAgree'
    <3>1. \A n \in ready'.a : n.key = proc'[n.val].eff_deadline
      <4>1. QueueOK(y.ready) /\ ReadyKeys(y.ready, proc)
        BY <2>3, Zenon
      <4>2. \A n \in y.ready.a : n.val \in 0 .. MAX_PROC /\ n.key = proc[n.val].eff_deadline
        BY <4>1 DEF ReadyKeys, QueueOK, HeapNode, Pids
      <4> QED
        BY <4>2, <2>1, <2>4 DEF SameFields
    <3>2. \A n \in waiting.a : /\ n.key = proc[n.val].wait_until
                               /\ n.val \in 0 .. MAX_PROC
      BY DEF ScInv, CopiesAgree, QueueOK, HeapNode, Pids
    <3>3. \A n \in waiting'.a : n.key = proc'[n.val].wait_until
      BY <3>2, <2>1, <2>4, Zenon DEF SameFields
    <3> QED
      BY <3>1, <3>3, <2>1, Zenon DEF CopiesAgree
  <2>9. EDF'
    <3>1. CASE y.p = p0
      BY <3>1, <2>1, <2>3, Zenon DEF EDF
    <3>2. CASE y.p # p0
      <4>1. \A p \in Vals(y.ready) : p \in 0 .. MAX_PROC
        BY <2>3 DEF Vals, QueueOK, HeapNode, Pids
      <4>2. \A p \in Vals(ready') : proc'[curr'].eff_deadline <= proc'[p].eff_deadline
        BY <4>1, <3>2, <2>1, <2>3, <2>4, Zenon DEF SameFields
      <4> QED
        BY <4>2, <3>2, <2>1, EDFNext, Zenon
    <3> QED
      BY <3>1, <3>2, Zenon
  <2>10. QueueOK(waiting') /\ waiting'.len <= READY_MAX
    BY <2>1, Zenon DEF ScInv
  <2>11. QueueOK(ready') /\ curr' \in 0 .. MAX_PROC
    BY <2>1, <2>3, Zenon
  <2> QED
    BY <2>4, <2>5, <2>6, <2>7, <2>8, <2>9, <2>10, <2>11, Zenon DEF ScInv
<1> QED
  BY <1>1, <1>2, Zenon DEF exit, KERNEL_PANIC

(* One iteration of timer_fn.                                              *)
LEMMA TimerStep ==
  ASSUME ScInv, TimerIter
  PROVE  ScInv' /\ Preempted(proc)
<1> USE SchedAssumption
<1>1. PICK n \in Minima(waiting) :
       LET popped == heap_pop(waiting, n)
       IN  \/ /\ ~Due(n)
              /\ waiting' = sched_wait_proc(proc, popped, n.val)
              /\ UNCHANGED <<proc, free_proc, ready, curr, pid>>
           \/ UNCHANGED sc
           \/ /\ ~heap_full(ready, READY_MAX)
              /\ waiting' = popped
              /\ sched(proc, sched_ready_proc(proc, ready, n.val))
              /\ UNCHANGED free_proc
  BY Zenon DEF TimerIter, KERNEL_PANIC
<1> DEFINE popped == heap_pop(waiting, n)
           p == n.val
<1>2. n \in waiting.a
  BY Zenon DEF Minima
<1>3. /\ QueueOK(waiting) /\ waiting.len <= READY_MAX
      /\ QueueOK(ready) /\ ready.len <= READY_MAX
      /\ proc \in [0 .. MAX_PROC -> Process]
      /\ Part(FreePids, Vals(ready), Vals(waiting), curr)
      /\ pid = curr /\ curr \in 0 .. MAX_PROC
  BY Zenon DEF ScInv, CopiesAgree
<1>4. /\ QueueOK(popped) /\ Vals(popped) = Vals(waiting) \ {p}
      /\ p \in Pids /\ p \in Vals(waiting) /\ n.key \in Nat
      /\ waiting.len \in Nat \ {0} /\ popped.len = waiting.len - 1
  BY <1>2, <1>3, PopOK, Zenon
<1>5. popped.a = waiting.a \ {n}
  BY Zenon DEF heap_pop
<1>6. /\ n.key = proc[p].wait_until
      /\ \A m \in waiting.a : m.key = proc[m.val].wait_until /\ m.val \in 0 .. MAX_PROC
  BY <1>2, <1>3 DEF ScInv, CopiesAgree, QueueOK, HeapNode, Pids
<1>7. CASE /\ waiting' = sched_wait_proc(proc, popped, p)
           /\ UNCHANGED <<proc, free_proc, ready, curr, pid>>
  <2>1. waiting' = heap_push(popped, n.key, p)
    BY <1>6, <1>7, Zenon DEF sched_wait_proc
  <2> HIDE DEF popped
  <2>2. /\ QueueOK(waiting') /\ Vals(waiting') = Vals(popped) \cup {p}
        /\ waiting'.len = popped.len + 1
    BY <1>4, <2>1, PushOK
  <2>3. Vals(waiting') = Vals(waiting)
    BY <1>4, <2>2, Zenon
  <2>4. n = [key |-> n.key, val |-> n.val]
    BY <1>2, <1>3, Zenon DEF QueueOK, HeapNode
  <2>5. waiting'.a = waiting.a
    BY <1>2, <1>5, <2>1, <2>4, Zenon DEF heap_push
  <2>6. waiting'.len = waiting.len
    BY <1>4, <2>2
  <2> QED
    BY <1>7, <2>2, <2>3, <2>5, <2>6, Zenon DEF ScInv, FreePids, CopiesAgree, EDF, Preempted
<1>8. CASE /\ ~heap_full(ready, READY_MAX)
           /\ waiting' = popped
           /\ sched(proc, sched_ready_proc(proc, ready, p))
           /\ UNCHANGED free_proc
  <2> DEFINE r == sched_ready_proc(proc, ready, p)
             d == proc[p].eff_deadline
  <2>1. p \notin Vals(ready) /\ p # curr /\ d \in Nat
    <3> HIDE DEF p
    <3>1. p \notin Vals(ready) /\ p # curr
      BY <1>3, <1>4, Zenon DEF Part
    <3>2. p \in 0 .. MAX_PROC
      BY <1>4 DEF Pids
    <3>3. d \in Nat
      BY <1>3, <3>2, Zenon DEF Process
    <3> QED
      BY <3>1, <3>3, Zenon
  <2>2. r = heap_push(ready, d, p) /\ r.a = ready.a \cup {[key |-> d, val |-> p]}
    BY Zenon DEF sched_ready_proc, heap_push
  <2> HIDE DEF d, popped
  <2>3. QueueOK(r) /\ Vals(r) = Vals(ready) \cup {p} /\ r.len = ready.len + 1
    BY <1>3, <1>4, <2>1, <2>2, PushOK
  <2>4. ready.len \in Nat /\ r.len <= READY_MAX
    <3>1. ready.len \in Nat
      BY <1>3, FS_CardinalityType, Zenon DEF QueueOK
    <3> QED
      BY <1>3, <1>8, <2>3, <3>1 DEF heap_full
  <2>5. ReadyKeys(r, proc)
    <3>1. \A m \in ready.a : m.key = proc[m.val].eff_deadline
      BY Zenon DEF ScInv, CopiesAgree
    <3> QED
      BY <3>1, <2>2 DEF ReadyKeys, d
  <2>6. curr \notin Vals(r)
    BY <1>3, <2>1, <2>3, Zenon DEF Part
  <2>7. sched(proc, r)
    BY <1>8, Zenon
  <2> HIDE DEF r
  <2>8. /\ proc' \in [0 .. MAX_PROC -> Process] /\ SameFields(proc', proc)
        /\ QueueOK(ready') /\ ReadyKeys(ready', proc')
        /\ ready'.len <= r.len
        /\ curr' \in Pids \cup {curr} /\ pid' = curr'
        /\ curr' \notin Vals(ready')
        /\ Vals(ready') \cup ({curr'} \ {p0}) = Vals(r) \cup ({curr} \ {p0})
        /\ EDF' /\ Preempted(proc)
    BY <1>3, <2>3, <2>5, <2>6, <2>7, SchedStep, Zenon
  <2>9. Part(FreePids', Vals(ready'), Vals(waiting'), curr')
    <3>1. FreePids' = FreePids
      BY <1>8, Zenon DEF FreePids
    <3>2. Vals(waiting') = Vals(waiting) \ {p}
      BY <1>4, <1>8, Zenon
    <3>3. Part(FreePids, Vals(ready'), Vals(waiting) \ {p}, curr')
      BY <1>3, <1>4, <2>3, <2>8, PartWake, Zenon
    <3> QED
      BY <3>1, <3>2, <3>3, Zenon
  <2>10. CopiesAgree'
    <3>1. \A m \in waiting.a : m.key = proc'[m.val].wait_until
      BY <1>6, <2>8, Zenon DEF SameFields
    <3> QED
      BY <3>1, <1>5, <1>8, <2>8, Zenon DEF CopiesAgree, ReadyKeys
  <2>11. ready'.len <= READY_MAX
    <3>1. ready'.len \in Nat /\ r.len \in Nat
      BY <2>3, <2>8, FS_CardinalityType, Zenon DEF QueueOK
    <3> QED
      BY <3>1, <2>4, <2>8
  <2>12. QueueOK(waiting') /\ waiting'.len <= READY_MAX
    BY <1>3, <1>4, <1>8
  <2>13. curr' \in 0 .. MAX_PROC
    BY <1>3, <2>8 DEF Pids
  <2>14. free_proc' \in Seq(Pids) /\ NoDup(free_proc')
    BY <1>8, Zenon DEF ScInv
  <2> QED
    BY <2>8, <2>9, <2>10, <2>11, <2>12, <2>13, <2>14, Zenon DEF ScInv
<1>9. CASE UNCHANGED sc
  BY <1>9, ScUnchanged, Zenon DEF sc, Preempted
<1> QED
  BY <1>1, <1>7, <1>8, <1>9, Zenon

-----------------------------------------------------------------------------
(* The registers.                                                          *)

(* Every step keeps the registers and the handlers' locals in their types. *)
LEMMA RegStep ==
  ASSUME IInv, Next
  PROVE  RegInv'
<1> USE SchedAssumption DEF IInv, RegInv, Handler
<1>1. ASSUME NEW until \in Untils, wait_until(until) PROVE RegInv'
  <2>1. /\ now' = now /\ handler' = handler /\ budget' = budget /\ dl' = dl
        /\ halt' \in {halt, "ENOMEM"}
        /\ cval' \in {cval, now + 1, until} /\ enable' \in {enable, TRUE}
    BY <1>1, Zenon DEF wait_until, KERNEL_PANIC, timer_schedule_at_ticks, timer, irq
  <2>2. until \in Nat
    OBVIOUS
  <2>3. cval' \in Nat
    BY <2>1, <2>2
  <2>4. enable' \in BOOLEAN
    BY <2>1, Zenon
  <2> QED
    BY <2>1, <2>3, <2>4, Zenon DEF Halt
<1>2. CASE exit
  BY <1>2, Zenon DEF exit, KERNEL_PANIC, timer, irq, Halt
<1>3. ASSUME NEW deadline \in Deadlines, spawn(deadline) PROVE RegInv'
  <2>1. PICK mem \in BOOLEAN : StartProc(deadline, mem)
    BY <1>3, Zenon DEF spawn
  <2>2. UNCHANGED <<now, timer>> /\ halt' \in Halt \cup {halt}
    BY <2>1, StartStep, Zenon
  <2> QED
    BY <1>3, <2>2, Zenon DEF spawn, timer, irq
<1>4. CASE IpcIrq
  BY <1>4 DEF IpcIrq, timer
<1>5. CASE schedule_req
  <2>1. UNCHANGED <<now, timer>> /\ halt' \in Halt \cup {halt}
    <3>1. CASE KERNEL_PANIC("ENOMEM")
      BY <3>1, Zenon DEF KERNEL_PANIC, Halt
    <3>2. CASE StartProc(0, TRUE)
      BY <3>2, StartStep, Zenon
    <3> QED
      BY <1>5, <3>1, <3>2, Zenon DEF schedule_req
  <2> QED
    BY <1>5, <2>1 DEF schedule_req, timer
<1>6. CASE IpcDone
  BY <1>6 DEF IpcDone, timer
<1>7. CASE TimerIrq
  BY <1>7, Zenon DEF TimerIrq, timer, timer_cancel
<1>8. CASE TimerIter
  <2>1. PICK n \in Minima(waiting) :
          /\ \/ UNCHANGED timer \/ timer_cancel
          /\ handler' \in {"timer", "none", "rearm"}
          /\ dl' \in {dl, n.key}
          /\ halt' \in {halt, "ENOMEM"}
          /\ UNCHANGED <<now, budget>>
    BY <1>8, Zenon DEF TimerIter, KERNEL_PANIC, timer
  <2>2. n.key \in Nat
    BY Zenon DEF Minima, ScInv, QueueOK, HeapNode
  <2> QED
    BY <2>1, <2>2, Zenon DEF timer, timer_cancel, Halt
<1>9. CASE TimerRearm
  BY <1>9 DEF TimerRearm, timer_schedule_at_ticks
<1>10. CASE Tick
  BY <1>10 DEF Tick, timer, irq
<1>11. CASE Halted
  BY <1>11, Zenon DEF Halted, vars, timer, irq
<1> QED
  BY <1>1, <1>2, <1>3, <1>4, <1>5, <1>6, <1>7, <1>8, <1>9, <1>10, <1>11, Zenon DEF Next

(* Every step keeps the invariant of sched_t.                              *)
LEMMA ScStep ==
  ASSUME IInv, Next
  PROVE  ScInv'
<1> USE SchedAssumption DEF IInv
<1>1. ASSUME NEW until \in Untils, wait_until(until) PROVE ScInv'
  BY <1>1, WaitStep
<1>2. CASE exit
  BY <1>2, ExitStep, Zenon
<1>3. ASSUME NEW deadline \in Deadlines, spawn(deadline) PROVE ScInv'
  BY <1>3, StartStep, Zenon DEF spawn
<1>4. CASE IpcIrq
  BY <1>4, ScUnchanged, Zenon DEF IpcIrq
<1>5. CASE schedule_req
  BY <1>5, StartStep, ScUnchanged, Zenon DEF schedule_req, KERNEL_PANIC
<1>6. CASE IpcDone
  BY <1>6, ScUnchanged, Zenon DEF IpcDone
<1>7. CASE TimerIrq
  BY <1>7, ScUnchanged, Zenon DEF TimerIrq
<1>8. CASE TimerIter
  BY <1>8, TimerStep, Zenon
<1>9. CASE TimerRearm
  BY <1>9, ScUnchanged, Zenon DEF TimerRearm
<1>10. CASE Tick
  BY <1>10, ScUnchanged, Zenon DEF Tick
<1>11. CASE Halted
  BY <1>11, ScUnchanged, Zenon DEF Halted, vars
<1> QED
  BY <1>1, <1>2, <1>3, <1>4, <1>5, <1>6, <1>7, <1>8, <1>9, <1>10, <1>11, Zenon DEF Next

-----------------------------------------------------------------------------
(* The theorems.                                                           *)

(* The invariant holds in every reachable state.                           *)
THEOREM Invariance == Spec => []IInv
<1>1. Init => IInv
  <2> SUFFICES ASSUME Init PROVE IInv
    BY Zenon
  <2>1. RegInv
    <3>1. enable \in BOOLEAN
      BY Zenon DEF Init
    <3> QED
      BY <3>1, SchedAssumption DEF Init, RegInv, Handler, Halt
  <2> QED
    BY <2>1, InitScInv, Zenon DEF IInv
<1>2. IInv /\ [Next]_vars => IInv'
  <2> SUFFICES ASSUME IInv, [Next]_vars PROVE IInv'
    BY Zenon
  <2>1. CASE Next
    BY <2>1, RegStep, ScStep, Zenon DEF IInv
  <2>2. CASE UNCHANGED vars
    <3>1. ScInv'
      BY <2>2, ScUnchanged, Zenon DEF IInv, vars
    <3>2. RegInv'
      BY <2>2, Zenon DEF IInv, RegInv, vars, timer, irq
    <3> QED
      BY <3>1, <3>2, Zenon DEF IInv
  <2> QED
    BY <2>1, <2>2, Zenon
<1> QED
  BY <1>1, <1>2, PTL DEF Spec

(* Every variable keeps its type: neither heap outgrows its array.         *)
THEOREM TypeCorrect == Spec => []TypeOK
BY Invariance, IInvImplies, PTL

(* sched() and sched_yield() keep the earliest deadline on the core, and   *)
(* the kernel process runs only when nothing is ready.                     *)
THEOREM EarliestDeadlineFirst == Spec => []EDF
BY Invariance, IInvImplies, PTL

(* No slot is lost, duplicated, or in two places at once.                  *)
THEOREM SlotAccounting == Spec => []SlotsPartitioned
BY Invariance, IInvImplies, PTL

(* sched_t.pid and the keys in the heaps never go stale.                   *)
THEOREM NoStaleCopies == Spec => []CopiesAgree
BY Invariance, IInvImplies, PTL

-----------------------------------------------------------------------------
(* Waking.                                                                 *)

(* What a step may do to the nodes of the waiting heap: nothing, add the   *)
(* caller of wait_until, or take out one that timer_fn found due.          *)
WaitingKept == waiting'.a = waiting.a
WaitingPushed(until) ==
  waiting'.a = waiting.a \cup {[key |-> until, val |-> pid]}
WaitingPopped(n) == waiting'.a = waiting.a \ {n}

(* One iteration of timer_fn puts back the node it popped or takes it out. *)
LEMMA TimerWaiting ==
  ASSUME ScInv, TimerIter
  PROVE  \/ WaitingKept
         \/ \E n \in Minima(waiting) : Due(n) /\ WaitingPopped(n) /\ waiting' = heap_pop(waiting, n)
<1>1. PICK n \in Minima(waiting) :
        \/ waiting' = sched_wait_proc(proc, heap_pop(waiting, n), n.val)
        \/ UNCHANGED waiting
        \/ Due(n) /\ waiting' = heap_pop(waiting, n)
  BY Zenon DEF TimerIter, KERNEL_PANIC, sc
<1>2. n \in waiting.a /\ n.key = proc[n.val].wait_until /\ n = [key |-> n.key, val |-> n.val]
  BY Zenon DEF Minima, ScInv, CopiesAgree, QueueOK, HeapNode
<1>3. CASE waiting' = sched_wait_proc(proc, heap_pop(waiting, n), n.val)
  <2>1. waiting'.a = (waiting.a \ {n}) \cup {n}
    BY <1>2, <1>3, Zenon DEF sched_wait_proc, heap_push, heap_pop
  <2> QED
    BY <1>2, <2>1, Zenon DEF WaitingKept
<1>4. CASE UNCHANGED waiting
  BY <1>4, Zenon DEF WaitingKept
<1>5. CASE Due(n) /\ waiting' = heap_pop(waiting, n)
  BY <1>5, Zenon DEF WaitingPopped, heap_pop
<1> QED
  BY <1>1, <1>3, <1>4, <1>5, Zenon

(* wait_until queues its caller until the time it was given, or panics.    *)
LEMMA WaitWaiting ==
  ASSUME ScInv, NEW until \in Nat, wait_until(until)
  PROVE  \/ UNCHANGED <<waiting, timer>>
         \/ /\ WaitingPushed(until)
            /\ IF FirstDue(until) THEN timer_schedule_at_ticks(until) ELSE UNCHANGED timer
<1>1. CASE heap_full(waiting, READY_MAX)
  BY <1>1, Zenon DEF wait_until, KERNEL_PANIC, sc
<1>2. CASE ~heap_full(waiting, READY_MAX)
  <2>1. PICK y \in Yielded :
          LET procs == [proc EXCEPT ![y.p].state = "RUNNING",
                                    ![pid].wait_until = until,
                                    ![pid].state = "WAITING"]
          IN  /\ waiting' = sched_wait_proc(procs, waiting, pid)
              /\ IF FirstDue(until) THEN timer_schedule_at_ticks(until) ELSE UNCHANGED timer
    BY <1>2, Zenon DEF wait_until
  <2> DEFINE q1 == [proc EXCEPT ![y.p].state = "RUNNING"]
             q2 == [q1 EXCEPT ![pid].wait_until = until]
             procs == [q2 EXCEPT ![pid].state = "WAITING"]
  <2>2. waiting' = heap_push(waiting, procs[pid].wait_until, pid)
    BY <2>1, Zenon DEF sched_wait_proc
  <2>a. IF FirstDue(until) THEN timer_schedule_at_ticks(until) ELSE UNCHANGED timer
    BY <2>1, Zenon
  <2>3. procs[pid].wait_until = until
    <3>1. proc \in [0 .. MAX_PROC -> Process] /\ pid \in 0 .. MAX_PROC /\ y.p \in 0 .. MAX_PROC
      BY YieldStep, Zenon DEF ScInv, CopiesAgree
    <3>2. q1 \in [0 .. MAX_PROC -> Process]
      BY <3>1, SetState, Zenon DEF State
    <3> HIDE DEF q1
    <3>3. q2 \in [0 .. MAX_PROC -> Process] /\ q2[pid].wait_until = until
      BY <3>1, <3>2, Zenon DEF Process
    <3> HIDE DEF q2
    <3> QED
      BY <3>1, <3>3, SetState DEF State, SameFields
  <2> HIDE DEF procs
  <2>4. WaitingPushed(until)
    BY <2>2, <2>3, Zenon DEF WaitingPushed, heap_push
  <2> QED
    BY <2>a, <2>4, Zenon
<1> QED
  BY <1>1, <1>2, Zenon

(* The other steps leave the waiting heap alone.                           *)
LEMMA OtherWaiting ==
  ASSUME Next, ~TimerIter, \A until \in Untils : ~wait_until(until)
  PROVE  UNCHANGED waiting
<1>1. CASE exit
  BY <1>1, Zenon DEF exit, KERNEL_PANIC, sc
<1>2. ASSUME NEW deadline \in Deadlines, spawn(deadline) PROVE UNCHANGED waiting
  BY <1>2, Zenon DEF spawn, StartProc, KERNEL_PANIC, sc
<1>3. CASE schedule_req
  BY <1>3, Zenon DEF schedule_req, StartProc, KERNEL_PANIC, sc
<1>4. CASE IpcIrq \/ IpcDone \/ TimerIrq \/ TimerRearm \/ Tick \/ Halted
  BY <1>4, Zenon DEF IpcIrq, IpcDone, TimerIrq, TimerRearm, Tick, Halted, vars, sc
<1> QED
  BY <1>1, <1>2, <1>3, <1>4, Zenon DEF Next

(* wait_until never returns early, whatever the interleaving of the        *)
(* counter with timer_fn: who leaves the waiting heap was due.             *)
THEOREM NeverWokenEarly == Spec => NoEarlyWake
<1>1. IInv /\ [Next]_vars
        => [\A p \in Vals(waiting) \ Vals(waiting)' : proc[p].wait_until <= now]_vars
  <2> SUFFICES ASSUME IInv, Next, NEW p \in Vals(waiting) \ Vals(waiting')
               PROVE  proc[p].wait_until <= now
    BY Zenon
  <2>1. PICK m \in waiting.a : m.val = p /\ m.key = proc[p].wait_until
    BY Zenon DEF Vals, IInv, ScInv, CopiesAgree
  <2>2. m \notin waiting'.a
    BY <2>1, Zenon DEF Vals
  <2>3. CASE TimerIter
    BY <2>1, <2>2, <2>3, TimerWaiting, Zenon DEF IInv, WaitingKept, WaitingPopped, Due
  <2>4. ASSUME NEW until \in Untils, wait_until(until) PROVE FALSE
    <3>1. until \in Nat
      BY SchedAssumption
    <3> QED
      BY <2>1, <2>2, <2>4, <3>1, WaitWaiting, Zenon DEF IInv, WaitingPushed
  <2>5. CASE UNCHANGED waiting
    BY <2>1, <2>2, <2>5, Zenon
  <2> QED
    BY <2>3, <2>4, <2>5, OtherWaiting, Zenon
<1> QED
  BY <1>1, Invariance, PTL DEF Spec, NoEarlyWake

-----------------------------------------------------------------------------
(* The timer.                                                              *)

(* Outside timer_fn the timer is on exactly while somebody waits, and set  *)
(* no later than the first waiter or the next tick; inside, somebody       *)
(* waits, and dl is the end of the first wait.                             *)
Covers(c, t) == \A n \in waiting.a : c <= n.key \/ c <= t + 1
Armed ==
  /\ handler \in {"none", "ipc"} => (enable <=> waiting.a # {}) /\ Covers(cval, now)
  /\ handler \in {"timer", "rearm"} => waiting.a # {}
  /\ handler = "rearm" => \A n \in waiting.a : dl <= n.key

(* A timer that is set for a time covers the waits that end no earlier.    *)
LEMMA SetCovers ==
  ASSUME NEW d \in Nat, now \in Nat, timer_schedule_at_ticks(d)
  PROVE  enable' /\ cval' \in {d, now + 1}
BY Zenon DEF timer_schedule_at_ticks

(* wait_until sets the timer when its caller is the first that is due.     *)
LEMMA WaitArmed ==
  ASSUME IInv, Armed, NEW until \in Nat, wait_until(until)
  PROVE  Armed'
<1>1. handler = "none" /\ UNCHANGED <<handler, dl, now>>
  BY Zenon DEF wait_until, UserMode, irq, KERNEL_PANIC
<1>2. (enable <=> waiting.a # {}) /\ Covers(cval, now)
  BY <1>1, Zenon DEF Armed
<1>3. CASE UNCHANGED <<waiting, timer>>
  BY <1>1, <1>2, <1>3, Zenon DEF Armed, Covers, timer
<1>4. CASE /\ WaitingPushed(until)
           /\ IF FirstDue(until) THEN timer_schedule_at_ticks(until) ELSE UNCHANGED timer
  <2> DEFINE e == [key |-> until, val |-> pid]
  <2>1. waiting'.a = waiting.a \cup {e} /\ e.key = until
    BY <1>4, Zenon DEF WaitingPushed
  <2>2. \A n \in waiting.a : n.key \in Nat
    BY Zenon DEF IInv, ScInv, QueueOK, HeapNode
  <2>3. now \in Nat /\ cval \in Nat
    BY SchedAssumption DEF IInv, RegInv
  <2> HIDE DEF e
  <2>4. CASE FirstDue(until)
    <3>1. enable' /\ cval' \in {until, now + 1}
      BY <1>4, <2>3, <2>4, SetCovers, Zenon
    <3>2. \A n \in waiting'.a : n.key \in Nat /\ until <= n.key
      BY <2>1, <2>2, <2>4 DEF FirstDue
    <3>3. \A n \in waiting'.a : cval' <= n.key \/ cval' <= now + 1
      BY <2>3, <3>1, <3>2
    <3> QED
      BY <1>1, <2>1, <3>1, <3>3, Zenon DEF Armed, Covers
  <2>5. CASE ~FirstDue(until)
    <3>1. PICK n \in waiting.a : n.key <= until
      BY <2>2, <2>5 DEF FirstDue
    <3>2. cval' = cval /\ enable' = enable
      BY <1>4, <2>5, Zenon DEF timer
    <3>3. cval <= until \/ cval <= now + 1
      BY <1>2, <2>2, <2>3, <3>1 DEF Covers
    <3>4. \A m \in waiting'.a : cval <= m.key \/ cval <= now + 1
      BY <1>2, <2>1, <3>3, Zenon DEF Covers
    <3>5. enable /\ waiting'.a # {}
      BY <1>2, <2>1, <3>1, Zenon
    <3> QED
      BY <1>1, <3>2, <3>4, <3>5, Zenon DEF Armed, Covers
  <2> QED
    BY <2>4, <2>5, Zenon
<1> QED
  BY <1>3, <1>4, WaitWaiting, Zenon DEF IInv

(* timer_fn: while it runs somebody waits, and it leaves by timer_cancel   *)
(* when nobody does.                                                       *)
LEMMA TimerArmed ==
  ASSUME IInv, Armed, TimerIter
  PROVE  Armed'
<1>1. handler = "timer" /\ waiting.a # {} /\ QueueOK(waiting)
  BY Zenon DEF TimerIter, Armed, IInv, ScInv
<1>2. PICK n \in Minima(waiting) :
        LET popped == heap_pop(waiting, n)
        IN  \/ /\ ~Due(n)
               /\ waiting' = sched_wait_proc(proc, popped, n.val)
               /\ handler' = "rearm" /\ dl' = n.key
            \/ UNCHANGED <<waiting, handler, dl>>
            \/ /\ waiting' = popped
               /\ IF heap_empty(popped)
                  THEN timer_cancel /\ handler' = "none"
                  ELSE UNCHANGED <<timer, handler>>
  BY Zenon DEF TimerIter, KERNEL_PANIC, sc
<1>3. n \in waiting.a /\ \A m \in waiting.a : n.key <= m.key
  BY Zenon DEF Minima
<1>4. n.key = proc[n.val].wait_until /\ n = [key |-> n.key, val |-> n.val]
  BY <1>3, Zenon DEF IInv, ScInv, CopiesAgree, QueueOK, HeapNode
<1>5. CASE /\ waiting' = sched_wait_proc(proc, heap_pop(waiting, n), n.val)
           /\ handler' = "rearm" /\ dl' = n.key
  <2>1. waiting'.a = (waiting.a \ {n}) \cup {n}
    BY <1>4, <1>5, Zenon DEF sched_wait_proc, heap_push, heap_pop
  <2>2. waiting'.a = waiting.a
    BY <1>3, <2>1, Zenon
  <2> QED
    BY <1>1, <1>3, <1>5, <2>2, Zenon DEF Armed
<1>6. CASE UNCHANGED <<waiting, handler, dl>>
  BY <1>1, <1>6, Zenon DEF Armed
<1>7. CASE /\ waiting' = heap_pop(waiting, n)
           /\ IF heap_empty(heap_pop(waiting, n))
              THEN timer_cancel /\ handler' = "none"
              ELSE UNCHANGED <<timer, handler>>
  <2>1. QueueOK(waiting')
    BY <1>1, <1>3, <1>7, PopOK, Zenon
  <2>2. heap_empty(waiting') <=> waiting'.a = {}
    BY <2>1, EmptyOK, Zenon
  <2>3. CASE heap_empty(waiting')
    BY <1>7, <2>2, <2>3, Zenon DEF timer_cancel, Armed, Covers
  <2>4. CASE ~heap_empty(waiting')
    BY <1>1, <1>7, <2>2, <2>4, Zenon DEF Armed
  <2> QED
    BY <2>3, <2>4, Zenon
<1> QED
  BY <1>2, <1>5, <1>6, <1>7, Zenon

(* The other steps.                                                        *)
LEMMA OtherArmed ==
  ASSUME IInv, Armed, Next, ~TimerIter, \A until \in Untils : ~wait_until(until)
  PROVE  Armed'
<1>1. waiting' = waiting
  BY OtherWaiting, Zenon
<1>2. now \in Nat /\ cval \in Nat /\ \A n \in waiting.a : n.key \in Nat
  BY SchedAssumption DEF IInv, RegInv, ScInv, QueueOK, HeapNode
<1>3. CASE TimerRearm
  <2>1. handler = "rearm" /\ handler' = "none" /\ now' = now /\ timer_schedule_at_ticks(dl)
    BY <1>3, Zenon DEF TimerRearm
  <2>2. dl \in Nat /\ waiting.a # {} /\ \A n \in waiting.a : dl <= n.key
    BY <2>1, Zenon DEF Armed, IInv, RegInv
  <2>3. enable' /\ cval' \in {dl, now + 1}
    BY <1>2, <2>1, <2>2, SetCovers, Zenon
  <2>4. \A n \in waiting.a : cval' <= n.key \/ cval' <= now + 1
    BY <1>2, <2>2, <2>3
  <2> QED
    BY <1>1, <2>1, <2>2, <2>3, <2>4, Zenon DEF Armed, Covers
<1>4. CASE TimerIrq
  <2>1. QueueOK(waiting)
    BY Zenon DEF IInv, ScInv
  <2>2. heap_empty(waiting) <=> waiting.a = {}
    BY <2>1, EmptyOK, Zenon
  <2>3. CASE heap_empty(waiting)
    BY <1>1, <1>4, <2>2, <2>3, Zenon DEF TimerIrq, UserMode, timer_cancel, Armed, Covers
  <2>4. CASE ~heap_empty(waiting)
    BY <1>1, <1>4, <2>2, <2>4, Zenon DEF TimerIrq, UserMode, Armed
  <2> QED
    BY <2>3, <2>4, Zenon
<1>5. CASE Tick
  <2>1. now' = now + 1 /\ UNCHANGED <<cval, enable, handler, dl>>
    BY <1>5, Zenon DEF Tick, timer, irq
  <2> QED
    BY <1>1, <1>2, <2>1 DEF Armed, Covers
<1>6. CASE IpcIrq \/ IpcDone
  BY <1>1, <1>6 DEF IpcIrq, IpcDone, UserMode, timer, Armed, Covers
<1>7. CASE UNCHANGED <<now, cval, enable, handler, dl>>
  BY <1>1, <1>7, Zenon DEF Armed, Covers
<1>8. CASE exit \/ Halted
  BY <1>7, <1>8, Zenon DEF exit, KERNEL_PANIC, Halted, vars, timer, irq
<1>9. ASSUME NEW deadline \in Deadlines, spawn(deadline) PROVE Armed'
  BY <1>7, <1>9, Zenon DEF spawn, StartProc, KERNEL_PANIC, timer, irq
<1>10. CASE schedule_req
  BY <1>7, <1>10, Zenon DEF schedule_req, StartProc, KERNEL_PANIC, timer
<1> QED
  BY <1>3, <1>4, <1>5, <1>6, <1>8, <1>9, <1>10, Zenon DEF Next

(* No wakeup is lost: whenever a program runs the timer is set for every   *)
(* wait, for any number of waiters and however far the counter has moved   *)
(* between timer_fn's test of the first waiter and the setting of the      *)
(* timer.                                                                  *)
THEOREM NoWakeupLost == Spec => []TimerCoversWaiters
<1>1. Init => Armed
  BY DEF Init, Armed, Covers, heap_init
<1>2. IInv /\ Armed /\ [Next]_vars => Armed'
  <2> SUFFICES ASSUME IInv, Armed, [Next]_vars PROVE Armed'
    BY Zenon
  <2>1. CASE UNCHANGED vars
    BY <2>1, Zenon DEF vars, sc, timer, irq, Armed, Covers
  <2>2. ASSUME NEW until \in Untils, wait_until(until) PROVE Armed'
    <3>1. until \in Nat
      BY SchedAssumption
    <3> QED
      BY <2>2, <3>1, WaitArmed, Zenon
  <2> QED
    BY <2>1, <2>2, TimerArmed, OtherArmed, Zenon
<1>3. IInv /\ Armed => TimerCoversWaiters
  <2> SUFFICES ASSUME IInv, Armed, handler = "none"
               PROVE  /\ enable <=> waiting.a # {}
                      /\ \A p \in Vals(waiting) : cval <= proc[p].wait_until \/ cval <= now + 1
    BY Zenon DEF TimerCoversWaiters
  <2> QED
    BY Zenon DEF Armed, Covers, Vals, IInv, ScInv, CopiesAgree
<1> QED
  BY <1>1, <1>2, <1>3, Invariance, PTL DEF Spec

-----------------------------------------------------------------------------
(* Preemption.                                                             *)

(* The caller of wait_until or exit, and it alone, gives up the core.      *)
LEMMA YieldsItself ==
  ASSUME ScInv, (\E until \in Untils : wait_until(until)) \/ exit
  PROVE  curr' = curr \/ curr \in FreePids' \cup Vals(waiting)'
<1>1. pid = curr
  BY Zenon DEF ScInv, CopiesAgree
<1>2. ASSUME NEW until \in Untils, wait_until(until)
      PROVE  curr' = curr \/ curr \in Vals(waiting')
  <2>1. CASE heap_full(waiting, READY_MAX)
    BY <1>2, <2>1, Zenon DEF wait_until, KERNEL_PANIC, sc
  <2>2. CASE ~heap_full(waiting, READY_MAX)
    <3>1. PICK procs : waiting' = sched_wait_proc(procs, waiting, pid)
      BY <1>2, <2>2, Zenon DEF wait_until
    <3> DEFINE e == [key |-> procs[pid].wait_until, val |-> pid]
    <3>2. e \in waiting'.a /\ e.val = curr
      BY <1>1, <3>1, Zenon DEF sched_wait_proc, heap_push
    <3> HIDE DEF e
    <3> QED
      BY <3>2, Zenon DEF Vals
  <2> QED
    BY <2>1, <2>2, Zenon
<1>3. CASE exit
  <2>1. CASE free_proc' = Append(free_proc, pid)
    <3>1. free_proc \in Seq(Pids) /\ Len(free_proc) \in Nat
      BY DEF ScInv
    <3>2. /\ Len(free_proc') = Len(free_proc) + 1
          /\ free_proc'[Len(free_proc) + 1] = curr
      BY <1>1, <2>1, <3>1
    <3> QED
      BY <3>1, <3>2 DEF FreePids
  <2>2. CASE UNCHANGED sc
    BY <2>2, Zenon DEF sc
  <2> QED
    BY <1>3, <2>1, <2>2, Zenon DEF exit, KERNEL_PANIC
<1> QED
  BY <1>2, <1>3, Zenon

(* A program loses the core against its will only to one with a strictly   *)
(* earlier deadline, and is ready again: sched(), called from spawn, from  *)
(* ipc_sched and from timer_fn, never drops the process it takes off the   *)
(* core and never switches between equal deadlines.                        *)
THEOREM PreemptedByEarlier == Spec => PreemptOnlyEarlier
<1> DEFINE A == curr # p0 /\ curr' # curr /\ curr \notin FreePids' \cup Vals(waiting)'
                  => /\ curr' # p0
                     /\ proc'[curr'].eff_deadline < proc[curr].eff_deadline
                     /\ curr \in Vals(ready)'
<1>1. IInv /\ Next => A
  <2> SUFFICES ASSUME IInv, Next PROVE A
    BY Zenon
  <2> USE SchedAssumption DEF IInv
  <2>1. CASE (\E until \in Untils : wait_until(until)) \/ exit
    BY <2>1, YieldsItself, Zenon
  <2>2. ASSUME Preempted(proc) PROVE A
    BY <2>2, Zenon DEF Preempted
  <2>3. CASE UNCHANGED sc
    BY <2>3, Zenon DEF sc
  <2> HIDE DEF A
  <2>4. ASSUME NEW deadline \in Deadlines, spawn(deadline) PROVE A
    BY <2>2, <2>4, StartStep, Zenon DEF spawn
  <2>5. CASE schedule_req
    BY <2>2, <2>3, <2>5, StartStep, Zenon DEF schedule_req, KERNEL_PANIC
  <2>6. CASE TimerIter
    BY <2>2, <2>6, TimerStep, Zenon
  <2>7. CASE IpcIrq \/ IpcDone \/ TimerIrq \/ TimerRearm \/ Tick \/ Halted
    BY <2>3, <2>7, Zenon DEF IpcIrq, IpcDone, TimerIrq, TimerRearm, Tick, Halted, vars
  <2> QED
    BY <2>1, <2>4, <2>5, <2>6, <2>7, Zenon DEF Next
<1>2. IInv /\ [Next]_vars => [A]_vars
  BY <1>1, Zenon
<1> QED
  BY <1>2, Invariance, PTL DEF Spec, PreemptOnlyEarlier

-----------------------------------------------------------------------------
(* Quotients and remainders.                                               *)

(* A division with remainder.                                              *)
LEMMA DivMod ==
  ASSUME NEW x \in Nat, NEW y \in Nat \ {0}
  PROVE  /\ x \div y \in Nat /\ x % y \in Nat
         /\ x % y < y
         /\ x = y * (x \div y) + (x % y)
  OBVIOUS

(* A multiple leaves no remainder.                                         *)
LEMMA MultipleMod ==
  ASSUME NEW k \in Int, NEW p \in Nat \ {0}
  PROVE  (k * p) % p = 0
  OBVIOUS

(* The sum of two multiples is a multiple.                                 *)
LEMMA SumMod ==
  ASSUME NEW x \in Nat, NEW y \in Nat, NEW p \in Nat \ {0}, x % p = 0, y % p = 0
  PROVE  (x + y) % p = 0
  <1>. DEFINE k == x \div p
              l == y \div p
  <1>1. k \in Nat /\ x = p * k /\ l \in Nat /\ y = p * l
    BY DivMod
  <1>. HIDE DEF k, l
  <1>2. x + y = (k + l) * p /\ k + l \in Int
    BY <1>1
  <1>3. ((k + l) * p) % p = 0
    BY <1>2, MultipleMod, Zenon
  <1>. QED
    BY <1>2, <1>3, Zenon

-----------------------------------------------------------------------------
(* The cache.                                                              *)

(* clean_dcache_pou_range and inval_icache_pou_range reach every byte of   *)
(* the range, whatever line it starts in and wherever it ends.             *)
LEMMA LinesCover ==
  ASSUME NEW start \in Nat, NEW end \in Nat
  PROVE  start .. end - 1 \subseteq Lines(start, end)
  <1>. SUFFICES ASSUME NEW b \in start .. end - 1
                PROVE  b \in Lines(start, end)
    BY Zenon
  <1>. DEFINE s == start % LINE
              from == start - s
              r == (b - from) % LINE
              k == (b - from) \div LINE
              q == b - r
  <1>1. LINE \in Nat \ {0}
    BY RtcoreAssumption, Zenon
  <1>2. s \in Nat /\ from \in Nat /\ from <= start
    <2>1. start \div LINE \in Nat /\ s \in Nat /\ start = LINE * (start \div LINE) + s
      BY <1>1, DivMod, Zenon
    <2>2. LINE * (start \div LINE) \in Nat
      BY <1>1, <2>1
    <2>. QED
      BY <2>1, <2>2
  <1>. HIDE DEF s, from
  <1>3. b - from \in Nat /\ b \in Nat
    BY <1>2
  <1>4. k \in Nat /\ r \in Nat /\ r < LINE /\ b - from = LINE * k + r
    BY <1>1, <1>3, DivMod, Zenon
  <1>. HIDE DEF k, r
  <1>5. q - from = k * LINE /\ k * LINE \in Nat
    BY <1>1, <1>2, <1>3, <1>4
  <1>6. (q - from) % LINE = 0
    BY <1>1, <1>4, <1>5, MultipleMod
  <1>7. q \in from .. end - 1
    BY <1>2, <1>3, <1>4, <1>5
  <1>8. b \in q .. q + LINE - 1
    BY <1>1, <1>3, <1>4, <1>7, <1>2
  <1>. QED
    BY <1>6, <1>7, <1>8, Zenon DEF Lines, from, s

-----------------------------------------------------------------------------
(* The inductive invariant.                                                *)

Places == {"idle", "start", "remap", "load", "store"}
Ctx == [open : BOOLEAN, mapped : BOOLEAN, user_len : Nat, phys_base : Nat]
Types ==
  /\ G_MEM_OFF \in Nat /\ loads \in Nat
  /\ ctx \in [Tasks -> Ctx] /\ tpc \in [Tasks -> Places]
  /\ size \in [Tasks -> Nat] /\ phys \in [Tasks -> Nat] /\ off \in [Tasks -> Nat]
  /\ windows \in Seq(Nat \X Nat \X Nat)
  /\ \A t \in Tasks : tpc[t] # "idle" => ctx[t].open /\ size[t] \in Sizes

(* A file only knows a window that was made.                               *)
HasWindow(base, z) ==
  \E n \in DOMAIN windows : windows[n][1] = base /\ windows[n][2] = z
FilesKnow == \A t \in Tasks : ctx[t].mapped => HasWindow(ctx[t].phys_base, ctx[t].user_len)

Rest(g, w) == Span(g) \subseteq Span(w) /\ g[1] + g[2] = w[1] + w[2]
IsRest(g) == g = NoImage \/ \E n \in DOMAIN windows : Rest(g, windows[n])

(* While no two tasks have met in rtcore_mmap, the one that is in it knows *)
(* the cursor, and what was handed out under this load ends below it, or   *)
(* below where the cursor is about to be moved.                            *)
End(w) == w[1] + w[2]
Unraced ==
  /\ \A s, t \in Tasks : tpc[s] # "idle" /\ tpc[t] # "idle" => s = t
  /\ G_MEM_OFF % PAGE_SIZE = 0
  /\ \A t \in Tasks :
       /\ tpc[t] # "idle" => G_MEM_OFF + size[t] <= JRT_CODE_SIZE
       /\ tpc[t] = "remap" => phys[t] = JRT_CODE_PHYS + G_MEM_OFF
       /\ tpc[t] = "store" => off[t] = G_MEM_OFF
  /\ \A n \in DOMAIN windows :
       /\ windows[n][3] <= loads
       /\ JRT_CODE_PHYS <= windows[n][1]
       /\ End(windows[n]) <= JRT_CODE_PHYS + JRT_CODE_SIZE
       /\ windows[n][3] = loads =>
            \/ End(windows[n]) <= JRT_CODE_PHYS + G_MEM_OFF
            \/ \E t \in Tasks : /\ tpc[t] \in {"load", "store"}
                               /\ End(windows[n]) <= JRT_CODE_PHYS + G_MEM_OFF + size[t]
  /\ \A g, j \in DOMAIN windows :
       g # j /\ windows[g][3] = windows[j][3] =>
         End(windows[g]) <= windows[j][1] \/ End(windows[j]) <= windows[g][1]

DeviceInv == Types /\ FilesKnow /\ IsRest(req) /\ IsRest(cpu) /\ (~raced => Unraced)

(* What rtcore_open writes of a file's context.                            *)
LEMMA CtxOpen ==
  ASSUME NEW r \in Ctx
  PROVE  /\ [r EXCEPT !.open = TRUE] \in Ctx
         /\ [r EXCEPT !.open = TRUE].open
         /\ [r EXCEPT !.open = TRUE].mapped = r.mapped
         /\ [r EXCEPT !.open = TRUE].user_len = r.user_len
         /\ [r EXCEPT !.open = TRUE].phys_base = r.phys_base
  BY Zenon DEF Ctx

(* The contexts after rtcore_mmap has recorded a mapping.                  *)
LEMMA RecordCtx ==
  ASSUME Types, NEW t \in Tasks, mmap_record(t)
  PROVE  /\ ctx' \in [Tasks -> Ctx]
         /\ ctx'[t].open = ctx[t].open /\ ctx'[t].mapped
         /\ ctx'[t].user_len = size[t] /\ ctx'[t].phys_base = phys[t]
         /\ \A s \in Tasks \ {t} : ctx'[s] = ctx[s]
  <1>. DEFINE c == [ctx[t] EXCEPT !.mapped = TRUE, !.user_len = size[t], !.phys_base = phys[t]]
  <1>1. ctx[t] \in Ctx /\ size[t] \in Nat /\ phys[t] \in Nat
    BY Zenon DEF Types
  <1>2. c \in Ctx /\ c.open = ctx[t].open /\ c.mapped /\ c.user_len = size[t] /\ c.phys_base = phys[t]
    BY <1>1, Zenon DEF Ctx
  <1>3. ctx' = [ctx EXCEPT ![t] = c]
    BY Zenon DEF mmap_record
  <1>. HIDE DEF c
  <1>4. ctx' \in [Tasks -> Ctx] /\ ctx'[t] = c /\ \A s \in Tasks \ {t} : ctx'[s] = ctx[s]
    BY <1>2, <1>3, Zenon DEF Types
  <1>. QED
    BY <1>2, <1>4, Zenon

(* The types.                                                              *)
LEMMA TypesStep ==
  ASSUME Types, [DeviceNext]_deviceVars
  PROVE  Types'
  <1>. USE RtcoreAssumption DEF Types, Places
  <1>1. CASE Reload
    BY <1>1 DEF Reload, locals
  <1>2. ASSUME NEW t \in Tasks, rtcore_open(t) PROVE Types'
    <2>1. ctx' = [ctx EXCEPT ![t] = [ctx[t] EXCEPT !.open = TRUE]]
      BY <1>2, Zenon DEF rtcore_open
    <2>2. ctx' \in [Tasks -> Ctx] /\ \A s \in Tasks : ctx[s].open => ctx'[s].open
      BY <2>1, CtxOpen, Zenon
    <2>. QED
      BY <1>2, <2>2, Zenon DEF rtcore_open, locals
  <1>3. ASSUME NEW t \in Tasks, rtcore_release(t) PROVE Types'
    <2>1. NoFile \in Ctx
      BY Zenon DEF NoFile, Ctx
    <2>2. ctx' \in [Tasks -> Ctx] /\ \A s \in Tasks : tpc[s] # "idle" => ctx'[s] = ctx[s]
      BY <1>3, <2>1, Zenon DEF rtcore_release
    <2>. QED
      BY <1>3, <2>2, Zenon DEF rtcore_release, locals
  <1>4. ASSUME NEW t \in Tasks, Load(t) PROVE Types'
    BY <1>4, Zenon DEF Load, locals
  <1>5. ASSUME NEW t \in Tasks, NEW s \in Sizes, mmap_check(t, s) PROVE Types'
    BY <1>5, Zenon DEF mmap_check
  <1>6. ASSUME NEW t \in Tasks, mmap_phys(t) PROVE Types'
    <2>. DEFINE start == JRT_CODE_PHYS + G_MEM_OFF
    <2>1. start - (start % PAGE_SIZE) \in Nat
      <3>. start \in Nat
        OBVIOUS
      <3>. HIDE DEF start
      <3>1. /\ start \div PAGE_SIZE \in Nat /\ start % PAGE_SIZE \in Nat
            /\ start = PAGE_SIZE * (start \div PAGE_SIZE) + (start % PAGE_SIZE)
        BY DivMod, Zenon
      <3>2. PAGE_SIZE * (start \div PAGE_SIZE) \in Nat
        BY <3>1
      <3>. DEFINE m == PAGE_SIZE * (start \div PAGE_SIZE)
                  o == start % PAGE_SIZE
      <3>3. m \in Nat /\ o \in Nat /\ start = m + o
        BY <3>1, <3>2, Zenon
      <3>. HIDE DEF m, o
      <3>4. start - o \in Nat
        BY <3>3
      <3>. QED
        BY <3>4, Zenon DEF o
    <2>2. phys' = [phys EXCEPT ![t] = start - (start % PAGE_SIZE)]
      BY <1>6, Zenon DEF mmap_phys
    <2>. HIDE DEF start
    <2>3. phys' \in [Tasks -> Nat]
      BY <2>1, <2>2, Zenon
    <2>. QED
      BY <1>6, <2>3, Zenon DEF mmap_phys
  <1>7. ASSUME NEW t \in Tasks, mmap_fail(t) PROVE Types'
    BY <1>7, Zenon DEF mmap_fail
  <1>8. ASSUME NEW t \in Tasks, mmap_record(t) PROVE Types'
    <2>1. windows' \in Seq(Nat \X Nat \X Nat)
      BY <1>8 DEF mmap_record
    <2>2. ctx' \in [Tasks -> Ctx] /\ \A s \in Tasks : ctx[s].open => ctx'[s].open
      BY <1>8, RecordCtx, Zenon
    <2>. QED
      BY <1>8, <2>1, <2>2, Zenon DEF mmap_record, locals
  <1>9. ASSUME NEW t \in Tasks, mmap_load(t) PROVE Types'
    BY <1>9, Zenon DEF mmap_load
  <1>10. ASSUME NEW t \in Tasks, mmap_store(t) PROVE Types'
    BY <1>10 DEF mmap_store
  <1>11. ASSUME NEW t \in Tasks, NEW d \in Offsets,
                rtcore_sched_prog(t, d) \/ rtcore_start_cpu(t, d)
         PROVE  Types'
    BY <1>11, Zenon DEF rtcore_sched_prog, rtcore_start_cpu, locals
  <1>12. CASE UNCHANGED deviceVars
    BY <1>12, Zenon DEF deviceVars
  <1>. QED
    BY <1>1, <1>2, <1>3, <1>4, <1>5, <1>6, <1>7, <1>8, <1>9, <1>10, <1>11, <1>12, Zenon DEF DeviceNext

(* A window of s bytes ends behind what is in front of it.                 *)
LEMMA WindowEnds ==
  ASSUME NEW a \in Nat, NEW g \in Nat, NEW s \in Nat
  PROVE  (a + g) + s <= a + g + s /\ \A e \in Nat : e <= a + g => e <= a + g + s
  OBVIOUS

(* A window that was made stays on record.                                 *)
LEMMA RecordWindows ==
  ASSUME Types, NEW t \in Tasks, mmap_record(t)
  PROVE  /\ DOMAIN windows' = 1 .. Len(windows) + 1
         /\ DOMAIN windows = 1 .. Len(windows) /\ Len(windows) \in Nat
         /\ \A n \in DOMAIN windows : windows'[n] = windows[n]
         /\ windows'[Len(windows) + 1] = <<phys[t], size[t], loads>>
  <1>1. windows' = Append(windows, <<phys[t], size[t], loads>>)
    BY Zenon DEF mmap_record
  <1>2. windows \in Seq(Nat \X Nat \X Nat) /\ <<phys[t], size[t], loads>> \in Nat \X Nat \X Nat
    BY Zenon DEF Types
  <1>. QED
    BY <1>1, <1>2

(* A file keeps knowing a window, and an image stays the rest of one.      *)
LEMMA KnownStep ==
  ASSUME Types, FilesKnow, [DeviceNext]_deviceVars
  PROVE  FilesKnow' /\ \A g : IsRest(g) => IsRest(g)'
  <1>1. CASE \E t \in Tasks : mmap_record(t)
    <2>1. PICK t \in Tasks : mmap_record(t)
      BY <1>1, Zenon
    <2>2. /\ DOMAIN windows \subseteq DOMAIN windows'
          /\ \A n \in DOMAIN windows : windows'[n] = windows[n]
          /\ Len(windows) + 1 \in DOMAIN windows'
      BY <2>1, RecordWindows
    <2>3. windows'[Len(windows) + 1][1] = phys[t] /\ windows'[Len(windows) + 1][2] = size[t]
      BY <2>1, RecordWindows
    <2>4. ASSUME NEW s \in Tasks, ctx'[s].mapped
          PROVE  \E n \in DOMAIN windows' : /\ windows'[n][1] = ctx'[s].phys_base
                                           /\ windows'[n][2] = ctx'[s].user_len
      <3>1. CASE s = t
        BY <2>1, <2>2, <2>3, <3>1, RecordCtx
      <3>2. CASE s # t
        <4>1. ctx'[s] = ctx[s]
          BY <2>1, <3>2, RecordCtx, Zenon
        <4>. QED
          BY <2>2, <2>4, <4>1 DEF FilesKnow, HasWindow
      <3>. QED
        BY <3>1, <3>2, Zenon
    <2>5. FilesKnow'
      BY <2>4, Zenon DEF FilesKnow, HasWindow
    <2>6. ASSUME NEW g, IsRest(g)
          PROVE  IsRest(g)'
      BY <2>2, <2>6, Zenon DEF IsRest
    <2>. QED
      BY <2>5, <2>6, Zenon
  <1>2. CASE ~\E t \in Tasks : mmap_record(t)
    <2>1. windows' = windows
      BY <1>2, Zenon DEF DeviceNext, deviceVars, locals, Reload, rtcore_open, rtcore_release, Load, mmap_check,
        mmap_phys, mmap_fail, mmap_load, mmap_store, rtcore_sched_prog, rtcore_start_cpu
    <2>2. \A s \in Tasks : ctx'[s].mapped => ctx'[s].phys_base = ctx[s].phys_base
                           /\ ctx'[s].user_len = ctx[s].user_len /\ ctx[s].mapped
      <3>1. CASE \E t \in Tasks : rtcore_open(t)
        <4>1. PICK t \in Tasks : ctx' = [ctx EXCEPT ![t] = [ctx[t] EXCEPT !.open = TRUE]]
          BY <3>1, Zenon DEF rtcore_open
        <4>. QED
          BY <4>1, CtxOpen, Zenon DEF Types
      <3>2. CASE \E t \in Tasks : rtcore_release(t)
        BY <3>2 DEF rtcore_release, NoFile, Types
      <3>3. CASE UNCHANGED ctx
        BY <3>3, Zenon
      <3>. QED
        BY <1>2, <3>1, <3>2, <3>3, Zenon DEF DeviceNext, deviceVars, Reload, Load, mmap_check,
          mmap_phys, mmap_fail, mmap_load, mmap_store, rtcore_sched_prog, rtcore_start_cpu
    <2>. QED
      BY <2>1, <2>2 DEF FilesKnow, HasWindow, IsRest
  <1>. QED
    BY <1>1, <1>2, Zenon

(* The image of an accepted entry is the rest of a window, and the bytes   *)
(* of it are no longer stale.                                              *)
LEMMA ImageStep ==
  ASSUME Types, FilesKnow, NEW t \in Tasks, NEW d \in Offsets, Accepts(t, d),
         rtcore_icache_sync_phys_range(t, d)
  PROVE  IsRest(Image(t, d)) /\ Span(Image(t, d)) \cap stale' = {}
  <1>. DEFINE b == ctx[t].phys_base
              l == ctx[t].user_len
  <1>1. b \in Nat /\ l \in Nat /\ d \in Nat /\ d < l
    BY RtcoreAssumption, Zenon DEF Types, Ctx, Accepts
  <1>2. Image(t, d) = <<b + d, l - d>>
    BY Zenon DEF Image
  <1>3. PICK n \in DOMAIN windows : windows[n][1] = b /\ windows[n][2] = l
    BY Zenon DEF FilesKnow, HasWindow, Accepts
  <1>4. Span(windows[n]) = b .. b + l - 1
    BY <1>3, Zenon DEF Span
  <1>5. Span(Image(t, d)) = b + d .. b + l - 1
    <2>1. b + d + (l - d) - 1 = b + l - 1
      BY <1>1
    <2>. QED
      BY <1>2, <2>1 DEF Span
  <1>6. stale' = stale \ Lines(b + d, b + l)
    BY Zenon DEF rtcore_icache_sync_phys_range
  <1>. HIDE DEF b, l
  <1>7. Rest(Image(t, d), windows[n])
    BY <1>1, <1>2, <1>3, <1>4, <1>5 DEF Rest
  <1>8. b + d .. b + l - 1 \subseteq Lines(b + d, b + l)
    BY <1>1, LinesCover
  <1>. QED
    BY <1>5, <1>6, <1>7, <1>8, Zenon DEF IsRest

(* As long as they do not meet, tasks in rtcore_mmap hand out memory once. *)
LEMMA UnracedStep ==
  ASSUME Types, Types', Unraced, [DeviceNext]_deviceVars, ~raced'
  PROVE  Unraced'
  <1>. USE DEF End
  <1>. JRT_CODE_PHYS \in Nat /\ JRT_CODE_SIZE \in Nat /\ PAGE_SIZE \in Nat \ {0}
    BY RtcoreAssumption, Zenon
  <1>. G_MEM_OFF \in Nat /\ loads \in Nat /\ \A x \in Tasks : size[x] \in Nat /\ phys[x] \in Nat
    BY Zenon DEF Types
  <1>0. \A n \in DOMAIN windows :
          windows[n][1] \in Nat /\ windows[n][2] \in Nat /\ windows[n][3] \in Nat
    BY DEF Types
  <1>1. CASE Reload
    <2>1. /\ \A t \in Tasks : tpc[t] = "idle"
          /\ G_MEM_OFF' = 0 /\ loads' = loads + 1 /\ UNCHANGED <<tpc, size, phys, off, windows>>
      BY <1>1, Zenon DEF Reload, Types, locals
    <2>2. 0 % PAGE_SIZE = 0
      OBVIOUS
    <2>3. \A n \in DOMAIN windows : windows[n][3] \in Nat
      BY DEF Types
    <2>4. \A n \in DOMAIN windows' : windows'[n][3] < loads'
      BY <2>1, <2>3 DEF Unraced, Types
    <2>5. ASSUME NEW n \in DOMAIN windows PROVE windows[n][3] # loads'
      BY <2>1, <2>3, <2>4, <2>5
    <2>6. \A n \in DOMAIN windows' : windows'[n][3] <= loads'
      BY <2>1, <2>3, <2>4
    <2>7. \A t \in Tasks : tpc'[t] = "idle"
      BY <2>1, Zenon
    <2>8. \A n \in DOMAIN windows' : windows'[n][3] # loads'
      BY <2>1, <2>5, Zenon
    <2>9. windows' = windows /\ G_MEM_OFF' % PAGE_SIZE = 0
      BY <2>1, <2>2, Zenon
    <2>. QED
      BY <2>6, <2>7, <2>8, <2>9, Zenon DEF Unraced
  <1>2. ASSUME UNCHANGED <<G_MEM_OFF, tpc, size, phys, off, windows, loads>>
        PROVE  Unraced'
    BY <1>2, Zenon DEF Unraced
  <1>3. ASSUME NEW t \in Tasks, NEW s \in Sizes, mmap_check(t, s) PROVE Unraced'
    <2>1. InMmap = {}
      BY <1>3, Zenon DEF mmap_check
    <2>2. \A x \in Tasks : tpc[x] = "idle"
      BY <2>1, Zenon DEF InMmap
    <2>. QED
      BY <1>3, <2>2, Zenon DEF mmap_check, Unraced, Types
  <1>4. ASSUME NEW t \in Tasks, mmap_phys(t) PROVE Unraced'
    <2>. DEFINE start == JRT_CODE_PHYS + G_MEM_OFF
    <2>1. start % PAGE_SIZE = 0 /\ start \in Nat
      <3>1. /\ JRT_CODE_PHYS \in Nat /\ JRT_CODE_PHYS % PAGE_SIZE = 0
            /\ G_MEM_OFF \in Nat /\ G_MEM_OFF % PAGE_SIZE = 0 /\ PAGE_SIZE \in Nat \ {0}
        BY RtcoreAssumption, Zenon DEF Unraced
      <3>. QED
        BY <3>1, SumMod
    <2>2. phys' = [phys EXCEPT ![t] = start - (start % PAGE_SIZE)]
      BY <1>4, Zenon DEF mmap_phys
    <2>. HIDE DEF start
    <2>3. phys' = [phys EXCEPT ![t] = start]
      <3>1. start - (start % PAGE_SIZE) = start
        BY ONLY <2>1
      <3>. QED
        BY ONLY <2>2, <3>1, Zenon
    <2>. QED
      BY <1>4, <2>3, Zenon DEF mmap_phys, Unraced, Types, start
  <1>5. ASSUME NEW t \in Tasks, mmap_fail(t) PROVE Unraced'
    BY <1>5, Zenon DEF mmap_fail, Unraced, Types
  <1>6. ASSUME NEW t \in Tasks, mmap_load(t) PROVE Unraced'
    BY <1>6, Zenon DEF mmap_load, Unraced, Types
  <1>7. ASSUME NEW t \in Tasks, mmap_store(t) PROVE Unraced'
    <2>1. G_MEM_OFF' = G_MEM_OFF + size[t]
      BY <1>7, Zenon DEF mmap_store, Unraced, Types
    <2>2. G_MEM_OFF' % PAGE_SIZE = 0
      <3>1. size[t] % PAGE_SIZE = 0 /\ G_MEM_OFF % PAGE_SIZE = 0
        BY <1>7, RtcoreAssumption, Zenon DEF mmap_store, Unraced, Types
      <3>. QED
        BY <2>1, <3>1, SumMod, Zenon
    <2>3. \A x \in Tasks : tpc'[x] = "idle"
      BY <1>7 DEF mmap_store, Unraced, Types
    <2>4. size[t] \in Nat /\ G_MEM_OFF + size[t] <= JRT_CODE_SIZE
          /\ \A x \in Tasks : tpc[x] # "idle" => x = t
      BY <1>7, Zenon DEF mmap_store, Unraced, Types
    <2>5. windows' = windows /\ loads' = loads
      BY <1>7, Zenon DEF mmap_store
    <2>6. ASSUME NEW n \in DOMAIN windows, windows[n][3] = loads
          PROVE  End(windows[n]) <= JRT_CODE_PHYS + G_MEM_OFF'
      <3>1. CASE End(windows[n]) <= JRT_CODE_PHYS + G_MEM_OFF
        BY <1>0, <2>1, <2>4, <3>1
      <3>2. CASE \E x \in Tasks : /\ tpc[x] \in {"load", "store"}
                                 /\ End(windows[n]) <= JRT_CODE_PHYS + G_MEM_OFF + size[x]
        <4>1. End(windows[n]) <= JRT_CODE_PHYS + G_MEM_OFF + size[t]
          BY <2>4, <3>2, Zenon
        <4>. QED
          BY <1>0, <2>1, <2>4, <4>1
      <3>. QED
        BY <2>6, <3>1, <3>2, Zenon DEF Unraced
    <2>. QED
      BY <2>2, <2>3, <2>5, <2>6, Zenon DEF Unraced
  <1>8. ASSUME NEW t \in Tasks, mmap_record(t) PROVE Unraced'
    <2>. DEFINE m == Len(windows) + 1
    <2>0. /\ DOMAIN windows' = 1 .. m /\ DOMAIN windows = 1 .. m - 1 /\ m \in Nat \ {0}
          /\ \A n \in DOMAIN windows : windows'[n] = windows[n]
      <3>1. /\ DOMAIN windows' = 1 .. Len(windows) + 1
            /\ DOMAIN windows = 1 .. Len(windows) /\ Len(windows) \in Nat
            /\ \A n \in DOMAIN windows : windows'[n] = windows[n]
        BY <1>8, RecordWindows, Zenon
      <3>. QED
        BY ONLY <3>1
    <2>1. /\ DOMAIN windows' = DOMAIN windows \cup {m} /\ m \notin DOMAIN windows
          /\ \A n \in DOMAIN windows : windows'[n] = windows[n]
      <3>. HIDE DEF m
      <3>. QED
        BY ONLY <2>0
    <2>2. windows'[m][1] = phys[t] /\ windows'[m][2] = size[t] /\ windows'[m][3] = loads
      BY <1>8, RecordWindows
    <2>. HIDE DEF m
    <2>3. /\ phys[t] = JRT_CODE_PHYS + G_MEM_OFF
          /\ G_MEM_OFF + size[t] <= JRT_CODE_SIZE
          /\ \A x \in Tasks \ {t} : tpc[x] = "idle"
          /\ tpc[t] = "remap"
      BY <1>8, Zenon DEF mmap_record, Unraced, Types
    <2>4. /\ tpc' = [tpc EXCEPT ![t] = "load"]
          /\ UNCHANGED <<G_MEM_OFF, size, phys, off, loads>>
      BY <1>8, Zenon DEF mmap_record, locals
    <2>5. \A n \in DOMAIN windows : windows[n][3] = loads => windows[n][1] + windows[n][2] <= phys[t]
      BY <2>3, Zenon DEF Unraced
    <2>6. \A g, j \in DOMAIN windows' :
            g # j /\ windows'[g][3] = windows'[j][3] =>
              End(windows'[g]) <= windows'[j][1] \/ End(windows'[j]) <= windows'[g][1]
      <3>1. ASSUME NEW j \in DOMAIN windows, windows[j][3] = loads
            PROVE  End(windows'[j]) <= windows'[m][1]
        BY <2>1, <2>2, <2>5, <3>1, Zenon
      <3>2. \A g, j \in DOMAIN windows :
              g # j /\ windows'[g][3] = windows'[j][3] =>
                End(windows'[g]) <= windows'[j][1] \/ End(windows'[j]) <= windows'[g][1]
        BY <2>1, Zenon DEF Unraced
      <3>. QED
        BY <2>1, <2>2, <3>1, <3>2, Zenon
    <2>7. \A n \in DOMAIN windows' :
            /\ windows'[n][3] <= loads'
            /\ JRT_CODE_PHYS <= windows'[n][1]
            /\ End(windows'[n]) <= JRT_CODE_PHYS + JRT_CODE_SIZE
      <3>. SUFFICES ASSUME NEW n \in DOMAIN windows'
                    PROVE  /\ windows'[n][3] <= loads'
                           /\ JRT_CODE_PHYS <= windows'[n][1]
                           /\ End(windows'[n]) <= JRT_CODE_PHYS + JRT_CODE_SIZE
        BY Zenon
      <3>1. CASE n = m
        <4>1. /\ windows'[n][3] = loads /\ windows'[n][1] = JRT_CODE_PHYS + G_MEM_OFF
              /\ End(windows'[n]) = (JRT_CODE_PHYS + G_MEM_OFF) + size[t]
          BY <2>2, <2>3, <3>1, Zenon
        <4>2. /\ loads <= loads /\ JRT_CODE_PHYS <= JRT_CODE_PHYS + G_MEM_OFF
              /\ (JRT_CODE_PHYS + G_MEM_OFF) + size[t] <= JRT_CODE_PHYS + JRT_CODE_SIZE
          <5>1. /\ JRT_CODE_PHYS \in Nat /\ JRT_CODE_SIZE \in Nat /\ G_MEM_OFF \in Nat
                /\ size[t] \in Nat /\ loads \in Nat /\ G_MEM_OFF + size[t] <= JRT_CODE_SIZE
            BY <2>3, Zenon
          <5>. QED
            BY ONLY <5>1
        <4>. HIDE DEF End
        <4>. QED
          BY <2>4, <4>1, <4>2, Zenon
      <3>2. CASE n \in DOMAIN windows
        BY <2>1, <2>4, <3>2, Zenon DEF Unraced
      <3>. QED
        BY <2>1, <3>1, <3>2, Zenon
    <2>8. \A n \in DOMAIN windows' : windows'[n][3] = loads' =>
            \/ End(windows'[n]) <= JRT_CODE_PHYS + G_MEM_OFF'
            \/ \E x \in Tasks : /\ tpc'[x] \in {"load", "store"}
                               /\ End(windows'[n]) <= JRT_CODE_PHYS + G_MEM_OFF' + size'[x]
      <3>. SUFFICES ASSUME NEW n \in DOMAIN windows', windows'[n][3] = loads'
                    PROVE  End(windows'[n]) <= JRT_CODE_PHYS + G_MEM_OFF' + size'[t]
        BY <2>4, Zenon DEF Types
      <3>1. CASE n = m
        <4>1. End(windows'[n]) = (JRT_CODE_PHYS + G_MEM_OFF) + size[t]
          BY <2>2, <2>3, <3>1, Zenon
        <4>. QED
          BY <2>3, <2>4, <4>1, WindowEnds, Zenon
      <3>2. CASE n \in DOMAIN windows
        <4>1. End(windows[n]) <= JRT_CODE_PHYS + G_MEM_OFF
          BY <2>1, <2>3, <2>4, <2>5, <3>2, Zenon
        <4>2. End(windows[n]) \in Nat
          BY ONLY <1>0, <3>2
        <4>. HIDE DEF End
        <4>3. End(windows[n]) <= JRT_CODE_PHYS + G_MEM_OFF + size[t]
          BY <2>3, <4>1, <4>2, WindowEnds, Zenon
        <4>. QED
          BY <2>1, <2>4, <3>2, <4>3, Zenon
      <3>. QED
        BY <2>1, <3>1, <3>2, Zenon
    <2>9. \A x \in Tasks :
            /\ tpc'[x] # "idle" => G_MEM_OFF' + size'[x] <= JRT_CODE_SIZE
            /\ tpc'[x] = "remap" => phys'[x] = JRT_CODE_PHYS + G_MEM_OFF'
            /\ tpc'[x] = "store" => off'[x] = G_MEM_OFF'
      BY <2>3, <2>4, Zenon DEF Types
    <2>10. \A x, y \in Tasks : tpc'[x] # "idle" /\ tpc'[y] # "idle" => x = y
      BY <2>3, <2>4, Zenon DEF Types
    <2>. QED
      BY <2>4, <2>6, <2>7, <2>8, <2>9, <2>10, Zenon DEF Unraced
  <1>. QED
    BY <1>1, <1>2, <1>3, <1>4, <1>5, <1>6, <1>7, <1>8, Zenon DEF DeviceNext, deviceVars, locals, rtcore_open,
      rtcore_release, Load, rtcore_sched_prog, rtcore_start_cpu

(* What JRT was handed is changed only by the two ioctls.                  *)
LEMMA HandedStep ==
  ASSUME [DeviceNext]_deviceVars
  PROVE  \/ UNCHANGED <<req, cpu>>
         \/ \E t \in Tasks, d \in Offsets :
              /\ Accepts(t, d) /\ rtcore_icache_sync_phys_range(t, d)
              /\ windows' = windows
              /\ req' \in {req, Image(t, d)} /\ cpu' \in {cpu, Image(t, d)}
  <1>1. ASSUME NEW t \in Tasks, NEW d \in Offsets,
               rtcore_sched_prog(t, d) \/ rtcore_start_cpu(t, d)
        PROVE  /\ Accepts(t, d) /\ rtcore_icache_sync_phys_range(t, d)
               /\ windows' = windows
               /\ req' \in {req, Image(t, d)} /\ cpu' \in {cpu, Image(t, d)}
    BY <1>1, Zenon DEF rtcore_sched_prog, rtcore_start_cpu
  <1>. QED
    BY <1>1, Zenon DEF DeviceNext, deviceVars, locals, Reload, rtcore_open, rtcore_release, Load, mmap_check,
      mmap_phys, mmap_fail, mmap_record, mmap_load, mmap_store

(* Every step of the device keeps the invariant.                           *)
LEMMA DeviceStep ==
  ASSUME DeviceInv, [DeviceNext]_deviceVars
  PROVE  DeviceInv'
  <1>1. Types'
    BY TypesStep, Zenon DEF DeviceInv
  <1>2. FilesKnow' /\ \A g : IsRest(g) => IsRest(g)'
    BY KnownStep, Zenon DEF DeviceInv
  <1>3. IsRest(req)' /\ IsRest(cpu)'
    <2>1. CASE UNCHANGED <<req, cpu>>
      BY <1>2, <2>1, Zenon DEF DeviceInv, IsRest
    <2>2. ASSUME NEW t \in Tasks, NEW d \in Offsets,
                 Accepts(t, d), rtcore_icache_sync_phys_range(t, d), windows' = windows,
                 req' \in {req, Image(t, d)}, cpu' \in {cpu, Image(t, d)}
          PROVE  IsRest(req)' /\ IsRest(cpu)'
      <3>1. IsRest(Image(t, d)) /\ IsRest(req) /\ IsRest(cpu)
        BY <2>2, ImageStep, Zenon DEF DeviceInv
      <3>. QED
        BY <2>2, <3>1, Zenon DEF IsRest
    <2>. QED
      BY <2>1, <2>2, HandedStep, Zenon
  <1>4. ~raced' => Unraced'
    <2>1. ~raced' => ~raced
      BY Zenon DEF DeviceNext, deviceVars, locals, Reload, rtcore_open, rtcore_release, Load, mmap_check, mmap_phys,
        mmap_fail, mmap_record, mmap_load, mmap_store, rtcore_sched_prog, rtcore_start_cpu
    <2>. QED
      BY <1>1, <2>1, UnracedStep, Zenon DEF DeviceInv
  <1>. QED
    BY <1>1, <1>2, <1>3, <1>4, Zenon DEF DeviceInv

(* The invariant holds in every reachable state.                           *)
THEOREM DeviceInvariant == DeviceSpec => []DeviceInv
  <1>1. DeviceInit => DeviceInv
    <2>. SUFFICES ASSUME DeviceInit PROVE DeviceInv
      BY Zenon
    <2>1. NoFile \in Ctx /\ ~NoFile.mapped
      BY Zenon DEF NoFile, Ctx
    <2>2. Types
      BY <2>1 DEF DeviceInit, Types, Places
    <2>3. FilesKnow /\ IsRest(req) /\ IsRest(cpu)
      BY <2>1, Zenon DEF DeviceInit, FilesKnow, IsRest
    <2>4. Unraced
      BY RtcoreAssumption DEF DeviceInit, Unraced
    <2>. QED
      BY <2>2, <2>3, <2>4, Zenon DEF DeviceInv
  <1>2. DeviceInv /\ [DeviceNext]_deviceVars => DeviceInv'
    BY DeviceStep, Zenon
  <1>. QED
    BY <1>1, <1>2, PTL DEF DeviceSpec

(* Unless two tasks meet in rtcore_mmap, no two windows of one load of the *)
(* module share a byte, and none leaves the reserved memory.               *)
THEOREM DeviceWindowsApart == DeviceSpec => []WindowsApartUnlessRaced
  <1>1. DeviceInv => WindowsApartUnlessRaced
    <2>. SUFFICES ASSUME DeviceInv, ~raced PROVE WindowsApartUnlessRaced
      BY Zenon DEF WindowsApartUnlessRaced
    <2>1. Unraced /\ windows \in Seq(Nat \X Nat \X Nat)
      BY Zenon DEF DeviceInv, Types
    <2>2. \A n \in DOMAIN windows : windows[n][1] \in Nat /\ windows[n][2] \in Nat
      BY <2>1
    <2>3. ASSUME NEW g \in DOMAIN windows, NEW j \in DOMAIN windows,
                 g # j, windows[g][3] = windows[j][3]
          PROVE  Span(windows[g]) \cap Span(windows[j]) = {}
      <3>1. End(windows[g]) <= windows[j][1] \/ End(windows[j]) <= windows[g][1]
        BY <2>1, <2>3, Zenon DEF Unraced
      <3>. QED
        BY <2>2, <3>1 DEF Span, End
    <2>4. ASSUME NEW g \in DOMAIN windows
          PROVE  Span(windows[g]) \subseteq Region
      <3>1. JRT_CODE_PHYS <= windows[g][1] /\ End(windows[g]) <= JRT_CODE_PHYS + JRT_CODE_SIZE
        BY <2>1, Zenon DEF Unraced
      <3>2. Region = JRT_CODE_PHYS .. JRT_CODE_PHYS + JRT_CODE_SIZE - 1
        BY Zenon DEF Region, Span
      <3>. QED
        BY <2>2, <3>1, <3>2, RtcoreAssumption DEF Span, End
    <2>. QED
      BY <2>3, <2>4, Zenon DEF WindowsApartUnlessRaced
  <1>. QED
    BY <1>1, DeviceInvariant, PTL

(* What JRT is handed is the rest of a window that was mapped, from the    *)
(* entry on, raced or not.                                                 *)
THEOREM DeviceImages == DeviceSpec => []ImagesInWindows
  <1>1. DeviceInv => ImagesInWindows
    BY Zenon DEF DeviceInv, IsRest, Rest, ImagesInWindows
  <1>. QED
    BY <1>1, DeviceInvariant, PTL

(* And no byte of it is stale when JRT is asked to run it.                 *)
THEOREM DeviceFetchable == DeviceSpec => ImageFetchable
  <1>1. DeviceInv /\ [DeviceNext]_deviceVars =>
          [req' # req => Span(req') \cap stale' = {}]_deviceVars
    <2>. SUFFICES ASSUME DeviceInv, [DeviceNext]_deviceVars
                  PROVE  req' # req => Span(req') \cap stale' = {}
      BY Zenon
    <2>1. ASSUME NEW t \in Tasks, NEW d \in Offsets,
                 Accepts(t, d), rtcore_icache_sync_phys_range(t, d),
                 req' \in {req, Image(t, d)}
          PROVE  req' # req => Span(req') \cap stale' = {}
      <3>1. Span(Image(t, d)) \cap stale' = {}
        BY <2>1, ImageStep, Zenon DEF DeviceInv
      <3>. QED
        BY <2>1, <3>1, Zenon
    <2>. QED
      BY <2>1, HandedStep, Zenon
  <1>. QED
    BY <1>1, DeviceInvariant, PTL DEF DeviceSpec, ImageFetchable
=============================================================================
