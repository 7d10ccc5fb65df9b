----------------------------- MODULE RingProofs -----------------------------
(***************************************************************************)
(* Proofs about the ring, for any number of producers, slots and tickets,  *)
(* any budget of ipc_sched and any number of times the module is loaded:   *)
(* head, tail and flags agree, the ring is a FIFO queue, and a request is  *)
(* stranded only for the reasons StrandedOnlyBy names.                     *)
(***************************************************************************)
EXTENDS Ring, FiniteSetTheorems, SequenceTheorems, TLAPS

(* A division with remainder.                                              *)
LEMMA DivMod ==
  ASSUME NEW a \in Nat, NEW b \in Nat \ {0}
  PROVE  /\ a \div b \in Nat /\ a % b \in Nat
         /\ a % b < b
         /\ a = b * (a \div b) + (a % b)
  OBVIOUS

(* d steps after a on a circle of m places.                                *)
Plus(a, d, m) == IF a + d < m THEN a + d ELSE a + d - m

(* i is one of the f slots from b on.                                      *)
In(b, f, i) == (b <= i /\ i < b + f) \/ i + SIZE < b + f

(* The ticket of the first request that the consumer has not let go.       *)
First == IF jpc = "tail" THEN Plus(tail, 1, RANGE) ELSE tail
Waiting == IF Claimed = {} THEN 0 ELSE 1

(* The ring holds f requests.                                              *)
Tickets(f) ==
  /\ head = Plus(First, f + Waiting, RANGE)
  /\ Claimed # {} => tkt = Plus(First, f, RANGE)
Window(f) == \A i \in Slots : flags[i] = 1 <=> In(idx(First), f, i)
Room(f) == (\E p \in Producers : ppc[p] \in {"copy", "post", "late"}) => f < SIZE
Some(f) == jpc \in {"copy", "clear"} => f >= 1
Covered(f) ==
  f > 0 /\ load = "done" /\ jpc = "idle" /\ ~pending /\ last = "empty" /\ ~early
  => \E p \in Producers : ppc[p] = "poke"
Holds(f) == Tickets(f) /\ Window(f) /\ Room(f) /\ Some(f) /\ Covered(f)

Written ==
  /\ \A i \in Slots : flags[i] = 1 => data[i] \in Recs
  /\ \A p \in Producers : ppc[p] \in {"post", "late"} => data[idx(tkt)] \in Recs
  /\ jpc \in {"clear", "tail", "req"} => out \in Recs

(* The ring is being reset, and nobody uses it.                            *)
Reset ==
  /\ jpc \in {"idle", "halt"}
  /\ \A p \in Producers : ppc[p] \in {"user", "lock", "claim"}
  /\ load \in {"tail", "flags"} => head = 0
  /\ load = "flags" => tail = 0

Types ==
  /\ head \in 0 .. RANGE - 1 /\ tail \in 0 .. RANGE - 1 /\ tkt \in 0 .. RANGE - 1
  /\ flags \in [Slots -> {0, 1}]
  /\ data \in [Slots -> Recs \cup {NoRec}]
  /\ ppc \in [Producers -> {"user", "lock", "claim", "spin", "copy", "post",
                            "poke", "late", "unlock"}]
  /\ pending \in BOOLEAN
  /\ jpc \in {"idle", "flag", "copy", "clear", "tail", "req", "halt"}
  /\ budget \in 0 .. IPC_BUDGET
  /\ jpc \in {"copy", "clear", "tail", "req"} => budget < IPC_BUDGET
  /\ out \in Recs \cup {NoRec}
  /\ last \in {"empty", "budget"} /\ early \in BOOLEAN
  /\ load \in {"done", "head", "tail", "flags"} /\ loads \in 0 .. MAX_LOADS
  /\ load = "head" => loads < MAX_LOADS
  /\ torn \in BOOLEAN

Locked ==
  /\ lock = {p \in Producers : ppc[p] \notin {"user", "lock"}}
  /\ \A p, q \in lock : p = q
  /\ \A p \in Producers : ppc[p] = "late" => early
  /\ jpc \in {"idle", "flag", "copy", "halt"} => out = NoRec

Ordered ==
  ~torn => /\ Written
           /\ load # "done" => Reset
           /\ load \in {"done", "head"} => \E f \in 0 .. SIZE : Holds(f)

RingInv == Types /\ Locked /\ Ordered

-----------------------------------------------------------------------------
(* Tickets and slots.                                                      *)

(* A remainder is the only one.                                            *)
LEMMA ModUnique ==
  ASSUME NEW a \in Int, NEW m \in Nat \ {0}, NEW q \in Int, NEW r \in 0 .. m - 1,
         a = m * q + r
  PROVE  a % m = r
  OBVIOUS

(* What of RingAssumption is about sizes, without the division.            *)
LEMMA Sizes == SIZE \in Nat \ {0} /\ RANGE \in Nat \ {0} /\ RANGE > SIZE + 2
  BY RingAssumption

(* RANGE is a number of rounds of the ring.                                *)
LEMMA Rounds == \E n \in Nat : RANGE = SIZE * n
  <1>1. RANGE = SIZE * (RANGE \div SIZE) + (RANGE % SIZE) /\ RANGE \div SIZE \in Nat
    BY RingAssumption, DivMod, Zenon
  <1>. QED
    BY <1>1, RingAssumption

(* A ticket's slot is a slot.                                              *)
LEMMA IdxType ==
  ASSUME NEW t \in Nat
  PROVE  idx(t) \in Slots
  BY Sizes, DivMod DEF idx, Slots

(* A step in tickets is a step in slots.                                   *)
LEMMA IdxPlus ==
  ASSUME NEW t \in Nat, NEW d \in 0 .. SIZE
  PROVE  idx(t + d) = Plus(idx(t), d, SIZE)
  <1>. DEFINE q == t \div SIZE
              r == t % SIZE
  <1>1. q \in Nat /\ r \in 0 .. SIZE - 1 /\ t = SIZE * q + r /\ idx(t) = r
    BY Sizes, DivMod DEF idx
  <1>. HIDE DEF q, r
  <1>2. CASE r + d < SIZE
    <2>1. t + d = SIZE * q + (r + d) /\ r + d \in 0 .. SIZE - 1
      BY <1>1, <1>2, Sizes
    <2>2. (t + d) % SIZE = r + d
      BY <1>1, <2>1, ModUnique, Sizes
    <2>. QED
      BY <1>1, <1>2, <2>2, Zenon DEF idx, Plus
  <1>3. CASE ~(r + d < SIZE)
    <2>1. SIZE * (q + 1) = SIZE * q + SIZE
      BY <1>1, Sizes
    <2>2. t + d = SIZE * (q + 1) + (r + d - SIZE) /\ r + d - SIZE \in 0 .. SIZE - 1
      BY <1>1, <1>3, <2>1, Sizes
    <2>. DEFINE a == t + d
                s == r + d - SIZE
    <2>3. a \in Int /\ q + 1 \in Int /\ s \in 0 .. SIZE - 1 /\ a = SIZE * (q + 1) + s
      BY <1>1, <2>2, Sizes
    <2>. HIDE DEF a, s
    <2>4. a % SIZE = s
      BY <2>3, ModUnique, Sizes, Zenon
    <2>. QED
      BY <1>1, <1>3, <2>4, Zenon DEF idx, Plus, a, s
  <1>. QED
    BY <1>2, <1>3, Zenon

(* So it is when the tickets wrap.                                         *)
LEMMA IdxWrap ==
  ASSUME NEW t \in Nat, t >= RANGE
  PROVE  idx(t - RANGE) = idx(t)
  <1>1. PICK n \in Nat : RANGE = SIZE * n
    BY Rounds, Zenon
  <1>. DEFINE q == t \div SIZE
              r == t % SIZE
  <1>2. q \in Nat /\ r \in 0 .. SIZE - 1 /\ t = SIZE * q + r /\ idx(t) = r
    BY Sizes, DivMod DEF idx
  <1>. HIDE DEF q, r
  <1>3. SIZE * (q - n) = SIZE * q - SIZE * n
    BY <1>1, <1>2, Sizes
  <1>4. t - RANGE = SIZE * (q - n) + r /\ q - n \in Int /\ t - RANGE \in Int
    BY <1>1, <1>2, <1>3, Sizes
  <1>5. (t - RANGE) % SIZE = r
    BY <1>2, <1>4, ModUnique, Sizes, Zenon
  <1>. QED
    BY <1>2, <1>5, Zenon DEF idx

(* The slot of the ticket d steps on.                                      *)
LEMMA IdxNext ==
  ASSUME NEW t \in 0 .. RANGE - 1, NEW d \in 0 .. SIZE
  PROVE  /\ Plus(t, d, RANGE) \in 0 .. RANGE - 1
         /\ idx(Plus(t, d, RANGE)) = Plus(idx(t), d, SIZE)
  <1>1. t \in Nat /\ t + d \in Nat /\ idx(t + d) = Plus(idx(t), d, SIZE)
    BY IdxPlus, Sizes
  <1>2. t + d >= RANGE => idx(t + d - RANGE) = idx(t + d)
    BY <1>1, IdxWrap, Sizes
  <1>. QED
    BY <1>1, <1>2, Sizes DEF Plus

(* The counters wrap as unsigned integers do.                              *)
LEMMA Increment ==
  ASSUME NEW t \in 0 .. RANGE - 1
  PROVE  (t + 1) % RANGE = Plus(t, 1, RANGE)
  <1>1. t + 1 < RANGE => t + 1 = RANGE * 0 + (t + 1) /\ t + 1 \in 0 .. RANGE - 1
    BY Sizes
  <1>2. t + 1 >= RANGE => t + 1 = RANGE * 1 + 0 /\ 0 \in 0 .. RANGE - 1
    BY Sizes
  <1>. QED
    BY <1>1, <1>2, ModUnique, Sizes DEF Plus

(* The distance between two tickets.                                       *)
LEMMA Distance ==
  ASSUME NEW t \in 0 .. RANGE - 1, NEW d \in 0 .. RANGE - 1
  PROVE  (Plus(t, d, RANGE) - t) % RANGE = d
  <1>1. t + d < RANGE => Plus(t, d, RANGE) - t = RANGE * 0 + d
    BY Sizes DEF Plus
  <1>2. t + d >= RANGE => Plus(t, d, RANGE) - t = RANGE * (-1) + d
    BY Sizes DEF Plus
  <1>3. Plus(t, d, RANGE) - t \in Int
    BY Sizes DEF Plus
  <1>. QED
    BY <1>1, <1>2, <1>3, ModUnique, Sizes

-----------------------------------------------------------------------------
(* The number of full slots.                                               *)

(* A window of f slots has f slots.                                        *)
LEMMA WindowSize ==
  ASSUME NEW b \in Slots, NEW f \in 0 .. SIZE
  PROVE  /\ IsFiniteSet({i \in Slots : In(b, f, i)})
         /\ Cardinality({i \in Slots : In(b, f, i)}) = f
  <1>. DEFINE K == 0 .. f - 1
              W == {i \in Slots : In(b, f, i)}
              at == [k \in K |-> Plus(b, k, SIZE)]
  <1>1. at \in [K -> W]
    BY Sizes DEF Plus, In, Slots
  <1>2. \A k, l \in K : at[k] = at[l] => k = l
    BY Sizes DEF Plus, Slots
  <1>3. \A i \in W : \E k \in K : at[k] = i
    <2>. TAKE i \in W
    <2>1. CASE b <= i
      <3>1. i - b \in K /\ at[i - b] = i
        BY <2>1, Sizes DEF Plus, In, Slots
      <3>. QED
        BY <3>1, Zenon
    <2>2. CASE ~(b <= i)
      <3>1. i - b + SIZE \in K /\ at[i - b + SIZE] = i
        BY <2>2, Sizes DEF Plus, In, Slots
      <3>. QED
        BY <3>1, Zenon
    <2>. QED
      BY <2>1, <2>2, Zenon
  <1>4. ExistsBijection(K, W)
    BY <1>1, <1>2, <1>3, Zenon DEF ExistsBijection, Bijection, Injection, Surjection, IsInjective
  <1>5. IsFiniteSet(K) /\ Cardinality(K) = f
    BY FS_Interval, Sizes
  <1>. QED
    BY <1>4, <1>5, FS_Bijection, Zenon

-----------------------------------------------------------------------------
(* The types, and the lock.                                                *)

(* A step keeps the types.                                                 *)
LEMMA TypesStep ==
  ASSUME Types, Locked, [Next]_vars
  PROVE  Types'
  <1>1. CASE rtcore_init
    BY <1>1, Zenon DEF rtcore_init, linux, ring, jrt, hist, Types
  <1>2. CASE ipc_init
    BY <1>2, Sizes, RingAssumption DEF ipc_init, linux, jrt, hist, Types, Slots
  <1>3. ASSUME NEW p \in Producers, rtcore_sched_prog(p) PROVE Types'
    BY <1>3 DEF rtcore_sched_prog, Goto, ring, jrt, hist, module, Types
  <1>4. ASSUME NEW p \in Producers, mutex_lock(p) PROVE Types'
    BY <1>4 DEF mutex_lock, Goto, ring, jrt, hist, module, Types
  <1>5. ASSUME NEW p \in Producers, mpsc_fetch_add_head_relaxed(p) PROVE Types'
    BY <1>5, Sizes, DivMod DEF mpsc_fetch_add_head_relaxed, Goto, jrt, hist, Types
  <1>6. ASSUME NEW p \in Producers, Spin(p) PROVE Types'
    BY <1>6 DEF Spin, Goto, ring, jrt, hist, module, Types
  <1>7. ASSUME NEW p \in Producers, Payload(p) PROVE Types'
    <2>1. tkt \in Nat /\ idx(tkt) \in Slots
      BY IdxType, Sizes DEF Types
    <2>. QED
      BY <1>7, <2>1 DEF Payload, Goto, jrt, hist, module, Types
  <1>8. ASSUME NEW p \in Producers, Publish(p) PROVE Types'
    <2>1. tkt \in Nat /\ idx(tkt) \in Slots
      BY IdxType, Sizes DEF Types
    <2>. QED
      BY <1>8, <2>1 DEF Publish, Goto, jrt, hist, module, Types
  <1>9. ASSUME NEW p \in Producers, Poke(p) PROVE Types'
    <2>1. /\ \E to \in {"unlock", "late"} : ppc' = [ppc EXCEPT ![p] = to]
          /\ early' \in BOOLEAN /\ pending' = TRUE
          /\ UNCHANGED <<ring, lock, tkt, jrt, last, module>>
      BY <1>9, Zenon DEF Poke, Goto
    <2>. QED
      BY <2>1, Zenon DEF ring, jrt, module, Types
  <1>10. ASSUME NEW p \in Producers, mutex_unlock(p) PROVE Types'
    BY <1>10, Sizes DEF mutex_unlock, Goto, ring, jrt, hist, module, Types
  <1>11. CASE IrqEntry
    BY <1>11, Zenon DEF IrqEntry, ring, linux, hist, Types
  <1>12. CASE LoadFlag
    BY <1>12, RingAssumption DEF LoadFlag, ring, linux, module, Types
  <1>13. CASE CopyOut
    <2>1. tail \in Nat /\ idx(tail) \in Slots
      BY IdxType, Sizes DEF Types
    <2>. QED
      BY <1>13, <2>1, Zenon DEF CopyOut, ring, linux, hist, module, Types
  <1>14. CASE ClearFlag
    BY <1>14, Zenon DEF ClearFlag, linux, hist, module, Types
  <1>15. CASE AdvanceTail
    BY <1>15, Sizes, DivMod DEF AdvanceTail, linux, hist, module, Types
  <1>16. CASE schedule_req
    BY <1>16, RingAssumption DEF schedule_req, ring, linux, hist, module, Types
  <1>17. CASE UNCHANGED vars
    BY <1>17 DEF vars, ring, linux, jrt, hist, module, Types
  <1>. QED
    BY <1>1, <1>2, <1>3, <1>4, <1>5, <1>6, <1>7, <1>8, <1>9, <1>10, <1>11, <1>12,
       <1>13, <1>14, <1>15, <1>16, <1>17, Zenon DEF Next, Producer, ipc_sched

(* A step keeps the lock with the producer that is past mutex_lock.        *)
LEMMA LockedStep ==
  ASSUME Types, Locked, [Next]_vars
  PROVE  Locked'
  <1>1. CASE rtcore_init
    BY <1>1, Zenon DEF rtcore_init, linux, ring, jrt, hist, Types, Locked
  <1>2. CASE ipc_init
    BY <1>2, Zenon DEF ipc_init, linux, jrt, hist, Types, Locked
  <1>3. ASSUME NEW p \in Producers, rtcore_sched_prog(p) PROVE Locked'
    BY <1>3, Zenon DEF rtcore_sched_prog, Goto, ring, jrt, hist, module, Types, Locked
  <1>4. ASSUME NEW p \in Producers, mutex_lock(p) PROVE Locked'
    BY <1>4 DEF mutex_lock, Goto, ring, jrt, hist, module, Types, Locked
  <1>5. ASSUME NEW p \in Producers, mpsc_fetch_add_head_relaxed(p) PROVE Locked'
    BY <1>5, Zenon DEF mpsc_fetch_add_head_relaxed, Goto, jrt, hist, Types, Locked
  <1>6. ASSUME NEW p \in Producers, Spin(p) PROVE Locked'
    BY <1>6 DEF Spin, Goto, ring, jrt, hist, module, Types, Locked
  <1>7. ASSUME NEW p \in Producers, Payload(p) PROVE Locked'
    BY <1>7, Zenon DEF Payload, Goto, jrt, hist, module, Types, Locked
  <1>8. ASSUME NEW p \in Producers, Publish(p) PROVE Locked'
    BY <1>8 DEF Publish, Goto, jrt, hist, module, Types, Locked
  <1>9. ASSUME NEW p \in Producers, Poke(p) PROVE Locked'
    BY <1>9 DEF Poke, Goto, ring, jrt, module, Types, Locked
  <1>10. ASSUME NEW p \in Producers, mutex_unlock(p) PROVE Locked'
    BY <1>10 DEF mutex_unlock, Goto, ring, jrt, hist, module, Types, Locked
  <1>11. CASE IrqEntry
    BY <1>11, Zenon DEF IrqEntry, ring, linux, hist, Types, Locked
  <1>12. CASE LoadFlag
    BY <1>12, Zenon DEF LoadFlag, ring, linux, module, Types, Locked
  <1>13. CASE CopyOut
    BY <1>13, Zenon DEF CopyOut, ring, linux, hist, module, Types, Locked
  <1>14. CASE ClearFlag
    BY <1>14, Zenon DEF ClearFlag, linux, hist, module, Types, Locked
  <1>15. CASE AdvanceTail
    BY <1>15, Zenon DEF AdvanceTail, linux, hist, module, Types, Locked
  <1>16. CASE schedule_req
    BY <1>16, Zenon DEF schedule_req, ring, linux, hist, module, Types, Locked
  <1>17. CASE UNCHANGED vars
    BY <1>17, Zenon DEF vars, ring, linux, jrt, hist, module, Types, Locked
  <1>. QED
    BY <1>1, <1>2, <1>3, <1>4, <1>5, <1>6, <1>7, <1>8, <1>9, <1>10, <1>11, <1>12,
       <1>13, <1>14, <1>15, <1>16, <1>17, Zenon DEF Next, Producer, ipc_sched

-----------------------------------------------------------------------------
(* What the ring holds.                                                    *)

(* Whoever is past mutex_lock is alone there.                              *)
LEMMA Alone ==
  ASSUME Types, Locked, NEW p \in Producers, ppc[p] \notin {"user", "lock"}
  PROVE  /\ \A q \in Producers : q # p => ppc[q] \in {"user", "lock"}
         /\ Claimed = IF ppc[p] \in {"spin", "copy", "post", "late"} THEN {p} ELSE {}
  BY DEF Types, Locked, Claimed

(* First is a ticket.                                                      *)
LEMMA FirstType ==
  ASSUME Types
  PROVE  First \in 0 .. RANGE - 1 /\ idx(First) \in Slots
  <1>1. First \in 0 .. RANGE - 1
    BY Sizes DEF Types, First, Plus
  <1>2. First \in Nat
    BY <1>1, Sizes
  <1>. QED
    BY <1>1, <1>2, IdxType, Zenon

(* The slot the consumer looks at is full exactly if the ring is not empty.*)
LEMMA AtTail ==
  ASSUME Types, NEW f \in 0 .. SIZE, Window(f), jpc # "tail"
  PROVE  idx(tail) \in Slots /\ (flags[idx(tail)] = 1 <=> f >= 1)
  <1>1. First = tail /\ idx(tail) \in Slots
    BY FirstType, Zenon DEF First
  <1>2. flags[idx(tail)] = 1 <=> In(idx(tail), f, idx(tail))
    BY <1>1, Zenon DEF Window
  <1>3. idx(tail) \in 0 .. SIZE - 1
    BY <1>1, Zenon DEF Slots
  <1>. HIDE DEF idx
  <1>4. In(idx(tail), f, idx(tail)) <=> f >= 1
    BY <1>3, Sizes DEF In
  <1>. QED
    BY <1>1, <1>2, <1>4, Zenon

(* The slot of a claimed ticket is the one after the last full one.        *)
LEMMA AtTicket ==
  ASSUME Types, NEW f \in 0 .. SIZE, Window(f), Tickets(f), Claimed # {}
  PROVE  /\ tkt \in Nat /\ idx(tkt) \in Slots
         /\ idx(tkt) = Plus(idx(First), f, SIZE)
         /\ flags[idx(tkt)] = 0 <=> f < SIZE
  <1>1. First \in 0 .. RANGE - 1 /\ idx(First) \in Slots
    BY FirstType, Zenon
  <1>2. tkt \in Nat /\ idx(tkt) = Plus(idx(First), f, SIZE)
    BY <1>1, IdxNext, Sizes DEF Tickets, Types
  <1>3. idx(tkt) \in Slots
    BY <1>2, IdxType, Zenon
  <1>4. flags[idx(tkt)] = 1 <=> In(idx(First), f, idx(tkt))
    BY <1>3, Zenon DEF Window
  <1>5. idx(First) \in 0 .. SIZE - 1
    BY <1>1, Zenon DEF Slots
  <1>6. In(idx(First), f, Plus(idx(First), f, SIZE)) <=> ~(f < SIZE)
    BY <1>5, Sizes DEF In, Plus
  <1>7. flags[idx(tkt)] \in {0, 1}
    BY <1>3, Zenon DEF Types
  <1>. QED
    BY <1>2, <1>3, <1>4, <1>6, <1>7

(* A step that leaves the counters, the flags and the claims alone leaves  *)
(* what the ring holds.                                                    *)
LEMMA Same ==
  ASSUME NEW f, Tickets(f), Window(f), First' = First, Claimed' = Claimed,
         head' = head, flags' = flags, Claimed # {} => tkt' = tkt
  PROVE  Tickets(f)' /\ Window(f)'
  BY Zenon DEF Tickets, Window, Waiting

(* The steps of a producer that do not touch the counters and the flags.   *)
LEMMA QuietStep ==
  ASSUME Types, Locked, NEW f \in 0 .. SIZE, Holds(f), NEW p \in Producers,
         \/ rtcore_sched_prog(p) \/ mutex_lock(p) \/ Spin(p) \/ Payload(p)
         \/ Poke(p) \/ mutex_unlock(p)
  PROVE  Holds(f)'
  <1>1. First' = First /\ head' = head /\ flags' = flags
    BY Zenon DEF rtcore_sched_prog, mutex_lock, Spin, Payload, Poke, mutex_unlock, First, ring, jrt
  <1>2. Claimed' = Claimed
    BY Zenon DEF rtcore_sched_prog, mutex_lock, Spin, Payload, Poke, mutex_unlock, Goto, Claimed, Types
  <1>3. Claimed # {} => tkt' = tkt
    <2>1. CASE mutex_unlock(p)
      BY <2>1, Alone, Zenon DEF mutex_unlock, Goto
    <2>. QED
      BY <2>1, Zenon DEF rtcore_sched_prog, mutex_lock, Spin, Payload, Poke
  <1>4. Tickets(f)' /\ Window(f)'
    BY <1>1, <1>2, <1>3, Same, Zenon DEF Holds
  <1>5. Room(f)'
    <2>1. CASE Spin(p)
      <3>1. ppc[p] = "spin" /\ (ppc' = ppc \/ flags[idx(tkt)] = 0)
        BY <2>1, Zenon DEF Spin, Goto
      <3>2. Claimed # {}
        BY <3>1, Zenon DEF Claimed
      <3>3. flags[idx(tkt)] = 0 => f < SIZE
        BY <3>2, AtTicket, Zenon DEF Holds
      <3>. QED
        BY <3>1, <3>3, Zenon DEF Room, Holds
    <2>. QED
      BY <2>1, Zenon DEF rtcore_sched_prog, mutex_lock, Payload, Poke, mutex_unlock, Goto, Room,
                  Holds, Types
  <1>6. Some(f)'
    BY Zenon DEF rtcore_sched_prog, mutex_lock, Spin, Payload, Poke, mutex_unlock, jrt, Some, Holds
  <1>7. Covered(f)'
    <2>1. CASE Poke(p)
      BY <2>1, Zenon DEF Poke, Covered
    <2>. QED
      BY <2>1, Zenon DEF rtcore_sched_prog, mutex_lock, Spin, Payload, mutex_unlock, Goto, jrt, hist,
                  module, Covered, Holds, Types
  <1>. QED
    BY <1>4, <1>5, <1>6, <1>7, Zenon DEF Holds

(* A ticket is claimed.                                                    *)
LEMMA ClaimStep ==
  ASSUME Types, Locked, NEW f \in 0 .. SIZE, Holds(f), NEW p \in Producers,
         mpsc_fetch_add_head_relaxed(p)
  PROVE  Holds(f)'
  <1>1. ppc[p] = "claim" /\ ppc' = [ppc EXCEPT ![p] = "spin"] /\ tkt' = head
        /\ head' = (head + 1) % RANGE
    BY Zenon DEF mpsc_fetch_add_head_relaxed, Goto
  <1>2. Claimed = {} /\ Claimed' = {p}
    BY <1>1, Alone, Zenon DEF Claimed, Types
  <1>3. First' = First /\ First \in 0 .. RANGE - 1
    BY FirstType, Zenon DEF mpsc_fetch_add_head_relaxed, First, jrt
  <1>4. head = Plus(First, f, RANGE)
    BY <1>2, Sizes DEF Holds, Tickets, Waiting
  <1>5. (head + 1) % RANGE = Plus(head, 1, RANGE)
    BY Increment, Zenon DEF Types
  <1>6. Plus(Plus(First, f, RANGE), 1, RANGE) = Plus(First, f + 1, RANGE)
    BY <1>3, Sizes DEF Plus
  <1>7. Tickets(f)'
    BY <1>1, <1>2, <1>3, <1>4, <1>5, <1>6, Zenon DEF Tickets, Waiting
  <1>8. Window(f)'
    BY <1>3, Zenon DEF mpsc_fetch_add_head_relaxed, Window, Holds
  <1>9. Room(f)' /\ Some(f)' /\ Covered(f)'
    BY <1>1, Zenon DEF mpsc_fetch_add_head_relaxed, jrt, hist, Room, Some, Covered, Holds, Types
  <1>. QED
    BY <1>7, <1>8, <1>9, Zenon DEF Holds

(* A request is published.                                                 *)
LEMMA PublishStep ==
  ASSUME Types, Locked, NEW f \in 0 .. SIZE, Holds(f), NEW p \in Producers, Publish(p)
  PROVE  f + 1 \in 0 .. SIZE /\ Holds(f + 1)'
  <1>1. /\ \/ ppc[p] = "post" /\ ppc' = [ppc EXCEPT ![p] = "poke"]
           \/ ppc[p] = "late" /\ ppc' = [ppc EXCEPT ![p] = "unlock"]
        /\ flags' = [flags EXCEPT ![idx(tkt)] = 1]
    BY Zenon DEF Publish, Goto
  <1>2. Claimed = {p} /\ Claimed' = {}
    BY <1>1, Alone, Zenon DEF Claimed, Types
  <1>3. f < SIZE
    BY <1>1, Zenon DEF Holds, Room
  <1>4. First' = First /\ First \in 0 .. RANGE - 1 /\ idx(First) \in 0 .. SIZE - 1
    BY FirstType, Zenon DEF Publish, First, jrt, Slots
  <1>5. idx(tkt) \in Slots /\ idx(tkt) = Plus(idx(First), f, SIZE)
    BY <1>2, AtTicket, Zenon DEF Holds
  <1>6. Tickets(f + 1)'
    <2>1. head' = head /\ head = Plus(First, f + 1, RANGE)
      BY <1>2, Zenon DEF Publish, Holds, Tickets, Waiting
    <2>2. f + 1 + 0 = f + 1
      OBVIOUS
    <2>. QED
      BY <1>2, <1>4, <2>1, <2>2, Zenon DEF Tickets, Waiting
  <1>7. Window(f + 1)'
    <2>. SUFFICES ASSUME NEW i \in Slots
                  PROVE  flags'[i] = 1 <=> In(idx(First), f + 1, i)
      BY <1>4, Zenon DEF Window
    <2>1. In(idx(First), f + 1, i) <=> In(idx(First), f, i) \/ i = Plus(idx(First), f, SIZE)
      BY <1>3, <1>4, Sizes DEF In, Plus, Slots
    <2>2. flags'[i] = 1 <=> flags[i] = 1 \/ i = idx(tkt)
      BY <1>1, <1>5, Zenon DEF Types
    <2>. QED
      BY <1>5, <2>1, <2>2, Zenon DEF Holds, Window
  <1>8. Room(f + 1)'
    BY <1>1, Alone, Zenon DEF Room, Types
  <1>9. Some(f + 1)'
    BY DEF Publish, jrt, Some, Holds
  <1>10. Covered(f + 1)'
    BY <1>1 DEF Publish, hist, Covered, Types, Locked
  <1>. QED
    BY <1>3, <1>6, <1>7, <1>8, <1>9, <1>10, Sizes DEF Holds

(* The steps of the consumer that leave the slots alone.                   *)
LEMMA LookStep ==
  ASSUME Types, Locked, NEW f \in 0 .. SIZE, Holds(f),
         IrqEntry \/ LoadFlag \/ CopyOut \/ AdvanceTail \/ schedule_req
  PROVE  Holds(f)'
  <1>1. head' = head /\ flags' = flags /\ tkt' = tkt /\ ppc' = ppc
    BY Zenon DEF IrqEntry, LoadFlag, CopyOut, AdvanceTail, schedule_req, ring, linux
  <1>2. First' = First
    <2>1. CASE AdvanceTail
      BY <2>1, Increment, Zenon DEF AdvanceTail, First, Types
    <2>. QED
      BY <2>1, Zenon DEF IrqEntry, LoadFlag, CopyOut, schedule_req, ring, First
  <1>3. Tickets(f)' /\ Window(f)'
    BY <1>1, <1>2, Same, Zenon DEF Holds, Claimed
  <1>4. Room(f)'
    BY <1>1, Zenon DEF Room, Holds
  <1>5. Some(f)' /\ Covered(f)'
    <2>1. CASE LoadFlag
      <3>1. flags[idx(tail)] \in {0, 1} /\ (flags[idx(tail)] = 1 <=> f >= 1)
        BY <2>1, AtTail, Zenon DEF LoadFlag, Holds, Types
      <3>. QED
        BY <2>1, <3>1, Sizes DEF LoadFlag, Some, Covered
    <2>. QED
      BY <2>1, Zenon DEF IrqEntry, CopyOut, AdvanceTail, schedule_req, Some, Covered, Holds
  <1>. QED
    BY <1>3, <1>4, <1>5, Zenon DEF Holds

(* The consumer empties a slot.                                            *)
LEMMA ClearStep ==
  ASSUME Types, Locked, NEW f \in 0 .. SIZE, Holds(f), ClearFlag
  PROVE  f - 1 \in 0 .. SIZE /\ Holds(f - 1)'
  <1>1. f >= 1 /\ jpc = "clear" /\ jpc' = "tail" /\ First = tail /\ ppc' = ppc
        /\ Claimed' = Claimed /\ tkt' = tkt /\ head' = head
    BY Zenon DEF ClearFlag, Holds, Some, First, linux, Claimed
  <1>2. First' = Plus(First, 1, RANGE)
    BY <1>1, Zenon DEF ClearFlag, First
  <1>3. First \in 0 .. RANGE - 1 /\ idx(First) \in 0 .. SIZE - 1 /\ idx(First) \in Slots
    BY FirstType, Zenon DEF Slots
  <1>4. idx(Plus(First, 1, RANGE)) = Plus(idx(First), 1, SIZE)
    BY <1>3, IdxNext, Sizes
  <1>5. \A d \in 1 .. SIZE + 1 :
          Plus(Plus(First, 1, RANGE), d - 1, RANGE) = Plus(First, d, RANGE)
    BY <1>3, Sizes DEF Plus
  <1>6. Tickets(f - 1)'
    <2>1. Waiting' = Waiting /\ Waiting \in {0, 1}
      BY <1>1, Zenon DEF Waiting
    <2>2. f - 1 + Waiting = f + Waiting - 1 /\ f + Waiting \in 1 .. SIZE + 1 /\ f \in 1 .. SIZE + 1
      BY <1>1, <2>1, Sizes
    <2>. QED
      BY <1>1, <1>2, <1>5, <2>1, <2>2 DEF Tickets, Holds
  <1>7. Window(f - 1)'
    <2>. SUFFICES ASSUME NEW i \in Slots
                  PROVE  flags'[i] = 1 <=> In(Plus(idx(First), 1, SIZE), f - 1, i)
      BY <1>2, <1>4, Zenon DEF Window
    <2>1. In(Plus(idx(First), 1, SIZE), f - 1, i) <=> In(idx(First), f, i) /\ i # idx(First)
      BY <1>1, <1>3, Sizes DEF In, Plus, Slots
    <2>2. flags'[i] = 1 <=> flags[i] = 1 /\ i # idx(First)
      BY <1>1, <1>3 DEF ClearFlag, Types
    <2>. QED
      BY <2>1, <2>2, Zenon DEF Holds, Window
  <1>8. Room(f - 1)' /\ Some(f - 1)' /\ Covered(f - 1)'
    BY <1>1, Sizes DEF Room, Some, Covered, Holds
  <1>. QED
    BY <1>1, <1>6, <1>7, <1>8, Sizes DEF Holds

(* The ring that ipc_init leaves is empty.                                 *)
LEMMA EmptyStep ==
  ASSUME Types, Reset, ipc_init, load = "flags"
  PROVE  Holds(0)'
  <1>1. /\ head' = 0 /\ tail' = 0 /\ flags' = [i \in Slots |-> 0] /\ jpc' = jpc
        /\ Claimed' = {} /\ ppc' = ppc
    BY Zenon DEF ipc_init, Reset, jrt, linux, Claimed
  <1>2. First' = 0
    BY <1>1, Zenon DEF First, Reset
  <1>3. 0 \in Nat /\ idx(0) \in Slots
    BY IdxType, Zenon
  <1>4. Tickets(0)'
    BY <1>1, <1>2, Sizes DEF Tickets, Waiting, Plus
  <1>5. Window(0)'
    <2>1. \A i \in Slots : ~In(idx(0), 0, i)
      BY <1>3, Sizes DEF In, Slots
    <2>. QED
      BY <1>1, <1>2, <2>1 DEF Window
  <1>6. Room(0)' /\ Some(0)' /\ Covered(0)'
    BY <1>1, Sizes DEF Room, Some, Covered, Reset
  <1>. QED
    BY <1>4, <1>5, <1>6, Zenon DEF Holds

(* Loading the module again leaves what the ring holds until ipc_init.     *)
LEMMA LoadStep ==
  ASSUME NEW f \in 0 .. SIZE, Holds(f), rtcore_init
  PROVE  Holds(f)'
  <1>1. UNCHANGED <<ring, linux, jrt>> /\ load' = "head"
    BY Zenon DEF rtcore_init
  <1>2. First' = First /\ Claimed' = Claimed
    BY <1>1, Zenon DEF ring, linux, jrt, First, Claimed
  <1>3. Tickets(f)' /\ Window(f)'
    BY <1>1, <1>2, Same, Zenon DEF ring, linux, Holds
  <1>. QED
    BY <1>1, <1>3, Zenon DEF linux, jrt, Room, Some, Covered, Holds

-----------------------------------------------------------------------------
(* The invariant.                                                          *)

(* A ring in which something is under way is not being reset.              *)
LEMMA InUse ==
  ASSUME Types, Ordered, ~torn,
         jpc \notin {"idle", "halt"}
           \/ \E p \in Producers : ppc[p] \notin {"user", "lock", "claim"}
  PROVE  load = "done" /\ \E f \in 0 .. SIZE : Holds(f)
  BY SMTT(30) DEF Types, Ordered, Reset

(* Once torn, always torn.                                                 *)
LEMMA TornStep ==
  ASSUME Types, [Next]_vars, torn
  PROVE  torn'
  BY Zenon DEF Next, Producer, ipc_sched, vars, module, rtcore_init, ipc_init, rtcore_sched_prog,
         mutex_lock, mpsc_fetch_add_head_relaxed, Spin, Payload, Publish, Poke, mutex_unlock,
         IrqEntry, LoadFlag, CopyOut, ClearFlag, AdvanceTail, schedule_req

(* A full slot holds a request, and so does out between the copy and       *)
(* schedule_req.                                                           *)
LEMMA WrittenStep ==
  ASSUME RingInv, [Next]_vars, ~torn, ~torn'
  PROVE  Written'
  <1>. USE DEF RingInv
  <1>1. Types /\ Locked /\ Written
    BY Zenon DEF Ordered
  <1>2. ASSUME NEW p \in Producers, Payload(p) PROVE Written'
    <2>1. ppc[p] = "copy" /\ ppc' = [ppc EXCEPT ![p] = "post"] /\ UNCHANGED <<flags, tkt, jpc, out>>
      BY <1>2, Zenon DEF Payload, Goto, jrt
    <2>2. PICK r \in Recs : data' = [data EXCEPT ![idx(tkt)] = r]
      BY <1>2, Zenon DEF Payload
    <2>3. tkt \in Nat /\ idx(tkt) \in Slots
      BY <1>1, IdxType, Sizes DEF Types
    <2>4. data'[idx(tkt)] \in Recs
      BY <1>1, <2>2, <2>3, Zenon DEF Types
    <2>5. \A i \in Slots : i # idx(tkt) => data'[i] = data[i]
      BY <1>1, <2>2, Zenon DEF Types
    <2>. QED
      BY <1>1, <2>1, <2>4, <2>5, Zenon DEF Written
  <1>3. ASSUME NEW p \in Producers, Publish(p) PROVE Written'
    <2>1. /\ ppc[p] \in {"post", "late"} /\ data' = data /\ tkt' = tkt /\ UNCHANGED <<jpc, out>>
          /\ \A q \in Producers : ppc'[q] \in {"post", "late"} => ppc[q] \in {"post", "late"}
          /\ flags' = [flags EXCEPT ![idx(tkt)] = 1]
      BY <1>1, <1>3, Zenon DEF Publish, Goto, jrt, Types
    <2>2. \A i \in Slots : flags'[i] = 1 => flags[i] = 1 \/ i = idx(tkt)
      BY SMTT(30), <1>1, <2>1 DEF Types
    <2>. QED
      BY <1>1, <2>1, <2>2, Zenon DEF Written
  <1>4. ASSUME NEW p \in Producers, mpsc_fetch_add_head_relaxed(p) \/ mutex_unlock(p)
        PROVE  Written'
    <2>1. ppc[p] \in {"claim", "unlock"}
      BY SMTT(30), <1>4 DEF mpsc_fetch_add_head_relaxed, mutex_unlock, Goto
    <2>2. \A q \in Producers : ppc'[q] \notin {"post", "late"}
      BY <1>1, <1>4, <2>1, Alone, Zenon DEF mpsc_fetch_add_head_relaxed, mutex_unlock, Goto, Types
    <2>. QED
      BY <1>1, <1>4, <2>2, Zenon DEF mpsc_fetch_add_head_relaxed, mutex_unlock, ring, jrt, Written
  <1>5. ASSUME NEW p \in Producers,
               rtcore_sched_prog(p) \/ mutex_lock(p) \/ Spin(p) \/ Poke(p)
        PROVE  Written'
    <2>1. \A q \in Producers : ppc'[q] \in {"post", "late"} => ppc[q] \in {"post", "late"}
      BY <1>1, <1>5, Zenon DEF rtcore_sched_prog, mutex_lock, Spin, Poke, Goto, Types
    <2>. QED
      BY <1>1, <1>5, <2>1, Zenon DEF rtcore_sched_prog, mutex_lock, Spin, Poke, ring, jrt, Written
  <1>6. CASE CopyOut
    <2>1. jpc = "copy"
      BY <1>6, Zenon DEF CopyOut
    <2>2. PICK f \in 0 .. SIZE : Holds(f)
      BY <1>1, <2>1, InUse, Zenon
    <2>3. idx(tail) \in Slots /\ flags[idx(tail)] = 1
      BY <1>1, <2>1, <2>2, AtTail, Zenon DEF Holds, Some
    <2>4. data[idx(tail)] \in Recs
      BY <1>1, <2>3, Zenon DEF Written
    <2>. QED
      BY <1>1, <1>6, <2>4, Zenon DEF CopyOut, ring, linux, Written
  <1>7. CASE ClearFlag
    <2>1. \A i \in Slots : flags'[i] = 1 => flags[i] = 1
      BY <1>1, <1>7, Zenon DEF ClearFlag, Types
    <2>. QED
      BY <1>1, <1>7, <2>1, Zenon DEF ClearFlag, linux, Written
  <1>8. CASE ipc_init
    <2>1. \A i \in Slots : flags'[i] = 1 => flags[i] = 1
      BY SMTT(30), <1>8 DEF ipc_init
    <2>. QED
      BY <1>1, <1>8, <2>1, Zenon DEF ipc_init, linux, jrt, Written
  <1>9. CASE IrqEntry \/ LoadFlag \/ AdvanceTail \/ schedule_req \/ rtcore_init
    BY SMTT(30), <1>1, <1>9 DEF IrqEntry, LoadFlag, AdvanceTail, schedule_req, rtcore_init, ring, linux,
                      jrt, Written
  <1>10. CASE UNCHANGED vars
    BY <1>1, <1>10, Zenon DEF vars, ring, linux, jrt, Written
  <1>. QED
    BY <1>2, <1>3, <1>4, <1>5, <1>6, <1>7, <1>8, <1>9, <1>10, Zenon DEF Next, Producer, ipc_sched

(* Nobody uses the ring while it is reset, as long as it is not torn.      *)
LEMMA ResetStep ==
  ASSUME RingInv, [Next]_vars, ~torn, ~torn', load' # "done"
  PROVE  Reset'
  <1>. USE DEF RingInv
  <1>1. Types /\ (load # "done" => Reset)
    BY Zenon DEF Ordered
  <1>2. CASE rtcore_init
    BY <1>2, Zenon DEF rtcore_init, ring, linux, jrt, Reset
  <1>3. CASE ipc_init
    BY <1>1, <1>3, Zenon DEF ipc_init, linux, jrt, Reset
  <1>4. ASSUME NEW p \in Producers, rtcore_sched_prog(p) \/ Producer(p) PROVE Reset'
    BY <1>1, <1>4, Zenon DEF Producer, rtcore_sched_prog, mutex_lock, mpsc_fetch_add_head_relaxed, Spin,
       Payload, Publish, Poke, mutex_unlock, Goto, ring, jrt, module, Reset, Types
  <1>5. CASE IrqEntry \/ ipc_sched
    BY <1>1, <1>5, Zenon DEF IrqEntry, ipc_sched, LoadFlag, CopyOut, ClearFlag, AdvanceTail,
                      schedule_req, module, Reset
  <1>6. CASE UNCHANGED vars
    BY <1>1, <1>6, Zenon DEF vars, ring, linux, jrt, module, Reset
  <1>. QED
    BY <1>2, <1>3, <1>4, <1>5, <1>6, Zenon DEF Next

(* What the ring holds after a step.                                       *)
LEMMA HoldsStep ==
  ASSUME RingInv, [Next]_vars, ~torn, ~torn', load' \in {"done", "head"}
  PROVE  \E f \in 0 .. SIZE : Holds(f)'
  <1>. USE DEF RingInv
  <1>1. Types /\ Locked /\ (load # "done" => Reset)
    BY Zenon DEF Ordered
  <1>2. CASE ipc_init
    <2>1. load = "flags"
      BY <1>2, Zenon DEF ipc_init
    <2>2. Holds(0)'
      BY <1>1, <1>2, <2>1, EmptyStep, Zenon
    <2>. QED
      BY <2>2, Sizes
  <1>3. CASE ~ipc_init
    <2>1. load \in {"done", "head"}
      BY <1>3, Zenon DEF Next, Producer, ipc_sched, rtcore_init, rtcore_sched_prog, mutex_lock,
         mpsc_fetch_add_head_relaxed, Spin, Payload, Publish, Poke, mutex_unlock, IrqEntry, LoadFlag,
         CopyOut, ClearFlag, AdvanceTail, schedule_req, module, vars
    <2>2. PICK f \in 0 .. SIZE : Holds(f)
      BY <2>1, Zenon DEF Ordered
    <2>3. ASSUME NEW p \in Producers, rtcore_sched_prog(p) \/ Producer(p)
          PROVE  Holds(f)' \/ (f + 1 \in 0 .. SIZE /\ Holds(f + 1)')
      <3>1. CASE Publish(p)
        BY <1>1, <2>2, <3>1, PublishStep, Zenon
      <3>2. ASSUME mpsc_fetch_add_head_relaxed(p) PROVE Holds(f)'
        BY <1>1, <2>2, <3>2, ClaimStep, Zenon
      <3>3. ASSUME \/ rtcore_sched_prog(p) \/ mutex_lock(p) \/ Spin(p) \/ Payload(p)
                   \/ Poke(p) \/ mutex_unlock(p)
            PROVE  Holds(f)'
        BY <1>1, <2>2, <3>3, QuietStep, Zenon
      <3>. QED
        BY <2>3, <3>1, <3>2, <3>3, Zenon DEF Producer
    <2>4. CASE IrqEntry \/ ipc_sched
      BY <1>1, <2>2, <2>4, LookStep, ClearStep, Zenon DEF ipc_sched
    <2>5. CASE rtcore_init
      BY <2>2, <2>5, LoadStep, Zenon
    <2>6. CASE UNCHANGED vars
      <3>1. Holds(f)'
        BY <2>2, <2>6, Zenon DEF vars, ring, linux, jrt, hist, module, Holds, Tickets, Window, Room, Some,
                          Covered, First, Waiting, Claimed
      <3>. QED
        BY SMTT(30), <3>1
    <2>. QED
      BY <1>3, <2>3, <2>4, <2>5, <2>6, Zenon DEF Next
  <1>. QED
    BY <1>2, <1>3, Zenon

(* The ring, initially.                                                    *)
LEMMA RingInit == Init => RingInv
  <1>. SUFFICES ASSUME Init PROVE RingInv
    BY Zenon
  <1>1. Types
    <2>1. 0 \in 0 .. RANGE - 1 /\ 0 \in 0 .. IPC_BUDGET /\ 0 \in 0 .. MAX_LOADS
      BY Sizes, RingAssumption
    <2>. QED
      BY <2>1, Zenon DEF Init, Types
  <1>2. Locked
    BY Zenon DEF Init, Locked
  <1>3. Claimed = {} /\ First = 0
    BY Zenon DEF Init, Claimed, First
  <1>4. 0 \in Nat /\ idx(0) \in Slots
    BY IdxType, Zenon
  <1>5. Window(0)
    <2>1. \A i \in Slots : ~In(idx(0), 0, i)
      BY <1>4, Sizes DEF In, Slots
    <2>. QED
      BY <1>3, <2>1 DEF Window, Init
  <1>6. Tickets(0)
    BY <1>3, Sizes DEF Tickets, Waiting, Plus, Init
  <1>7. Room(0) /\ Some(0) /\ Covered(0)
    BY Sizes DEF Room, Some, Covered, Init
  <1>8. Written
    BY DEF Written, Init
  <1>. QED
    BY <1>1, <1>2, <1>5, <1>6, <1>7, <1>8, Sizes DEF RingInv, Ordered, Holds, Init

(* RingInv is inductive: at every step of mpsc_push, mpsc_pop, ipc_sched   *)
(* and ipc_init, head, tail, flags, the claimed ticket and the poke stand  *)
(* in the relation that the handlers rely on.                              *)
THEOREM RingInvariant == Spec => []RingInv
  <1>1. ASSUME RingInv, [Next]_vars PROVE RingInv'
    <2>1. Types' /\ Locked'
      BY <1>1, TypesStep, LockedStep, Zenon DEF RingInv
    <2>2. ~torn' => ~torn
      BY <1>1, TornStep, Zenon DEF RingInv
    <2>3. Ordered'
      <3>. SUFFICES ASSUME ~torn'
                    PROVE  /\ Written'
                           /\ load' # "done" => Reset'
                           /\ load' \in {"done", "head"} => \E f \in 0 .. SIZE : Holds(f)'
        BY Zenon DEF Ordered
      <3>. QED
        BY <1>1, <2>2, WrittenStep, ResetStep, HoldsStep, Zenon
    <2>. QED
      BY <2>1, <2>3, Zenon DEF RingInv
  <1>. QED
    BY RingInit, <1>1, PTL DEF Spec

-----------------------------------------------------------------------------
(* The properties.                                                         *)

(* As many slots are full as the ring holds requests.                      *)
LEMMA FullIs ==
  ASSUME Types, NEW f \in 0 .. SIZE, Window(f)
  PROVE  Full = f
  <1>1. idx(First) \in Slots
    BY FirstType, Zenon
  <1>2. {i \in Slots : flags[i] = 1} = {i \in Slots : In(idx(First), f, i)}
    BY Zenon DEF Window
  <1>. QED
    BY <1>1, <1>2, WindowSize, Zenon DEF Full

(* At most one ticket is claimed and not published.                        *)
LEMMA ClaimedIs ==
  ASSUME Types, Locked
  PROVE  Cardinality(Claimed) = Waiting
  <1>1. CASE Claimed = {}
    BY <1>1, FS_EmptySet, Zenon DEF Waiting
  <1>2. CASE Claimed # {}
    <2>1. PICK p \in Producers : p \in Claimed
      BY <1>2, Zenon DEF Claimed
    <2>2. Claimed = {p}
      BY <2>1, Alone, Zenon DEF Claimed
    <2>. QED
      BY <1>2, <2>2, FS_Singleton, Zenon DEF Waiting
  <1>. QED
    BY <1>1, <1>2, Zenon

(* What mailbox.h says of head, tail and flags, in every state.            *)
LEMMA InvTickets == RingInv => TicketsMatch
  <1>. SUFFICES ASSUME RingInv, ~torn, load = "done"
                PROVE  (head - tail) % RANGE
                         = Full + Cardinality(Claimed) + (IF jpc = "tail" THEN 1 ELSE 0)
    BY Zenon DEF TicketsMatch
  <1>1. Types /\ Locked
    BY Zenon DEF RingInv
  <1>2. PICK f \in 0 .. SIZE : Holds(f)
    BY Zenon DEF RingInv, Ordered
  <1>3. Full = f /\ Cardinality(Claimed) = Waiting /\ Waiting \in {0, 1}
    BY <1>1, <1>2, FullIs, ClaimedIs, Zenon DEF Holds, Waiting
  <1>. DEFINE lo == IF jpc = "tail" THEN 1 ELSE 0
              d == f + Waiting + lo
  <1>4. d \in 0 .. RANGE - 1 /\ tail \in 0 .. RANGE - 1
    BY <1>1, <1>3, Sizes DEF Types
  <1>5. head = Plus(tail, d, RANGE)
    BY <1>2, <1>3, <1>4, Sizes DEF Holds, Tickets, First, Plus
  <1>6. (head - tail) % RANGE = d
    BY <1>4, <1>5, Distance, Zenon
  <1>. QED
    BY <1>3, <1>6, Sizes, Zenon

(* A request is left alone only where StrandedOnlyBy says.                 *)
LEMMA InvStranded == RingInv => StrandedOnlyBy
  <1>. SUFFICES ASSUME RingInv, jpc = "idle", ~pending, Full > 0, ~torn, load = "done",
                       last # "budget", ~early,
                       \A p \in Producers : ppc[p] \in {"user", "lock", "unlock"}
                PROVE  FALSE
    BY Zenon DEF StrandedOnlyBy
  <1>1. PICK f \in 0 .. SIZE : Holds(f)
    BY Zenon DEF RingInv, Ordered
  <1>2. Full = f
    BY <1>1, FullIs, Zenon DEF RingInv, Holds
  <1>. QED
    BY <1>1, <1>2, Zenon DEF RingInv, Types, Holds, Covered

(* TypeOK follows: the lock has at most one holder.                        *)
LEMMA InvTypeOK == RingInv => TypeOK
  <1>. SUFFICES ASSUME RingInv PROVE TypeOK
    BY Zenon
  <1>1. Cardinality(lock) <= 1
    <2>1. CASE lock = {}
      BY <2>1, FS_EmptySet
    <2>2. CASE lock # {}
      <3>1. PICK p : lock = {p}
        BY <2>2 DEF RingInv, Locked
      <3>. QED
        BY <3>1, FS_Singleton
    <2>. QED
      BY <2>1, <2>2, Zenon
  <1>. QED
    BY <1>1, Zenon DEF RingInv, Types, Locked, TypeOK

(* mailbox.h's three views of the ring agree for every size of it: the     *)
(* tickets from tail to head are the full slots, the one being filled and  *)
(* the one being let go, also when the counters have wrapped.              *)
THEOREM RingTicketsMatch == Spec => []TicketsMatch
  BY RingInvariant, InvTickets, PTL

(* A request that nobody is going to look for was left by ipc_sched's      *)
(* budget, by a poke that overtook its flag, or by a reset in use.         *)
THEOREM RingStrandedOnlyBy == Spec => []StrandedOnlyBy
  BY RingInvariant, InvStranded, PTL

(* The ring's variables keep their types, and sched_lock has one holder.   *)
THEOREM RingTypeOK == Spec => []TypeOK
  BY RingInvariant, InvTypeOK, PTL

-----------------------------------------------------------------------------
(* The ring implements the queue.                                          *)

(* What is in the ring, in terms of First.                                 *)
Copied == IF jpc = "clear" THEN 1 ELSE 0
Contents == Recs \cup {NoRec}
Place(i) == Plus(idx(First), Copied + i - 1, SIZE)
QueueShape ==
  \A f \in 0 .. SIZE :
    Types /\ Holds(f) /\ load \in {"done", "head"} =>
      /\ f - Copied \in 0 .. SIZE
      /\ Queue \in Seq(Contents) /\ Len(Queue) = f - Copied
      /\ \A i \in 1 .. f - Copied : Place(i) \in Slots /\ Queue[i] = data[Place(i)]

(* A function on an initial segment is a sequence.                         *)
LEMMA FunSeq ==
  ASSUME NEW S, NEW n \in Nat, NEW s \in [1 .. n -> S]
  PROVE  s \in Seq(S) /\ Len(s) = n
  <1>1. s \in Seq(S)
    BY SeqDef, Zenon
  <1>2. 1 .. Len(s) = 1 .. n /\ Len(s) \in Nat
    BY <1>1, LenProperties, Zenon
  <1>. QED
    BY <1>1, <1>2

(* The queue is the requests from First on, but for one copied already.    *)
LEMMA QueueIs == QueueShape
  <1>. SUFFICES ASSUME NEW f \in 0 .. SIZE, Types, Holds(f), load \in {"done", "head"}
                PROVE  /\ f - Copied \in 0 .. SIZE
                       /\ Queue \in Seq(Contents) /\ Len(Queue) = f - Copied
                       /\ \A i \in 1 .. f - Copied : Place(i) \in Slots /\ Queue[i] = data[Place(i)]
    BY Zenon DEF QueueShape
  <1>. DEFINE start == IF jpc = "clear" \/ jpc = "tail" THEN tail + 1 ELSE tail
              n == f - Copied
  <1>1. n \in 0 .. SIZE /\ Copied \in {0, 1}
    BY Sizes DEF Copied, Holds, Some
  <1>2. Full = f
    BY FullIs, Zenon DEF Holds
  <1>3. Queue = [i \in 1 .. n |-> data[idx(start + i - 1)]]
    BY <1>2, Zenon DEF Queue, Copied
  <1>4. \A i \in 1 .. n : idx(start + i - 1) = Place(i) /\ Place(i) \in Slots
    <2>. TAKE i \in 1 .. n
    <2>1. tail \in Nat /\ tail \in 0 .. RANGE - 1 /\ First \in 0 .. RANGE - 1 /\ idx(First) \in Slots
      BY FirstType, Sizes DEF Types
    <2>2. CASE jpc = "tail"
      <3>1. tail + 1 \in Nat /\ i - 1 \in 0 .. SIZE /\ 1 \in 0 .. SIZE
        BY <1>1, <2>1, Sizes
      <3>2. idx(tail + 1) = Plus(idx(tail), 1, SIZE) /\ idx(First) = Plus(idx(tail), 1, SIZE)
        BY <2>1, <2>2, <3>1, IdxPlus, IdxNext, Zenon DEF First
      <3>3. idx(tail + 1 + (i - 1)) = Plus(idx(First), i - 1, SIZE)
        BY <3>1, <3>2, IdxPlus, Zenon
      <3>4. start + i - 1 = tail + 1 + (i - 1) /\ Copied + i - 1 = i - 1
            /\ tail + 1 + (i - 1) \in Nat
        BY <2>1, <2>2, <3>1 DEF Copied
      <3>. QED
        BY <3>3, <3>4, IdxType, Zenon DEF Place
    <2>3. CASE jpc # "tail"
      <3>1. Copied + i - 1 \in 0 .. SIZE
        BY <1>1, Sizes
      <3>2. idx(tail + (Copied + i - 1)) = Plus(idx(tail), Copied + i - 1, SIZE)
        BY <2>1, <3>1, IdxPlus, Zenon
      <3>3. start + i - 1 = tail + (Copied + i - 1) /\ First = tail
            /\ tail + (Copied + i - 1) \in Nat
        BY <2>1, <2>3, <3>1, Sizes DEF Copied, First
      <3>. QED
        BY <3>2, <3>3, IdxType, Zenon DEF Place
    <2>. QED
      BY <2>2, <2>3, Zenon
  <1>. HIDE DEF start, n, Place
  <1>5. Queue \in [1 .. n -> Contents]
    BY <1>3, <1>4, Zenon DEF Types, Contents
  <1>6. Queue \in Seq(Contents) /\ Len(Queue) = n
    BY <1>1, <1>5, FunSeq, Sizes
  <1>7. \A i \in 1 .. n : Queue[i] = data[Place(i)]
    BY <1>3, <1>4, Zenon
  <1>. QED
    BY <1>1, <1>4, <1>6, <1>7, Zenon DEF n

(* It holds in the next state too.                                         *)
LEMMA QueueIsNext == QueueShape'
  BY QueueIs, PTL

(* The queue stays when its requests do.                                   *)
LEMMA SameQueue ==
  ASSUME Types, Types', NEW f \in 0 .. SIZE, Holds(f), Holds(f)',
         load \in {"done", "head"}, load' \in {"done", "head"},
         First' = First, Copied' = Copied,
         \A i \in 1 .. f - Copied : data'[Place(i)] = data[Place(i)]
  PROVE  Queue' = Queue
  <1>1. /\ Queue \in Seq(Contents) /\ Len(Queue) = f - Copied
        /\ \A i \in 1 .. f - Copied : Queue[i] = data[Place(i)]
    BY QueueIs, Zenon DEF QueueShape
  <1>2. /\ Queue' \in Seq(Contents) /\ Len(Queue') = f - Copied'
        /\ \A i \in 1 .. f - Copied' : Queue'[i] = data'[Place(i)']
    BY QueueIsNext, Zenon DEF QueueShape, Contents
  <1>3. \A i : Place(i)' = Place(i)
    BY Zenon DEF Place
  <1>. QED
    BY <1>1, <1>2, <1>3, SeqEqual

(* Publishing a request sends it.                                          *)
LEMMA PublishSends ==
  ASSUME RingInv, RingInv', ~torn, ~torn', NEW p \in Producers, Publish(p)
  PROVE  \E r \in Recs : Q!Send(r)
  <1>1. Types /\ Locked /\ Types' /\ Written
    BY Zenon DEF RingInv, Ordered
  <1>2. ppc[p] \in {"post", "late"} /\ load' = load /\ data' = data /\ jpc' = jpc /\ First' = First
    BY Zenon DEF Publish, Goto, module, jrt, First
  <1>3. load = "done" /\ \E f \in 0 .. SIZE : Holds(f)
    BY <1>1, <1>2, InUse, Zenon DEF RingInv
  <1>4. PICK f \in 0 .. SIZE : Holds(f)
    BY <1>3, Zenon
  <1>5. f + 1 \in 0 .. SIZE /\ Holds(f + 1)'
    BY <1>1, <1>4, PublishStep, Zenon
  <1>6. /\ f - Copied \in 0 .. SIZE
        /\ Queue \in Seq(Contents) /\ Len(Queue) = f - Copied
        /\ \A i \in 1 .. f - Copied : Queue[i] = data[Place(i)]
    BY <1>1, <1>3, <1>4, QueueIs, Zenon DEF QueueShape
  <1>7. Copied' = Copied /\ Copied \in {0, 1} /\ (\A i : Place(i)' = Place(i))
    BY <1>2, Zenon DEF Copied, Place
  <1>8. /\ Queue' \in Seq(Contents) /\ Len(Queue') = f + 1 - Copied
        /\ \A i \in 1 .. f + 1 - Copied : Queue'[i] = data[Place(i)]
    BY <1>1, <1>2, <1>3, <1>5, <1>7, QueueIsNext DEF QueueShape, Contents
  <1>. DEFINE r == data[idx(tkt)]
  <1>9. r \in Recs
    BY <1>1, <1>2, Zenon DEF Written
  <1>10. data[Place(f + 1 - Copied)] = r
    <2>1. Claimed # {}
      BY <1>2, Zenon DEF Claimed
    <2>2. idx(tkt) = Plus(idx(First), f, SIZE)
      BY <1>1, <1>4, <2>1, AtTicket, Zenon DEF Holds
    <2>3. Copied + (f + 1 - Copied) - 1 = f
      BY <1>7
    <2>. QED
      BY <2>2, <2>3, Zenon DEF Place
  <1>. HIDE DEF r, Copied
  <1>11. Queue' = Append(Queue, r)
    <2>1. r \in Contents
      BY <1>9, Zenon DEF Contents
    <2>2. Append(Queue, r) \in Seq(Contents) /\ Len(Append(Queue, r)) = Len(Queue) + 1
          /\ \A i \in 1 .. Len(Queue) + 1 :
               Append(Queue, r)[i] = IF i <= Len(Queue) THEN Queue[i] ELSE r
      BY <1>6, <2>1, AppendProperties
    <2>3. \A i \in 1 .. f + 1 - Copied : i <= f - Copied \/ i = f + 1 - Copied
      BY <1>7
    <2>4. f + 1 - Copied = f - Copied + 1 /\ f - Copied \in Nat
      BY <1>6, <1>7
    <2>5. \A i \in 1 .. Len(Queue') : Queue'[i] = Append(Queue, r)[i]
      BY <1>6, <1>8, <1>10, <2>2, <2>3, <2>4
    <2>. QED
      BY <1>6, <1>8, <2>2, <2>4, <2>5, SeqEqual, Zenon
  <1>12. Len(Queue) < SIZE
    BY <1>5, <1>6, <1>7, Sizes
  <1>13. UNCHANGED <<out, loads, torn>>
    BY Zenon DEF Publish, jrt, module
  <1>. QED
    BY <1>9, <1>11, <1>12, <1>13, Zenon DEF Q!Send

(* Copying a request out takes the first one.                              *)
LEMMA CopyTakes ==
  ASSUME RingInv, RingInv', ~torn, ~torn', CopyOut
  PROVE  Q!Take
  <1>1. Types /\ Locked /\ Types' /\ Written
    BY Zenon DEF RingInv, Ordered
  <1>2. jpc = "copy" /\ jpc' = "clear" /\ UNCHANGED <<load, data, tail>> /\ First' = First
        /\ Copied = 0 /\ Copied' = 1 /\ First = tail
    BY Zenon DEF CopyOut, module, ring, First, Copied
  <1>3. load = "done" /\ \E f \in 0 .. SIZE : Holds(f)
    BY <1>1, <1>2, InUse, Zenon DEF RingInv
  <1>4. PICK f \in 0 .. SIZE : Holds(f)
    BY <1>3, Zenon
  <1>5. Holds(f)' /\ f >= 1
    BY <1>1, <1>2, <1>4, LookStep, Zenon DEF Holds, Some
  <1>6. /\ Queue \in Seq(Contents) /\ Len(Queue) = f
        /\ \A i \in 1 .. f : Queue[i] = data[Place(i)]
    BY <1>1, <1>2, <1>3, <1>4, QueueIs, Sizes DEF QueueShape
  <1>7. /\ Queue' \in Seq(Contents) /\ Len(Queue') = f - 1
        /\ \A i \in 1 .. f - 1 : Queue'[i] = data[Place(i)']
    BY <1>1, <1>2, <1>3, <1>5, QueueIsNext, Zenon DEF QueueShape, Contents
  <1>8. \A i \in 1 .. f - 1 : Place(i)' = Place(i + 1)
    <2>. TAKE i \in 1 .. f - 1
    <2>1. 1 + i - 1 = i /\ 0 + (i + 1) - 1 = i
      BY Sizes
    <2>. QED
      BY <1>2, <2>1, Zenon DEF Place
  <1>9. Queue # <<>>
    BY <1>5, <1>6, EmptySeq
  <1>10. Queue' = Tail(Queue)
    <2>1. /\ Tail(Queue) \in Seq(Contents) /\ Len(Tail(Queue)) = f - 1
          /\ \A i \in 1 .. f - 1 : Tail(Queue)[i] = Queue[i + 1]
      BY <1>6, <1>9, HeadTailProperties
    <2>2. \A i \in 1 .. f - 1 : i + 1 \in 1 .. f
      BY Sizes
    <2>3. \A i \in 1 .. Len(Queue') : Queue'[i] = Tail(Queue)[i]
      BY <1>6, <1>7, <1>8, <2>1, <2>2
    <2>. QED
      BY <1>7, <2>1, <2>3, SeqEqual, Zenon
  <1>11. out' = Head(Queue)
    <2>1. Head(Queue) = Queue[1] /\ 1 \in 1 .. f
      BY <1>5, <1>6, <1>9, Sizes
    <2>2. idx(First) \in 0 .. SIZE - 1
      BY <1>1, FirstType, Zenon DEF Slots
    <2>3. Plus(idx(First), 0, SIZE) = idx(First) /\ 0 + 1 - 1 = 0
      BY <2>2, Sizes DEF Plus
    <2>4. Place(1) = idx(tail)
      BY <1>2, <2>3, Zenon DEF Place
    <2>. QED
      BY <1>6, <2>1, <2>4, Zenon DEF CopyOut
  <1>12. out = NoRec /\ UNCHANGED <<loads, torn>>
    BY <1>1, <1>2, Zenon DEF Locked, CopyOut, module
  <1>. QED
    BY <1>9, <1>10, <1>11, <1>12, Zenon DEF Q!Take

(* Emptying the slot of a request that was copied changes nothing.         *)
LEMMA ClearKeeps ==
  ASSUME RingInv, RingInv', ~torn, ~torn', ClearFlag
  PROVE  Queue' = Queue
  <1>1. Types /\ Locked /\ Types'
    BY Zenon DEF RingInv
  <1>2. jpc = "clear" /\ jpc' = "tail" /\ UNCHANGED <<load, data, tail>>
        /\ First' = Plus(First, 1, RANGE) /\ Copied = 1 /\ Copied' = 0
    BY Zenon DEF ClearFlag, module, First, Copied
  <1>3. load = "done" /\ \E f \in 0 .. SIZE : Holds(f)
    BY <1>1, <1>2, InUse, Zenon DEF RingInv
  <1>4. PICK f \in 0 .. SIZE : Holds(f)
    BY <1>3, Zenon
  <1>5. f - 1 \in 0 .. SIZE /\ Holds(f - 1)'
    BY <1>1, <1>4, ClearStep, Zenon
  <1>6. /\ Queue \in Seq(Contents) /\ Len(Queue) = f - 1
        /\ \A i \in 1 .. f - 1 : Queue[i] = data[Place(i)]
    BY <1>1, <1>2, <1>3, <1>4, QueueIs, Zenon DEF QueueShape
  <1>7. /\ Queue' \in Seq(Contents) /\ Len(Queue') = f - 1 - 0
        /\ \A i \in 1 .. f - 1 - 0 : Queue'[i] = data[Place(i)']
    BY <1>1, <1>2, <1>3, <1>5, QueueIsNext, Zenon DEF QueueShape, Contents
  <1>8. \A i \in 1 .. f - 1 : Place(i)' = Place(i)
    <2>. TAKE i \in 1 .. f - 1
    <2>1. First \in 0 .. RANGE - 1 /\ idx(First) \in 0 .. SIZE - 1
      BY <1>1, FirstType, Zenon DEF Slots
    <2>2. idx(First') = Plus(idx(First), 1, SIZE)
      BY <1>2, <2>1, IdxNext, Sizes
    <2>3. Plus(Plus(idx(First), 1, SIZE), 0 + i - 1, SIZE) = Plus(idx(First), 1 + i - 1, SIZE)
      BY <2>1, Sizes DEF Plus
    <2>. QED
      BY <1>2, <2>2, <2>3, Zenon DEF Place
  <1>9. f - 1 - 0 = f - 1
    BY SMTT(30), Sizes
  <1>. QED
    BY <1>6, <1>7, <1>8, <1>9, SeqEqual, Zenon

(* The other steps of the producers leave the queue alone: what Payload    *)
(* writes is not yet in it.                                                *)
LEMMA ProducerKeeps ==
  ASSUME RingInv, RingInv', ~torn, ~torn', NEW p \in Producers,
         \/ rtcore_sched_prog(p) \/ mutex_lock(p) \/ mpsc_fetch_add_head_relaxed(p) \/ Spin(p)
         \/ Payload(p) \/ Poke(p) \/ mutex_unlock(p)
  PROVE  Queue' = Queue
  <1>1. Types /\ Locked /\ Types'
    BY SMTT(30) DEF RingInv
  <1>2. load' = load /\ First' = First /\ Copied' = Copied
    BY SMTT(30) DEF rtcore_sched_prog, mutex_lock, mpsc_fetch_add_head_relaxed, Spin, Payload, Poke,
           mutex_unlock, module, ring, jrt, First, Copied
  <1>3. CASE load \in {"tail", "flags"}
    BY <1>2, <1>3, Zenon DEF Queue
  <1>4. CASE load \in {"done", "head"}
    <2>1. PICK f \in 0 .. SIZE : Holds(f)
      BY <1>4, Zenon DEF RingInv, Ordered
    <2>2. Holds(f)'
      BY SMTT(30), <1>1, <2>1, QuietStep, ClaimStep
    <2>3. \A i \in 1 .. f - Copied : data'[Place(i)] = data[Place(i)]
      <3>1. CASE Payload(p)
        <4>1. ppc[p] = "copy" /\ Claimed # {} /\ f < SIZE
          BY <2>1, <3>1, Zenon DEF Payload, Goto, Claimed, Holds, Room
        <4>2. idx(tkt) = Plus(idx(First), f, SIZE)
          BY <1>1, <2>1, <4>1, AtTicket, Zenon DEF Holds
        <4>3. idx(First) \in 0 .. SIZE - 1 /\ Copied \in {0, 1}
          BY <1>1, FirstType, Zenon DEF Slots, Copied
        <4>4. \A i \in 1 .. f - Copied : Place(i) # idx(tkt) /\ Place(i) \in Slots
          <5>. HIDE DEF Copied
          <5>. TAKE i \in 1 .. f - Copied
          <5>1. Plus(idx(First), Copied + i - 1, SIZE) # Plus(idx(First), f, SIZE)
                /\ Plus(idx(First), Copied + i - 1, SIZE) \in 0 .. SIZE - 1
            BY SMTT(30), <4>1, <4>3, Sizes DEF Plus
          <5>. QED
            BY <4>2, <5>1, Zenon DEF Place, Slots
        <4>5. \A j \in Slots : j # idx(tkt) => data'[j] = data[j]
          BY <1>1, <3>1, Zenon DEF Payload, Types
        <4>. QED
          BY <4>4, <4>5, Zenon
      <3>. QED
        BY <3>1, Zenon DEF rtcore_sched_prog, mutex_lock, mpsc_fetch_add_head_relaxed, Spin, Poke,
                    mutex_unlock, ring
    <2>. QED
      BY <1>1, <1>2, <1>4, <2>1, <2>2, <2>3, SameQueue, Zenon
  <1>. QED
    BY <1>1, <1>3, <1>4, Zenon DEF Types

(* So do the other steps of the consumer, and rtcore_init.                 *)
LEMMA ConsumerKeeps ==
  ASSUME RingInv, RingInv', ~torn, ~torn',
         IrqEntry \/ LoadFlag \/ AdvanceTail \/ schedule_req \/ rtcore_init
  PROVE  Queue' = Queue
  <1>1. Types /\ Locked /\ Types'
    BY Zenon DEF RingInv
  <1>2. load = "done" /\ load' \in {"done", "head"} /\ data' = data /\ Copied' = Copied
    <2>1. CASE IrqEntry
      BY <2>1, Zenon DEF IrqEntry, ring, Copied
    <2>2. CASE rtcore_init
      BY <2>2, Zenon DEF rtcore_init, ring, jrt, Copied
    <2>3. CASE LoadFlag \/ AdvanceTail \/ schedule_req
      <3>1. jpc \notin {"idle", "halt"}
        BY <2>3, Zenon DEF LoadFlag, AdvanceTail, schedule_req
      <3>2. load = "done"
        BY SMTT(30), <1>1, <3>1, InUse DEF RingInv
      <3>. QED
        BY SMTT(30), <2>3, <3>2 DEF LoadFlag, AdvanceTail, schedule_req, ring, module, Copied
    <2>. QED
      BY <2>1, <2>2, <2>3, Zenon
  <1>3. First' = First
    <2>1. CASE AdvanceTail
      BY <1>1, <2>1, Increment, Zenon DEF AdvanceTail, First, Types
    <2>. QED
      BY SMTT(30), <2>1 DEF IrqEntry, LoadFlag, schedule_req, rtcore_init, ring, jrt, First
  <1>4. PICK f \in 0 .. SIZE : Holds(f)
    BY <1>2, Zenon DEF RingInv, Ordered
  <1>5. Holds(f)'
    BY <1>1, <1>4, LookStep, LoadStep, Zenon
  <1>. QED
    BY <1>1, <1>2, <1>3, <1>4, <1>5, SameQueue, Zenon

(* ipc_init clears the queue, at its first store.                          *)
LEMMA InitClears ==
  ASSUME RingInv, RingInv', ~torn, ~torn', ipc_init
  PROVE  Q!Clear \/ UNCHANGED <<Queue, out, loads, torn>>
  <1>1. Types /\ Types' /\ out' = out /\ torn' = torn /\ jpc' = jpc
    BY SMTT(30) DEF RingInv, ipc_init, jrt
  <1>2. CASE load = "head"
    BY <1>1, <1>2, Zenon DEF ipc_init, Queue, Q!Clear
  <1>3. CASE load = "tail"
    BY <1>1, <1>3, Zenon DEF ipc_init, Queue
  <1>4. CASE load = "flags"
    <2>1. Reset /\ load' = "done" /\ loads' = loads
      BY <1>4, Zenon DEF RingInv, Ordered, ipc_init
    <2>2. Holds(0)' /\ Copied' = 0 /\ 0 \in 0 .. SIZE
      BY <1>1, <1>4, <2>1, EmptyStep, Sizes DEF Reset, Copied
    <2>3. Queue' \in Seq(Contents) /\ Len(Queue') = 0 - 0
      BY <1>1, <2>1, <2>2, QueueIsNext, Zenon DEF QueueShape, Contents
    <2>4. Queue' = <<>>
      BY <2>3, EmptySeq
    <2>. QED
      BY <1>1, <1>4, <2>1, <2>4, Zenon DEF Queue
  <1>. QED
    BY <1>2, <1>3, <1>4, Zenon DEF ipc_init

(* Every step of the ring is a step of the queue, or none.                 *)
LEMMA FifoStep ==
  ASSUME RingInv, RingInv', [Next]_vars
  PROVE  [Q!Next]_(Q!vars)
  <1>1. CASE torn'
    BY <1>1, Zenon DEF Q!Next, Q!Break
  <1>2. CASE ~torn'
    <2>1. ~torn
      BY <1>2, TornStep, Zenon DEF RingInv
    <2>2. ASSUME NEW p \in Producers, rtcore_sched_prog(p) \/ Producer(p)
          PROVE  [Q!Next]_(Q!vars)
      <3>1. CASE Publish(p)
        BY SMTT(30), <1>2, <2>1, <3>1, PublishSends DEF Q!Next
      <3>2. CASE ~Publish(p)
        <4>1. Queue' = Queue
          BY SMTT(30), <1>2, <2>1, <2>2, <3>2, ProducerKeeps DEF Producer
        <4>2. UNCHANGED <<out, loads>>
          BY <2>2, <3>2, Zenon DEF Producer, rtcore_sched_prog, mutex_lock, Spin, Payload, Poke,
                            mutex_unlock, mpsc_fetch_add_head_relaxed, module, jrt
        <4>. QED
          BY <1>2, <2>1, <4>1, <4>2, Zenon DEF Q!vars, RingInv, Types
      <3>. QED
        BY <3>1, <3>2, Zenon
    <2>3. CASE CopyOut
      BY <1>2, <2>1, <2>3, CopyTakes, Zenon DEF Q!Next
    <2>4. CASE schedule_req
      <3>1. Queue' = Queue
        BY <1>2, <2>1, <2>4, ConsumerKeeps, Zenon
      <3>2. out # NoRec
        BY <2>1, <2>4, RingAssumption, Zenon DEF schedule_req, RingInv, Ordered, Written
      <3>. QED
        BY <2>4, <3>1, <3>2, Zenon DEF schedule_req, module, Q!Serve, Q!Next
    <2>5. CASE ClearFlag
      BY SMTT(30), <1>2, <2>1, <2>5, ClearKeeps DEF ClearFlag, module, Q!vars
    <2>6. CASE IrqEntry \/ LoadFlag \/ AdvanceTail \/ rtcore_init
      <3>1. Queue' = Queue
        BY SMTT(30), <1>2, <2>1, <2>6, ConsumerKeeps
      <3>2. UNCHANGED <<out, loads>>
        BY <2>6, Zenon DEF IrqEntry, LoadFlag, AdvanceTail, rtcore_init, module, jrt
      <3>. QED
        BY <1>2, <2>1, <3>1, <3>2, Zenon DEF Q!vars, RingInv, Types
    <2>7. CASE ipc_init
      BY <1>2, <2>1, <2>7, InitClears, Zenon DEF Q!Next, Q!vars
    <2>8. CASE UNCHANGED vars
      BY <2>8, Zenon DEF vars, ring, jrt, module, Q!vars, Queue, Full
    <2>. QED
      BY <2>2, <2>3, <2>4, <2>5, <2>6, <2>7, <2>8, Zenon DEF Next, ipc_sched
  <1>. QED
    BY <1>1, <1>2, Zenon

(* Initially the queue is empty.                                           *)
LEMMA FifoInit == Init => Q!Init
  <1>. SUFFICES ASSUME Init PROVE Q!Init
    BY Zenon
  <1>1. {i \in Slots : flags[i] = 1} = {}
    BY DEF Init
  <1>2. Full = 0
    BY <1>1, FS_EmptySet, Zenon DEF Full
  <1>3. Queue = [i \in 1 .. 0 |-> data[idx(tail + i - 1)]]
    BY <1>2 DEF Queue, Init
  <1>4. Queue = <<>>
    BY <1>3
  <1>. QED
    BY <1>4, Zenon DEF Init, Q!Init

(* mpsc_push, mpsc_pop and ipc_init implement the FIFO queue, for every    *)
(* number of producers, size of the ring and range of the tickets: every   *)
(* request comes out once, in order, as it was written.                    *)
THEOREM RingRefinesFifo == Spec => RefinesFifo
  <1>1. RingInv /\ RingInv' /\ [Next]_vars => [Q!Next]_(Q!vars)
    BY FifoStep, Zenon
  <1>. QED
    BY FifoInit, RingInvariant, <1>1, PTL DEF Spec, RefinesFifo, Q!Spec
=============================================================================
