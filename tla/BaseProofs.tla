----------------------------- MODULE BaseProofs -----------------------------
(***************************************************************************)
(* Proofs about the parts that the scheduler stands on.                    *)
(*                                                                         *)
(* The time base: its conversions and its periodic timer, for every        *)
(* frequency, unit and word that the assumptions allow.                    *)
(*                                                                         *)
(* The heap: the array of heap.c stays in order and implements module      *)
(* PQueue, for every arity, capacity and set of keys.                      *)
(*                                                                         *)
(* The switching of address spaces, for any number of slots, programs and  *)
(* ASIDs.  ActiveTablesLive is nearly inductive; OwnImageUntilReuse is not *)
(* at all, because the TLB outlives the processes it was filled for.  What *)
(* makes it true is the order in which sched_new_proc hands out ASIDs: the *)
(* invariant says which of them have been used and that an entry of the    *)
(* TLB agrees with the map of whichever process holds its ASID now.        *)
(***************************************************************************)
EXTENDS Timebase, MinHeap, AddrSpace, WellFoundedInduction, TLAPS

-----------------------------------------------------------------------------
(* Arithmetic.                                                             *)

(* A division with remainder.                                              *)
LEMMA DivMod ==
  ASSUME NEW x \in Nat, NEW y \in Nat \ {0}
  PROVE  /\ x \div y \in Nat /\ x % y \in Nat
         /\ x % y < y
         /\ x = y * (x \div y) + (x % y)
  OBVIOUS

(* Multiplication keeps the order.                                         *)
LEMMA TimesMono ==
  ASSUME NEW x \in Nat, NEW y \in Nat, NEW c \in Nat, x <= y
  PROVE  x * c <= y * c
  OBVIOUS

(* And a smaller product with the same factor has a smaller other factor.  *)
LEMMA TimesCancel ==
  ASSUME NEW x \in Nat, NEW y \in Nat, NEW c \in Nat \ {0}, x * c < y * c
  PROVE  x < y
  <1>. SUFFICES ASSUME y <= x PROVE FALSE
    OBVIOUS
  <1>1. y * c <= x * c
    BY TimesMono, Zenon
  <1>. QED
    BY <1>1

(* A multiple leaves no remainder.                                         *)
LEMMA MultipleMod ==
  ASSUME NEW k \in Int, NEW p \in Nat \ {0}
  PROVE  (k * p) % p = 0
  OBVIOUS

(* A set of natural numbers that is not empty has a least element.         *)
LEMMA LeastNat ==
  ASSUME NEW S \in SUBSET Nat, S # {}
  PROVE  \E m \in S : \A n \in S : m <= n
  <1>. DEFINE R == {p \in Nat \X Nat : p[1] < p[2]}
  <1>1. IsWellFoundedOn(R, Nat)
    BY NatLessThanWellFounded, Zenon DEF OpToRel
  <1>2. PICK m \in S : \A n \in S : ~(<<n, m>> \in R)
    <2>. HIDE DEF R
    <2>. QED BY <1>1, WFMin, Zenon
  <1>3. m \in Nat /\ \A n \in S : n \in Nat /\ ~(n < m)
    BY <1>2, Zenon
  <1>. QED
    BY <1>3

(* A quotient is determined by its remainder's range.                      *)
LEMMA DivUnique ==
  ASSUME NEW n \in Nat, NEW d \in Nat \ {0}, NEW q \in Nat, NEW r \in 0 .. d - 1,
         n = d * q + r
  PROVE  n \div d = q
  <1>. DEFINE p == n \div d
              s == n % d
  <1>1. p \in Nat /\ s \in Nat /\ s < d /\ n = d * p + s
    BY DivMod, Zenon
  <1>. HIDE DEF p, s
  <1>2. ~(p < q)
    <2>. SUFFICES ASSUME p < q PROVE FALSE
      BY Zenon
    <2>1. (p + 1) * d <= q * d
      BY <1>1, TimesMono
    <2>. QED
      BY <1>1, <2>1
  <1>3. ~(q < p)
    <2>. SUFFICES ASSUME q < p PROVE FALSE
      BY Zenon
    <2>1. (q + 1) * d <= p * d
      BY <1>1, TimesMono
    <2>. QED
      BY <1>1, <2>1
  <1>4. p = q
    BY <1>1, <1>2, <1>3
  <1>. QED
    BY <1>4, Zenon DEF p

(* A number that fits in a word is left as it is.                          *)
LEMMA WordFits ==
  ASSUME NEW n \in Nat, n < WORD
  PROVE  Word(n) = n
  BY TimebaseAssumption DEF Word

-----------------------------------------------------------------------------
(* The conversions.                                                        *)

(* ticks_from_ns and ticks_from_us: no word overflows when the result fits,*)
(* so what they compute is the rounded quotient x * FRQ / u.               *)
LEMMA TicksFromExact ==
  ASSUME NEW u \in Units, NEW x \in Nat, x * FRQ + u < WORD * u
  PROVE  /\ ticks_from(u, FRQ, x) \in Nat
         /\ ticks_from(u, FRQ, x) * u <= x * FRQ + u \div 2
         /\ x * FRQ + u \div 2 < ticks_from(u, FRQ, x) * u + u
  <1>. DEFINE f == FRQ
              h == u \div 2
              q == x \div u
              r == x % u
              w == r * f + h
              k == w \div u
              t == q * f + k
  <1>1. u \in Nat \ {0} /\ f \in Nat \ {0} /\ WORD \in Nat
    BY TimebaseAssumption, Zenon
  <1>2. h \in Nat /\ h <= u
    BY <1>1
  <1>3. q \in Nat /\ r \in Nat /\ r <= u - 1 /\ x = u * q + r
    BY <1>1, DivMod
  <1>4. r * f \in Nat /\ r * f <= (u - 1) * f
    BY <1>1, <1>3, TimesMono
  <1>5. w \in Nat /\ w < WORD
    BY <1>1, <1>2, <1>4, TimebaseAssumption
  <1>6. k \in Nat /\ k * u <= w /\ w < k * u + u
    <2>1. k \in Nat /\ w % u \in Nat /\ w % u < u /\ w = u * k + (w % u)
      BY <1>1, <1>5, DivMod, Zenon
    <2>. QED
      BY <1>1, <2>1
  <1>7. t \in Nat /\ q * f \in Nat /\ q * f <= t
    BY <1>1, <1>3, <1>6
  <1>8. t * u = (q * f) * u + k * u
    BY <1>1, <1>3, <1>6
  <1>9. x * f = (q * f) * u + r * f
    BY <1>1, <1>3
  <1>10. t * u <= x * f + h /\ x * f + h < t * u + u
    <2>. HIDE DEF t, k, w, q, r, h, f
    <2>1. w = r * f + h
      BY Zenon DEF w
    <2>2. (q * f) * u \in Nat /\ k * u \in Nat
      BY <1>1, <1>6, <1>7
    <2>. QED
      BY <1>1, <1>2, <1>4, <1>6, <1>8, <1>9, <2>1, <2>2
  <1>11. t < WORD
    <2>1. t * u < WORD * u
      BY <1>1, <1>2, <1>7, <1>10
    <2>. QED
      BY <1>1, <1>7, <2>1, TimesCancel, Zenon
  <1>12. Word(q * f) = q * f /\ Word(w) = w /\ Word(t) = t
    BY <1>5, <1>7, <1>11, WordFits, TimebaseAssumption
  <1>13. ticks_from(u, FRQ, x) = t
    BY <1>12, Zenon DEF ticks_from
  <1>. QED
    BY <1>7, <1>10, <1>13, Zenon

(* ns_from_ticks and us_from_ticks: likewise, the quotient t * u / FRQ     *)
(* rounded down.                                                           *)
LEMMA FromTicksExact ==
  ASSUME NEW u \in Units, NEW t \in Nat, t * u < WORD * FRQ
  PROVE  /\ from_ticks(u, FRQ, t) \in Nat
         /\ from_ticks(u, FRQ, t) * FRQ <= t * u
         /\ t * u < from_ticks(u, FRQ, t) * FRQ + FRQ
  <1>. DEFINE f == FRQ
              q == t \div f
              r == t % f
              w == r * u
              k == w \div f
              y == q * u + k
  <1>1. u \in Nat \ {0} /\ f \in Nat \ {0} /\ WORD \in Nat
    BY TimebaseAssumption, Zenon
  <1>2. q \in Nat /\ r \in Nat /\ r <= f - 1 /\ t = f * q + r
    BY <1>1, DivMod
  <1>3. w \in Nat /\ w < WORD
    <2>1. r * u <= (f - 1) * u
      BY <1>1, <1>2, TimesMono
    <2>. QED
      BY <1>1, <1>2, <2>1, TimebaseAssumption
  <1>4. k \in Nat /\ k * f <= w /\ w < k * f + f
    <2>1. k \in Nat /\ w % f \in Nat /\ w % f < f /\ w = f * k + (w % f)
      BY <1>1, <1>3, DivMod, Zenon
    <2>. QED
      BY <1>1, <2>1
  <1>5. y \in Nat /\ q * u \in Nat /\ q * u <= y
    BY <1>1, <1>2, <1>4
  <1>6. y * f = (q * u) * f + k * f
    BY <1>1, <1>2, <1>4
  <1>7. t * u = (q * u) * f + r * u
    BY <1>1, <1>2
  <1>8. y * f <= t * u /\ t * u < y * f + f
    <2>. HIDE DEF y, k, w, q, r, f
    <2>1. w = r * u
      BY Zenon DEF w
    <2>2. (q * u) * f \in Nat /\ k * f \in Nat
      BY <1>1, <1>4, <1>5
    <2>. QED
      BY <1>1, <1>3, <1>4, <1>6, <1>7, <2>1, <2>2
  <1>9. y < WORD
    <2>1. y * f < WORD * f
      BY <1>1, <1>5, <1>8
    <2>. QED
      BY <1>1, <1>5, <2>1, TimesCancel, Zenon
  <1>10. Word(q * u) = q * u /\ Word(w) = w /\ Word(y) = y
    BY <1>3, <1>5, <1>9, WordFits, TimebaseAssumption
  <1>11. from_ticks(u, FRQ, t) = y
    BY <1>1, <1>10, Zenon DEF from_ticks, UDiv, UMod
  <1>. QED
    BY <1>5, <1>8, <1>11, Zenon

-----------------------------------------------------------------------------
(* The timer.                                                              *)

(* The inductive invariant: the compare register holds g_next_cval, every  *)
(* deadline is on the grid, the handler runs after its deadline, and the   *)
(* loop has not gone past the first deadline that is still to come.        *)
OnGridFrom(x) == \E k \in Nat : x = first + k * g_period_ticks
TimerInv ==
  /\ now \in 0 .. MAX_NOW /\ g_cntfrq \in {0, FRQ}
  /\ g_period_ticks \in 0 .. FRQ
  /\ g_next_cval \in Nat /\ first \in Nat /\ next \in Nat /\ seen \in 0 .. MAX_NOW
  /\ cval = g_next_cval
  /\ at \in {"idle", "func", "skip"}
  /\ OnGridFrom(g_next_cval)
  /\ at # "idle" => OnGridFrom(next)
  /\ at = "func" => next <= now
  /\ at = "skip" => next <= seen + g_period_ticks

(* The periods that start_periodic_task_freq makes.                        *)
LEMMA PeriodBound ==
  ASSUME NEW hz \in Hertz
  PROVE  FRQ \div (IF hz = 0 THEN 1 ELSE hz) \in 0 .. FRQ
  <1>1. \A d \in Nat \ {0} : FRQ \div d \in 0 .. FRQ
    <2>. SUFFICES ASSUME NEW d \in Nat \ {0} PROVE FRQ \div d \in 0 .. FRQ
      BY Zenon
    <2>. DEFINE q == FRQ \div d
    <2>1. q \in Nat /\ FRQ % d \in Nat /\ FRQ = d * q + (FRQ % d)
      BY DivMod, TimebaseAssumption, Zenon
    <2>2. 1 * q <= d * q
      BY <2>1, TimesMono
    <2>. QED
      BY <2>1, <2>2, TimebaseAssumption
  <1>. QED
    BY <1>1, TimebaseAssumption

(* Every step of the counter, the program and the handler keeps it.        *)
LEMMA TimerStep ==
  ASSUME TimerInv, [Next]_vars
  PROVE  TimerInv'
  <1>. USE TimebaseAssumption, CounterAssumption
  <1>1. CASE Tick
    BY <1>1 DEF Tick, TimerInv, OnGridFrom
  <1>2. CASE timebase_init
    BY <1>2, Zenon DEF timebase_init, TimerInv, OnGridFrom
  <1>3. ASSUME NEW hz \in Hertz, start_periodic_task_freq(hz)
        PROVE  TimerInv'
    <2>. DEFINE p == FRQ \div (IF hz = 0 THEN 1 ELSE hz)
    <2>1. p \in 0 .. FRQ
      BY PeriodBound, Zenon
    <2>. HIDE DEF p
    <2>2. /\ g_period_ticks' = p /\ g_next_cval' = Word(now + p)
          /\ cval' = g_next_cval' /\ first' = g_next_cval'
          /\ UNCHANGED <<now, g_cntfrq, at, next, seen>> /\ at = "idle"
      BY <1>3, Zenon DEF start_periodic_task_freq, StartPeriodic, p
    <2>3. Word(now + p) = now + p /\ now + p \in Nat
      BY <2>1, WordFits DEF TimerInv
    <2>4. OnGridFrom(g_next_cval)'
      <3>1. g_next_cval' = first' + 0 * g_period_ticks'
        BY <2>1, <2>2, <2>3
      <3>. QED
        BY <3>1, Zenon DEF OnGridFrom
    <2>. QED
      BY <2>1, <2>2, <2>3, <2>4, Zenon DEF TimerInv
  <1>4. CASE stop_periodic_task
    BY <1>4, Zenon DEF stop_periodic_task, TimerInv, OnGridFrom
  <1>5. CASE timer_irq_handler
    BY <1>5, Zenon DEF timer_irq_handler, Expired, TimerInv, OnGridFrom
  <1>6. CASE ReadCounter
    BY <1>6 DEF ReadCounter, TimerInv, OnGridFrom
  <1>7. CASE SkipOne
    <2>1. next + g_period_ticks \in Nat /\ Word(next + g_period_ticks) = next + g_period_ticks
      BY <1>7, WordFits DEF SkipOne, TimerInv
    <2>2. OnGridFrom(next)'
      <3>1. PICK k \in Nat : next = first + k * g_period_ticks
        BY <1>7, Zenon DEF SkipOne, TimerInv, OnGridFrom
      <3>2. next' = first + (k + 1) * g_period_ticks
        BY <1>7, <2>1, <3>1 DEF SkipOne, TimerInv
      <3>. QED
        BY <1>7, <3>2 DEF SkipOne, OnGridFrom
    <2>3. OnGridFrom(g_next_cval)'
      BY <1>7, Zenon DEF SkipOne, TimerInv, OnGridFrom
    <2>. QED
      BY <1>7, <2>1, <2>2, <2>3 DEF SkipOne, TimerInv
  <1>8. CASE Rearm
    BY <1>8 DEF Rearm, TimerInv, OnGridFrom
  <1>9. CASE UNCHANGED vars
    BY <1>9, Zenon DEF vars, TimerInv, OnGridFrom
  <1>. QED
    BY <1>1, <1>2, <1>3, <1>4, <1>5, <1>6, <1>7, <1>8, <1>9, Zenon DEF Next, Handler

(* It holds in every reachable state.                                      *)
THEOREM TimerInvariant == Spec => []TimerInv
  <1>1. Init => TimerInv
    <2>1. 0 = 0 + 0 * 0
      OBVIOUS
    <2>. QED
      BY <2>1, TimebaseAssumption, CounterAssumption DEF Init, TimerInv, OnGridFrom
  <1>2. TimerInv /\ [Next]_vars => TimerInv'
    BY TimerStep, Zenon
  <1>. QED
    BY <1>1, <1>2, PTL DEF Spec

(* The periodic timer does not drift: every value of g_next_cval is a      *)
(* whole number of periods after the first.                                *)
THEOREM TimerOnGrid == Spec => []OnGrid
  <1>1. TimerInv => OnGrid
    <2>. SUFFICES ASSUME TimerInv, g_period_ticks > 0
                  PROVE  (g_next_cval - first) % g_period_ticks = 0
      BY Zenon DEF OnGrid
    <2>1. PICK k \in Nat : g_next_cval = first + k * g_period_ticks
      BY Zenon DEF TimerInv, OnGridFrom
    <2>2. g_next_cval - first = k * g_period_ticks
      BY <2>1, TimebaseAssumption DEF TimerInv
    <2>3. k \in Int /\ g_period_ticks \in Nat \ {0}
      BY TimebaseAssumption DEF TimerInv
    <2>4. (k * g_period_ticks) % g_period_ticks = 0
      BY <2>3, MultipleMod, Zenon
    <2>. QED
      BY <2>2, <2>4, Zenon
  <1>. QED
    BY <1>1, TimerInvariant, PTL

(* The handler sets the first deadline on the grid after the time it read. *)
THEOREM TimerNoneMissed == Spec => NoneMissed
  <1>1. TimerInv /\ [Next]_vars =>
          [Rearm => cval' > seen /\ cval' - g_period_ticks <= seen]_vars
    BY TimebaseAssumption, CounterAssumption DEF Rearm, TimerInv
  <1>. QED
    BY <1>1, TimerInvariant, PTL DEF Spec, NoneMissed

(* A conversion to ticks gives the nearest tick, for every time whose tick *)
(* fits in a word.                                                         *)
THEOREM ConversionNearest == Spec => []NearestTick
  <1>1. TimerInv => NearestTick
    <2>. SUFFICES ASSUME TimerInv, NEW u \in Units, g_cntfrq # 0,
                         now * FRQ + u < WORD * u
                  PROVE  /\ 2 * ticks_from(u, g_cntfrq, now) * u <= 2 * now * FRQ + u
                         /\ 2 * now * FRQ <= 2 * ticks_from(u, g_cntfrq, now) * u + u
      BY Zenon DEF NearestTick
    <2>. DEFINE t == ticks_from(u, FRQ, now)
    <2>1. g_cntfrq = FRQ /\ now \in Nat
      BY CounterAssumption DEF TimerInv
    <2>2. t \in Nat /\ t * u <= now * FRQ + u \div 2 /\ now * FRQ + u \div 2 < t * u + u
      BY <2>1, TicksFromExact, Zenon
    <2>. HIDE DEF t
    <2>3. u \in Nat /\ FRQ \in Nat /\ 2 * (u \div 2) <= u /\ u <= 2 * (u \div 2) + 1
      BY TimebaseAssumption
    <2>4. 2 * t * u = 2 * (t * u) /\ 2 * now * FRQ = 2 * (now * FRQ)
          /\ t * u \in Nat /\ now * FRQ \in Nat
      BY <2>1, <2>2, <2>3
    <2>5. 2 * t * u <= 2 * now * FRQ + u /\ 2 * now * FRQ <= 2 * t * u + u
      BY <2>2, <2>3, <2>4
    <2>. QED
      BY <2>1, <2>5, Zenon DEF t
  <1>. QED
    BY <1>1, TimerInvariant, PTL

(* wait() is never late by more than the rounding to a tick, nor early by  *)
(* more than what time_now_us rounds off.                                  *)
THEOREM WaitsAsLong == Spec => []WaitLength
  <1>1. TimerInv => WaitLength
    <2>. SUFFICES ASSUME TimerInv, NEW u \in Units, NEW n \in 0 .. MAX_LEN, g_cntfrq # 0,
                         now * u + n * FRQ + u < WORD * u,
                         now * u + n * FRQ < WORD * FRQ
                  PROVE  /\ 2 * ((wait(u, g_cntfrq, now, n) - now) * u) <= 2 * n * FRQ + u
                         /\ 2 * ((wait(u, g_cntfrq, now, n) - now) * u)
                              > 2 * n * FRQ - 2 * FRQ - u
      BY Zenon DEF WaitLength
    <2>. DEFINE y == from_ticks(u, FRQ, now)
                x == y + n
                t == ticks_from(u, FRQ, x)
    <2>1. /\ g_cntfrq = FRQ /\ now \in Nat /\ n \in Nat
          /\ u \in Nat \ {0} /\ FRQ \in Nat \ {0} /\ WORD \in Nat
          /\ 2 * (u \div 2) <= u /\ u <= 2 * (u \div 2) + 1 /\ u \div 2 \in Nat
      BY CounterAssumption, TimebaseAssumption DEF TimerInv
    <2>2. now * u \in Nat /\ n * FRQ \in Nat /\ now * u < WORD * FRQ
      BY <2>1
    <2>3. y \in Nat /\ y * FRQ <= now * u /\ now * u < y * FRQ + FRQ
      BY <2>1, <2>2, FromTicksExact, Zenon
    <2>. HIDE DEF y
    <2>4. x \in Nat /\ x * FRQ = y * FRQ + n * FRQ /\ y * FRQ \in Nat
      BY <2>1, <2>3
    <2>. HIDE DEF x
    <2>5. Word(x) = x
      <3>1. x * FRQ < WORD * FRQ
        BY <2>1, <2>2, <2>3, <2>4
      <3>. QED
        BY <2>1, <2>4, <3>1, TimesCancel, WordFits, Zenon
    <2>6. x * FRQ + u < WORD * u
      BY <2>1, <2>2, <2>3, <2>4
    <2>7. t \in Nat /\ t * u <= x * FRQ + u \div 2 /\ x * FRQ + u \div 2 < t * u + u
      BY <2>4, <2>6, TicksFromExact, Zenon
    <2>. HIDE DEF t
    <2>8. (t - now) * u = t * u - now * u /\ t * u \in Nat /\ 2 * n * FRQ = 2 * (n * FRQ)
      BY <2>1, <2>7
    <2>9. /\ 2 * ((t - now) * u) <= 2 * n * FRQ + u
          /\ 2 * ((t - now) * u) > 2 * n * FRQ - 2 * FRQ - u
      BY <2>1, <2>2, <2>3, <2>4, <2>7, <2>8
    <2>10. wait(u, g_cntfrq, now, n) = t
      BY <2>1, <2>5, Zenon DEF wait, t, x, y
    <2>. QED
      BY <2>9, <2>10, Zenon
  <1>. QED
    BY <1>1, TimerInvariant, PTL

-----------------------------------------------------------------------------
(* The parent of a node lies below it.                                     *)
LEMMA ParentBelow ==
  ASSUME NEW j \in Nat \ {0}
  PROVE  parent(j) \in 0 .. j - 1
  <1>. DEFINE q == (j - 1) \div D
  <1>1. q \in Nat /\ (j - 1) % D \in Nat /\ j - 1 = D * q + ((j - 1) % D)
    BY DivMod, HeapAssumption
  <1>. HIDE DEF q
  <1>2. 1 * q <= D * q
    BY <1>1, HeapAssumption, TimesMono
  <1>3. q <= j - 1
    BY <1>1, <1>2, HeapAssumption
  <1>. QED
    BY <1>1, <1>3 DEF parent, q

(* The slots from child(j, 0) to child(j, D - 1) are those whose parent is *)
(* j.                                                                      *)
LEMMA ChildrenParent ==
  ASSUME NEW j \in Nat, NEW c \in Nat \ {0}
  PROVE  c \in child(j, 0) .. child(j, D - 1) <=> parent(c) = j
  <1>. DEFINE q == (c - 1) \div D
              r == (c - 1) % D
  <1>1. q \in Nat /\ r \in 0 .. D - 1 /\ c - 1 = D * q + r
    BY DivMod, HeapAssumption
  <1>2. ASSUME q = j PROVE c \in D * j + 1 .. D * j + D
    <2>. HIDE DEF q, r
    <2>. QED BY <1>1, <1>2, HeapAssumption
  <1>3. ASSUME c \in D * j + 1 .. D * j + D PROVE q = j
    <2>1. c - 1 - D * j \in 0 .. D - 1 /\ c - 1 = D * j + (c - 1 - D * j)
      BY <1>3, HeapAssumption
    <2>2. c - 1 \in Nat
      OBVIOUS
    <2>. QED
      BY <2>1, <2>2, DivUnique, HeapAssumption, Zenon
  <1>4. child(j, 0) = D * j + 1 /\ child(j, D - 1) = D * j + D
    BY HeapAssumption DEF child
  <1>. HIDE DEF q
  <1>5. parent(c) = q
    BY Zenon DEF parent, q
  <1>. QED
    BY <1>2, <1>3, <1>4, <1>5, Zenon

-----------------------------------------------------------------------------
(* Nodes, and the slots in use.                                            *)
Node == [key : Nat, val : Data \cup {NoData}, idx : Int]
Used == 0 .. len - 1

(* Every variable has its type, and a loop is at a slot in use.            *)
HeapType ==
  /\ a \in [Slots -> Node]
  /\ len \in 0 .. Cap
  /\ pc \in {"idle", "sift_up", "sift_down"}
  /\ i \in Nat
  /\ pc # "idle" => i \in Used

(* No value is in the heap twice.                                          *)
Distinct == \A j, k \in Used : a[j].val = a[k].val => j = k

(* No key is less than that of its parent, but for the node that sift_up   *)
(* moves, or the children of the one that sift_down moves; and across that *)
(* node, its parent and its children are in order.                         *)
Exempt(j) == \/ pc = "sift_up" /\ j = i
             \/ pc = "sift_down" /\ parent(j) = i
Order == \A j \in 1 .. len - 1 : Exempt(j) \/ a[parent(j)].key <= a[j].key
Across ==
  pc # "idle" /\ i > 0 =>
    \A j \in 1 .. len - 1 : parent(j) = i => a[parent(i)].key <= a[j].key

(* The inductive invariant.                                                *)
HeapInv == HeapType /\ Distinct /\ Order /\ Across

(* What swap_nodes leaves: the two nodes in each other's place.            *)
LEMMA SwapFacts ==
  ASSUME HeapType, NEW j \in Used, NEW k \in Used, j # k
  PROVE  LET s == swap_nodes(j, k) IN
         /\ s \in [Slots -> Node]
         /\ s[j].key = a[k].key /\ s[j].val = a[k].val
         /\ s[k].key = a[j].key /\ s[k].val = a[j].val
         /\ \A m \in Slots : m # j /\ m # k => s[m] = a[m]
  <1>. DEFINE s == swap_nodes(j, k)
  <1>1. j \in Slots /\ k \in Slots /\ j \in Int /\ k \in Int
    BY HeapAssumption DEF HeapType, Used, Slots
  <1>2. a[j] \in Node /\ a[k] \in Node
    BY <1>1, Zenon DEF HeapType
  <1>3. [a[k] EXCEPT !.idx = j] \in Node /\ [a[j] EXCEPT !.idx = k] \in Node
    BY <1>1, <1>2, Zenon DEF Node
  <1>4. s = [m \in Slots |-> IF m = k THEN [a[j] EXCEPT !.idx = k]
                             ELSE IF m = j THEN [a[k] EXCEPT !.idx = j] ELSE a[m]]
    BY <1>1, Zenon DEF swap_nodes, HeapType
  <1>. HIDE DEF s
  <1>5. s \in [Slots -> Node]
    BY <1>3, <1>4, Zenon DEF HeapType
  <1>6. s[j] = [a[k] EXCEPT !.idx = j] /\ s[k] = [a[j] EXCEPT !.idx = k]
    BY <1>1, <1>4, Zenon
  <1>7. /\ s[j].key = a[k].key /\ s[j].val = a[k].val
        /\ s[k].key = a[j].key /\ s[k].val = a[j].val
    BY <1>2, <1>6, Zenon DEF Node
  <1>8. \A m \in Slots : m # j /\ m # k => s[m] = a[m]
    BY <1>4, Zenon
  <1>. QED
    BY <1>5, <1>7, <1>8, Zenon DEF s

(* The first n nodes of an array, as the abstract queue sees them.         *)
Nodes(s, n) == {Pair(s[m]) : m \in 0 .. n - 1}

(* swap_nodes neither adds nor removes a node.                             *)
LEMMA SwapKeeps ==
  ASSUME HeapType, Distinct, NEW j \in Used, NEW k \in Used, j # k
  PROVE  LET s == swap_nodes(j, k) IN
         /\ \A m, n \in Used : s[m].val = s[n].val => m = n
         /\ Nodes(s, len) = Nodes(a, len)
  <1>. DEFINE s == swap_nodes(j, k)
              other(m) == IF m = j THEN k ELSE IF m = k THEN j ELSE m
  <1>1. Used \subseteq Slots
    BY HeapAssumption DEF HeapType, Used, Slots
  <1>2. \A m \in Used : other(m) \in Used /\ other(other(m)) = m
    BY Zenon
  <1>3. \A m \in Used : s[m].key = a[other(m)].key /\ s[m].val = a[other(m)].val
    BY <1>1, SwapFacts
  <1>4. \A m, n \in Used : s[m].val = s[n].val => m = n
    <2>. HIDE DEF s
    <2>. SUFFICES ASSUME NEW m \in Used, NEW n \in Used, s[m].val = s[n].val PROVE m = n
      BY Zenon
    <2>1. other(m) = other(n)
      <3>. HIDE DEF other
      <3>. QED BY <1>2, <1>3 DEF Distinct
    <2>. QED
      BY <2>1, Zenon
  <1>5. \A m \in Used : Pair(s[m]) = Pair(a[other(m)]) /\ Pair(a[m]) = Pair(s[other(m)])
    <2>. HIDE DEF s, other
    <2>. QED BY <1>2, <1>3, Zenon DEF Pair
  <1>6. Nodes(s, len) = Nodes(a, len)
    <2>. HIDE DEF s, other
    <2>1. \A m \in Used : Pair(s[m]) \in Nodes(a, len) /\ Pair(a[m]) \in Nodes(s, len)
      BY <1>2, <1>5, Zenon DEF Nodes, Used
    <2>2. Nodes(s, len) \subseteq Nodes(a, len) /\ Nodes(a, len) \subseteq Nodes(s, len)
      BY <2>1, Zenon DEF Nodes, Used
    <2>. QED
      BY <2>2, Zenon
  <1>. QED
    BY <1>4, <1>6, Zenon

(* The root of a heap in order has the least key: a least slot with a      *)
(* smaller one would have a parent with a smaller one.                     *)
LEMMA RootLeast ==
  ASSUME HeapInv, pc = "idle"
  PROVE  \A j \in Used : a[0].key <= a[j].key
  <1>. DEFINE S == {j \in Used : a[j].key < a[0].key}
  <1>. USE DEF HeapInv, HeapType
  <1>1. \A j \in Used : j \in Nat /\ j \in Slots
    BY HeapAssumption DEF Used, Slots
  <1>2. \A j \in Used : a[j].key \in Nat /\ 0 \in Used
    BY <1>1 DEF Node, Used
  <1>. SUFFICES ASSUME S # {} PROVE FALSE
    BY <1>2
  <1>3. PICK m \in S : \A n \in S : m <= n
    <2>1. S \in SUBSET Nat
      BY <1>1, Zenon
    <2>. HIDE DEF S
    <2>. QED BY <2>1, LeastNat, Zenon
  <1>4. m \in Used /\ m \in Nat /\ m # 0 /\ a[m].key < a[0].key
    BY <1>1, <1>2, <1>3
  <1>5. parent(m) \in 0 .. m - 1
    BY <1>4, ParentBelow, Zenon
  <1>6. parent(m) \in Used
    BY <1>4, <1>5 DEF Used
  <1>7. a[parent(m)].key <= a[m].key
    BY <1>4 DEF Order, Exempt, Used
  <1>8. parent(m) \in S
    <2>1. a[parent(m)].key \in Nat /\ a[m].key \in Nat /\ a[0].key \in Nat
      BY <1>2, <1>4, <1>6, Zenon
    <2>2. a[parent(m)].key < a[0].key
      BY <2>1, <1>4, <1>7
    <2>. QED BY <1>6, <2>2, Zenon
  <1>. QED
    BY <1>3, <1>4, <1>5, <1>8

(* The children of a node are the slots in use that have it as parent.     *)
LEMMA ChildrenAre ==
  ASSUME HeapType, NEW j \in Nat
  PROVE  \A c : c \in Children(j) <=> c \in 1 .. len - 1 /\ parent(c) = j
  <1>1. child(j, 0) \in Nat \ {0} /\ child(j, D - 1) \in Nat /\ len \in Nat
    BY HeapAssumption DEF child, HeapType
  <1>2. \A c : c \in Children(j) <=> c \in child(j, 0) .. child(j, D - 1) /\ c < len
    BY Zenon DEF Children
  <1>3. \A c : c \in Children(j) => c \in 1 .. len - 1
    BY <1>1, <1>2
  <1>4. \A c \in 1 .. len - 1 : c \in child(j, 0) .. child(j, D - 1) <=> parent(c) = j
    BY <1>1, ChildrenParent
  <1>. QED
    BY <1>1, <1>2, <1>3, <1>4

(* The child that sift_down compares with: there is a first of least key.  *)
LEMMA BestChild ==
  ASSUME HeapType, NEW j \in Used, Children(j) # {}
  PROVE  Best(j) \in Children(j) /\ \A b \in Children(j) : a[Best(j)].key <= a[b].key
  <1>. DEFINE C == Children(j)
              K == {a[c].key : c \in C}
  <1>1. \A c \in C : c \in Nat /\ a[c].key \in Nat
    <2>1. j \in Nat
      BY DEF Used
    <2>2. \A c \in C : c \in 1 .. len - 1
      BY <2>1, ChildrenAre, Zenon
    <2>3. \A c \in C : c \in Slots /\ c \in Nat
      BY <2>2, HeapAssumption DEF HeapType, Slots
    <2>. QED
      BY <2>3, Zenon DEF HeapType, Node
  <1>2. PICK k \in K : \A l \in K : k <= l
    <2>1. K \in SUBSET Nat /\ K # {}
      BY <1>1, Zenon
    <2>. HIDE DEF K
    <2>. QED BY <2>1, LeastNat, Zenon
  <1>. DEFINE M == {c \in C : a[c].key = k}
  <1>3. PICK m \in M : \A n \in M : m <= n
    <2>1. M \in SUBSET Nat /\ M # {}
      BY <1>1, <1>2, Zenon
    <2>. HIDE DEF M
    <2>. QED BY <2>1, LeastNat, Zenon
  <1>4. m \in C /\ \A b \in C : a[m].key <= a[b].key /\ (b < m => a[m].key < a[b].key)
    <2>1. m \in C /\ a[m].key = k /\ k \in Nat
      BY <1>1, <1>2, <1>3, Zenon
    <2>2. ASSUME NEW b \in C PROVE k <= a[b].key /\ (b < m => k < a[b].key)
      <3>1. k <= a[b].key /\ a[b].key \in Nat /\ b \in Nat /\ m \in Nat
        BY <1>1, <1>2, <2>1, Zenon
      <3>2. b < m => a[b].key # k
        <4>. SUFFICES ASSUME b < m, a[b].key = k PROVE FALSE
          BY Zenon
        <4>1. m <= b
          BY <1>3, Zenon
        <4>. QED BY <3>1, <4>1
      <3>. QED
        BY <2>1, <3>1, <3>2
    <2>. QED
      BY <2>1, <2>2, Zenon
  <1>. HIDE DEF K, M
  <1>. QED
    BY <1>4, Zenon DEF Best

-----------------------------------------------------------------------------
(* A slot in use other than the root has a parent in use, below it.        *)
LEMMA ParentUsed ==
  ASSUME HeapType
  PROVE  \A j \in 1 .. len - 1 :
           j \in Used /\ parent(j) \in Used /\ parent(j) \in Nat /\ parent(j) < j
  <1>. SUFFICES ASSUME NEW j \in 1 .. len - 1
                PROVE  j \in Used /\ parent(j) \in Used /\ parent(j) \in Nat /\ parent(j) < j
    BY Zenon
  <1>1. j \in Nat \ {0} /\ j < len /\ len \in Nat
    BY HeapAssumption DEF HeapType
  <1>2. parent(j) \in 0 .. j - 1
    BY <1>1, ParentBelow, Zenon
  <1>. QED
    BY <1>1, <1>2 DEF Used

(* Keys of slots in use are numbers.                                       *)
LEMMA KeysNat ==
  ASSUME HeapType
  PROVE  \A j \in Used : j \in Nat /\ j \in Slots /\ a[j].key \in Nat
  <1>1. \A j \in Used : j \in Nat /\ j \in Slots
    BY HeapAssumption DEF HeapType, Used, Slots
  <1>. QED
    BY <1>1, Zenon DEF HeapType, Node

(* heap_push keeps the order: only the node it appends may be out of place, *)
(* and that node has no children yet.                                      *)
LEMMA PushKeeps ==
  ASSUME HeapInv, NEW k \in Keys, NEW v \in Data, heap_push(k, v)
  PROVE  HeapInv'
  <1>. USE DEF HeapInv
  <1>1. CASE len = Cap
    <2>1. UNCHANGED <<a, len, pc, i>>
      BY <1>1, Zenon DEF heap_push
    <2>. QED
      BY <2>1, Zenon DEF HeapType, Used, Distinct, Order, Exempt, Across, Slots, Node, parent
  <1>2. CASE len # Cap
    <2>. DEFINE x == [key |-> k, val |-> v, idx |-> len]
    <2>1. /\ pc = "idle" /\ v \notin {a[j].val : j \in 0 .. len - 1}
          /\ a' = [a EXCEPT ![len] = x] /\ len' = len + 1
          /\ pc' = "sift_up" /\ i' = len
      BY <1>2, Zenon DEF heap_push
    <2>2. len \in Slots /\ len \in Nat /\ len' \in 0 .. Cap /\ a \in [Slots -> Node] /\ x \in Node
      BY <1>2, <2>1, HeapAssumption DEF HeapType, Slots, Node
    <2>3. a' \in [Slots -> Node] /\ a'[len] = x /\ \A j \in Used : a'[j] = a[j] /\ j \in Nat /\ j < len
      <3>. HIDE DEF x
      <3>. QED BY <2>1, <2>2 DEF Used
    <2>4. HeapType'
      BY <2>1, <2>2, <2>3 DEF HeapType, Slots, Node, Used
    <2>5. Used' = Used \cup {len}
      BY <2>1, <2>2 DEF Used
    <2>6. Distinct'
      <3>1. \A j \in Used : a'[j].val # v
        BY <2>1, <2>3, Zenon DEF Used
      <3>2. a'[len].val = v
        BY <2>3
      <3>3. \A j, l \in Used : a'[j].val = a'[l].val => j = l
        BY <2>3, Zenon DEF Distinct
      <3>. QED
        BY <2>5, <3>1, <3>2, <3>3, Zenon DEF Distinct
    <2>7. \A j \in 1 .. len - 1 : parent(j) \in Used /\ j \in Used
      BY ParentUsed, Zenon
    <2>8. Order'
      <3>. SUFFICES ASSUME NEW j \in 1 .. len, j # len
                    PROVE  a'[parent(j)].key <= a'[j].key
        BY <2>1, <2>2 DEF Order, Exempt, parent
      <3>1. j \in 1 .. len - 1
        BY <2>2
      <3>2. a[parent(j)].key <= a[j].key
        BY <2>1, <3>1, Zenon DEF Order, Exempt
      <3>. QED
        BY <2>3, <2>7, <3>1, <3>2, Zenon
    <2>9. Across'
      <3>. SUFFICES ASSUME NEW j \in 1 .. len, parent(j) = len PROVE FALSE
        BY <2>1, <2>2 DEF Across, parent
      <3>1. j \in Nat \ {0} /\ j <= len
        BY <2>2
      <3>. QED
        BY <2>2, <3>1, ParentBelow
    <2>. QED
      BY <2>4, <2>6, <2>8, <2>9, Zenon
  <1>. QED
    BY <1>1, <1>2, Zenon

(* A turn of sift_up keeps it: the node goes up, its parent comes down, and *)
(* both were in order with the children that are now below them.           *)
LEMMA SiftUpKeeps ==
  ASSUME HeapInv, sift_up
  PROVE  HeapInv'
  <1>. USE DEF HeapInv
  <1>1. pc = "sift_up" /\ i \in Used /\ len' = len /\ i \in Nat /\ len \in Nat
    BY HeapAssumption DEF sift_up, HeapType
  <1>2. CASE ~Rises
    <2>1. pc' = "idle" /\ i' = 0 /\ a' = a
      BY <1>2, Zenon DEF sift_up
    <2>2. HeapType' /\ Distinct' /\ Across'
      BY <1>1, <2>1, Zenon DEF HeapType, Distinct, Across, Used, Slots, Node
    <2>3. Order'
      <3>. SUFFICES ASSUME NEW j \in 1 .. len - 1 PROVE a[parent(j)].key <= a[j].key
        BY <1>1, <2>1, Zenon DEF Order, parent
      <3>1. CASE j # i
        BY <1>1, <3>1, Zenon DEF Order, Exempt
      <3>2. CASE j = i
        <4>1. ~(a[parent(i)].key > a[i].key)
          BY <1>1, <1>2, <3>2 DEF Rises
        <4>2. a[parent(i)].key \in Nat /\ a[i].key \in Nat
          BY <1>1, <3>2, ParentUsed, KeysNat, Zenon
        <4>. QED
          BY <3>2, <4>1, <4>2
      <3>. QED
        BY <3>1, <3>2, Zenon
    <2>. QED
      BY <2>2, <2>3, Zenon
  <1>3. CASE Rises
    <2>. DEFINE p == parent(i)
    <2>1. a' = swap_nodes(p, i) /\ i' = p /\ pc' = "sift_up"
      BY <1>1, <1>3, Zenon DEF sift_up
    <2>2. i \in 1 .. len - 1 /\ a[i].key < a[p].key
      <3>1. i > 0 /\ a[p].key > a[i].key
        BY <1>3, Zenon DEF Rises
      <3>2. i \in 1 .. len - 1
        BY <1>1, <3>1 DEF Used
      <3>3. a[p].key \in Nat /\ a[i].key \in Nat
        BY <1>1, <3>2, ParentUsed, KeysNat, Zenon
      <3>. QED
        BY <3>1, <3>2, <3>3, Zenon
    <2>3. p \in Used /\ p \in Nat /\ p < i
      BY <2>2, ParentUsed, Zenon
    <2>4. /\ a' \in [Slots -> Node]
          /\ a'[p].key = a[i].key /\ a'[i].key = a[p].key
          /\ \A m \in Slots : m # p /\ m # i => a'[m] = a[m]
      <3>. HIDE DEF p
      <3>. QED BY <1>1, <2>1, <2>3, SwapFacts
    <2>5. Distinct'
      <3>. HIDE DEF p
      <3>1. \A m, n \in Used : a'[m].val = a'[n].val => m = n
        BY <1>1, <2>1, <2>3, SwapKeeps
      <3>. QED BY <1>1, <3>1, Zenon DEF Distinct, Used
    <2>6. HeapType'
      BY <1>1, <2>1, <2>3, <2>4, Zenon DEF HeapType, Used, Slots, Node
    <2>7. \A j \in Used : /\ j \in Slots /\ a[j].key \in Nat
                          /\ a'[j].key = IF j = p THEN a[i].key
                                         ELSE IF j = i THEN a[p].key ELSE a[j].key
      BY <2>4, KeysNat, Zenon
    <2>8. \A j \in 1 .. len - 1 : /\ j \in Used /\ parent(j) \in Used
                                  /\ j # i => a[parent(j)].key <= a[j].key
                                  /\ parent(j) = i => a[p].key <= a[j].key
                                  /\ parent(j) < j /\ parent(j) \in Nat /\ j \in Nat
      BY <1>1, <2>2, ParentUsed DEF Order, Exempt, Across
    <2>9. Order'
      <3>. SUFFICES ASSUME NEW j \in 1 .. len - 1, j # p
                    PROVE  a'[parent(j)].key <= a'[j].key
        BY <1>1, <2>1, Zenon DEF Order, Exempt, parent
      <3>. HIDE DEF p
      <3>. QED
        BY <1>1, <2>2, <2>3, <2>7, <2>8 DEF p
    <2>10. Across'
      <3>. SUFFICES ASSUME p > 0, NEW j \in 1 .. len - 1, parent(j) = p
                    PROVE  a'[parent(p)].key <= a'[j].key
        BY <1>1, <2>1, Zenon DEF Across, parent
      <3>1. p \in 1 .. len - 1 /\ p # i
        BY <1>1, <2>2, <2>3
      <3>2. parent(p) \in Used /\ parent(p) # p /\ parent(p) # i /\ a[parent(p)].key <= a[p].key
        BY <2>2, <2>3, <2>8, <3>1
      <3>3. a'[parent(p)].key = a[parent(p)].key
        BY <2>7, <3>2, Zenon
      <3>4. CASE j = i
        BY <1>1, <2>3, <2>7, <3>2, <3>3, <3>4, Zenon
      <3>5. CASE j # i
        <4>1. j \in Used /\ j # p /\ a[p].key <= a[j].key
          BY <2>3, <2>8, <3>5
        <4>2. a'[j].key = a[j].key /\ a[j].key \in Nat /\ a[p].key \in Nat /\ a[parent(p)].key \in Nat
          BY <2>3, <2>7, <3>2, <3>5, <4>1, Zenon
        <4>. QED
          BY <3>2, <3>3, <4>1, <4>2
      <3>. QED
        BY <3>4, <3>5, Zenon
    <2>. QED
      BY <2>5, <2>6, <2>9, <2>10, Zenon
  <1>. QED
    BY <1>2, <1>3, Zenon

(* What heap_pop leaves when there are two nodes or more: the last one at  *)
(* the root.                                                               *)
LEMMA PopFacts ==
  ASSUME HeapType, heap_pop, len > 1
  PROVE  /\ len' = len - 1 /\ pc' = "sift_down" /\ i' = 0
         /\ a' \in [Slots -> Node]
         /\ a'[0].key = a[len - 1].key /\ a'[0].val = a[len - 1].val
         /\ \A j \in 1 .. len - 2 : a'[j] = a[j]
  <1>. DEFINE x == [a[len - 1] EXCEPT !.idx = 0]
  <1>1. /\ len' = len - 1 /\ pc' = "sift_down" /\ i' = 0
        /\ a' = [a EXCEPT ![0] = x, ![len - 1] = Blank]
    BY DEF heap_pop, HeapType
  <1>2. /\ len \in Nat /\ 0 \in Slots /\ len - 1 \in Slots /\ a \in [Slots -> Node]
        /\ \A j \in 1 .. len - 2 : j \in Slots /\ j # 0 /\ j # len - 1
    BY HeapAssumption DEF HeapType, Slots
  <1>3. a[len - 1] \in Node /\ Blank \in Node
    BY <1>2 DEF Node, Blank, SIZE_MAX
  <1>4. x \in Node /\ x.key = a[len - 1].key /\ x.val = a[len - 1].val
    BY <1>3 DEF Node
  <1>. HIDE DEF x
  <1>5. a' = [m \in Slots |-> IF m = len - 1 THEN Blank ELSE IF m = 0 THEN x ELSE a[m]]
    BY <1>1, <1>2, Zenon
  <1>6. a'[0] = x /\ \A j \in 1 .. len - 2 : a'[j] = a[j]
    BY <1>2, <1>5
  <1>7. a' \in [Slots -> Node]
    BY <1>2, <1>3, <1>4, <1>5, Zenon
  <1>. QED
    BY <1>1, <1>4, <1>6, <1>7, Zenon

(* heap_pop keeps it: only the node it moved to the root may be out of     *)
(* place, and no other slot has changed its parent.                        *)
LEMMA PopKeeps ==
  ASSUME HeapInv, heap_pop
  PROVE  HeapInv'
  <1>. USE DEF HeapInv
  <1>1. len \in Nat /\ len <= Cap /\ pc = "idle"
    BY HeapAssumption DEF heap_pop, HeapType
  <1>2. CASE len = 0
    <2>1. UNCHANGED <<a, len, pc, i>>
      BY <1>2, Zenon DEF heap_pop
    <2>. QED
      BY <2>1, Zenon DEF HeapType, Used, Distinct, Order, Exempt, Across, Slots, Node, parent
  <1>3. CASE len = 1
    <2>1. a' = [a EXCEPT ![0] = Blank] /\ len' = 0 /\ pc' = pc /\ i' = i
      BY <1>3 DEF heap_pop
    <2>2. Blank \in Node
      BY DEF Blank, Node, SIZE_MAX
    <2>3. HeapType'
      BY <1>1, <2>1, <2>2, HeapAssumption DEF HeapType, Slots, Node, Used
    <2>. QED
      BY <1>1, <2>1, <2>3 DEF Distinct, Order, Across, Used
  <1>4. CASE len > 1
    <2>1. /\ len' = len - 1 /\ pc' = "sift_down" /\ i' = 0
          /\ a' \in [Slots -> Node]
          /\ a'[0].key = a[len - 1].key /\ a'[0].val = a[len - 1].val
          /\ \A j \in 1 .. len - 2 : a'[j] = a[j]
      BY <1>4, PopFacts, Zenon
    <2>2. HeapType'
      BY <1>1, <1>4, <2>1, HeapAssumption DEF HeapType, Used, Slots, Node
    <2>3. Distinct'
      <3>. SUFFICES ASSUME NEW j \in 0 .. len - 2, NEW k \in 0 .. len - 2, a'[j].val = a'[k].val
                    PROVE  j = k
        BY <1>1, <2>1 DEF Distinct, Used
      <3>. DEFINE from(m) == IF m = 0 THEN len - 1 ELSE m
      <3>1. a'[j].val = a[from(j)].val /\ a'[k].val = a[from(k)].val
        BY <1>1, <2>1
      <3>2. from(j) \in Used /\ from(k) \in Used
        BY <1>1, <1>4 DEF Used
      <3>3. from(j) = from(k)
        <4>. HIDE DEF from
        <4>. QED BY <3>1, <3>2, Zenon DEF Distinct
      <3>. QED
        BY <1>1, <1>4, <3>3
    <2>4. Order'
      <3>. SUFFICES ASSUME NEW j \in 1 .. len - 2, parent(j) # 0
                    PROVE  a'[parent(j)].key <= a'[j].key
        BY <1>1, <2>1 DEF Order, Exempt, parent
      <3>1. j \in 1 .. len - 1
        BY <1>1
      <3>2. a[parent(j)].key <= a[j].key
        BY <1>1, <3>1, Zenon DEF Order, Exempt
      <3>3. parent(j) \in 1 .. len - 2
        BY <1>1, <3>1, ParentUsed
      <3>. QED
        BY <2>1, <3>2, <3>3, Zenon
    <2>5. Across'
      BY <2>1 DEF Across
    <2>. QED
      BY <2>2, <2>3, <2>4, <2>5, Zenon
  <1>. QED
    BY <1>1, <1>2, <1>3, <1>4

(* A turn of sift_down keeps it: the child of least key goes up, so that it *)
(* is in order with the others, and was in order with the parent of i.     *)
LEMMA SiftDownKeeps ==
  ASSUME HeapInv, sift_down
  PROVE  HeapInv'
  <1>. USE DEF HeapInv
  <1>1. pc = "sift_down" /\ i \in Used /\ len' = len /\ i \in Nat /\ len \in Nat
    BY HeapAssumption DEF sift_down, HeapType
  <1>2. CASE ~Sinks
    <2>1. pc' = "idle" /\ i' = 0 /\ a' = a
      BY <1>2, Zenon DEF sift_down
    <2>2. HeapType' /\ Distinct' /\ Across'
      BY <1>1, <2>1, Zenon DEF HeapType, Distinct, Across, Used, Slots, Node
    <2>3. Order'
      <3>. SUFFICES ASSUME NEW j \in 1 .. len - 1 PROVE a[parent(j)].key <= a[j].key
        BY <1>1, <2>1, Zenon DEF Order, parent
      <3>1. CASE parent(j) # i
        BY <1>1, <3>1, Zenon DEF Order, Exempt
      <3>2. CASE parent(j) = i
        <4>1. ~(a[j].key < a[i].key)
          BY <1>1, <1>2, <3>2, ChildrenAre, Zenon DEF Sinks
        <4>2. a[j].key \in Nat /\ a[i].key \in Nat
          BY <1>1, ParentUsed, KeysNat, Zenon
        <4>. QED
          BY <3>2, <4>1, <4>2
      <3>. QED
        BY <3>1, <3>2, Zenon
    <2>. QED
      BY <2>2, <2>3, Zenon
  <1>3. CASE Sinks
    <2>. DEFINE c == Best(i)
    <2>1. a' = swap_nodes(i, c) /\ i' = c /\ pc' = "sift_down"
      BY <1>1, <1>3, Zenon DEF sift_down
    <2>2. c \in Children(i) /\ \A b \in Children(i) : a[c].key <= a[b].key
      BY <1>1, <1>3, BestChild, Zenon DEF Sinks
    <2>. HIDE DEF c
    <2>3. c \in 1 .. len - 1 /\ parent(c) = i
      BY <1>1, <2>2, ChildrenAre, Zenon
    <2>4. c \in Used /\ c \in Nat /\ i < c
      BY <2>3, ParentUsed
    <2>5. a[c].key < a[i].key
      <3>1. PICK b \in Children(i) : a[b].key < a[i].key
        BY <1>3, Zenon DEF Sinks
      <3>2. b \in Used
        BY <1>1, ChildrenAre, ParentUsed, Zenon
      <3>3. a[b].key \in Nat /\ a[c].key \in Nat /\ a[i].key \in Nat
        BY <1>1, <2>4, <3>2, KeysNat, Zenon
      <3>4. a[c].key <= a[b].key
        BY <2>2, Zenon
      <3>. QED
        BY <3>1, <3>3, <3>4
    <2>6. /\ a' \in [Slots -> Node]
          /\ a'[i].key = a[c].key /\ a'[c].key = a[i].key
          /\ \A m \in Slots : m # c /\ m # i => a'[m] = a[m]
      BY <1>1, <2>1, <2>4, SwapFacts
    <2>7. Distinct'
      <3>1. \A m, n \in Used : a'[m].val = a'[n].val => m = n
        BY <1>1, <2>1, <2>4, SwapKeeps
      <3>. QED BY <1>1, <3>1, Zenon DEF Distinct, Used
    <2>8. HeapType'
      BY <1>1, <2>1, <2>4, <2>6, Zenon DEF HeapType, Used, Slots, Node
    <2>9. \A j \in Used : /\ j \in Slots /\ a[j].key \in Nat
                          /\ a'[j].key = IF j = i THEN a[c].key
                                         ELSE IF j = c THEN a[i].key ELSE a[j].key
      BY <2>6, KeysNat, Zenon
    <2>10. \A j \in 1 .. len - 1 : /\ j \in Used /\ parent(j) \in Used
                                   /\ parent(j) # i => a[parent(j)].key <= a[j].key
                                   /\ parent(j) = i => a[c].key <= a[j].key
                                   /\ parent(j) < j /\ parent(j) \in Nat /\ j \in Nat
      BY <1>1, <2>2, ParentUsed, ChildrenAre DEF Order, Exempt
    <2>11. i > 0 => i \in 1 .. len - 1 /\ a[parent(i)].key <= a[c].key
      BY <1>1, <2>3 DEF Across, Used
    <2>12. Order'
      <3>. SUFFICES ASSUME NEW j \in 1 .. len - 1, parent(j) # c
                    PROVE  a'[parent(j)].key <= a'[j].key
        BY <1>1, <2>1, Zenon DEF Order, Exempt, parent
      <3>1. CASE parent(j) = i
        <4>1. j # i /\ j \in Used /\ a[c].key <= a[j].key
          BY <1>1, <2>10, <3>1
        <4>. QED
          BY <1>1, <2>4, <2>5, <2>9, <3>1, <4>1
      <3>2. CASE parent(j) # i
        <4>1. a'[parent(j)].key = a[parent(j)].key
          BY <2>9, <2>10, <3>2, Zenon
        <4>2. CASE j = i
          BY <1>1, <2>9, <2>11, <4>1, <4>2
        <4>3. CASE j # i
          <5>1. j # c
            BY <2>3, <3>2, Zenon
          <5>. QED
            BY <2>9, <2>10, <3>2, <4>1, <4>3, <5>1, Zenon
        <4>. QED
          BY <4>2, <4>3, Zenon
      <3>. QED
        BY <3>1, <3>2, Zenon
    <2>13. Across'
      <3>. SUFFICES ASSUME NEW j \in 1 .. len - 1, parent(j) = c
                    PROVE  a'[parent(c)].key <= a'[j].key
        BY <1>1, <2>1, Zenon DEF Across, parent
      <3>1. j \in Used /\ j # c /\ j # i /\ a[c].key <= a[j].key
        BY <1>1, <2>4, <2>10
      <3>. QED
        BY <1>1, <2>3, <2>9, <3>1, Zenon
    <2>. QED
      BY <2>7, <2>8, <2>12, <2>13, Zenon
  <1>. QED
    BY <1>2, <1>3, Zenon

(* No sequence of calls brings the array out of order: at every turn of a  *)
(* loop only the node it moves is out of place.                            *)
THEOREM HeapOrdered == HeapSpec => []HeapInv
  <1>1. HeapInit => HeapInv
    <2>. SUFFICES ASSUME HeapInit PROVE HeapInv
      BY Zenon
    <2>1. Blank \in Node
      BY DEF Blank, Node, SIZE_MAX
    <2>2. HeapType
      BY <2>1, HeapAssumption DEF HeapInit, HeapType, Used
    <2>. QED
      BY <2>2 DEF HeapInit, HeapInv, Distinct, Order, Across, Used
  <1>2. HeapInv /\ [HeapNext]_heapVars => HeapInv'
    <2>. SUFFICES ASSUME HeapInv, [HeapNext]_heapVars PROVE HeapInv'
      BY Zenon
    <2>1. CASE UNCHANGED heapVars
      BY <2>1, Zenon DEF heapVars, HeapInv, HeapType, Used, Distinct, Order, Exempt, Across, Slots, Node, parent
    <2>2. CASE HeapNext
      BY <2>2, PushKeeps, PopKeeps, SiftUpKeeps, SiftDownKeeps, Zenon DEF HeapNext
    <2>. QED
      BY <2>1, <2>2, Zenon
  <1>. QED
    BY <1>1, <1>2, PTL DEF HeapSpec

-----------------------------------------------------------------------------
(* The refinement of the queue.                                            *)

(* heap_push that finds room adds the node.                                *)
LEMMA PushAdds ==
  ASSUME HeapInv, NEW k \in Keys, NEW v \in Data, heap_push(k, v), len # Cap
  PROVE  Nodes(a', len') = Nodes(a, len) \cup {[key |-> k, val |-> v]}
  <1>. DEFINE x == [key |-> k, val |-> v, idx |-> len]
  <1>1. a' = [a EXCEPT ![len] = x] /\ len' = len + 1
    BY Zenon DEF heap_push
  <1>2. len \in Slots /\ len \in Nat /\ DOMAIN a = Slots /\ \A j \in Used : j \in Slots /\ j # len
    BY HeapAssumption DEF HeapInv, HeapType, Slots, Used
  <1>3. Pair(a'[len]) = [key |-> k, val |-> v] /\ \A j \in Used : a'[j] = a[j]
    BY <1>1, <1>2, Zenon DEF Pair
  <1>4. 0 .. len' - 1 = Used \cup {len}
    BY <1>1, <1>2 DEF Used
  <1>. QED
    BY <1>3, <1>4 DEF Nodes, Used

(* heap_pop takes the node of the root, and no other.                      *)
LEMMA PopTakes ==
  ASSUME HeapInv, heap_pop, len # 0
  PROVE  Nodes(a', len') = Nodes(a, len) \ {Pair(a[0])} /\ len' = len - 1
  <1>. USE DEF HeapInv
  <1>1. len \in Nat /\ len <= Cap
    BY HeapAssumption DEF HeapType
  <1>2. CASE len = 1
    BY <1>2 DEF heap_pop, Nodes
  <1>3. CASE len > 1
    <2>1. /\ len' = len - 1
          /\ a'[0].key = a[len - 1].key /\ a'[0].val = a[len - 1].val
          /\ \A j \in 1 .. len - 2 : a'[j] = a[j]
      BY <1>3, PopFacts, Zenon
    <2>2. Pair(a'[0]) = Pair(a[len - 1]) /\ \A j \in 1 .. len - 2 : Pair(a'[j]) = Pair(a[j])
      BY <2>1, Zenon DEF Pair
    <2>3. \A j \in 1 .. len - 1 : Pair(a[j]) # Pair(a[0])
      <3>. SUFFICES ASSUME NEW j \in 1 .. len - 1, Pair(a[j]) = Pair(a[0]) PROVE FALSE
        BY Zenon
      <3>1. a[j].val = a[0].val
        BY Zenon DEF Pair
      <3>. QED
        BY <1>1, <3>1 DEF Distinct, Used
    <2>4. ASSUME NEW x PROVE x \in Nodes(a', len') <=> x \in Nodes(a, len) /\ x # Pair(a[0])
      <3>1. ASSUME x \in Nodes(a', len') PROVE x \in Nodes(a, len) /\ x # Pair(a[0])
        <4>1. PICK j \in 0 .. len - 2 : x = Pair(a'[j])
          BY <1>1, <2>1, <3>1 DEF Nodes
        <4>2. \E m \in 1 .. len - 1 : x = Pair(a[m])
          BY <1>1, <1>3, <2>2, <4>1
        <4>. QED
          BY <1>1, <2>3, <4>2 DEF Nodes
      <3>2. ASSUME x \in Nodes(a, len), x # Pair(a[0]) PROVE x \in Nodes(a', len')
        <4>1. PICK j \in 1 .. len - 1 : x = Pair(a[j])
          BY <1>1, <3>2 DEF Nodes
        <4>2. \E m \in 0 .. len - 2 : x = Pair(a'[m])
          BY <1>1, <1>3, <2>2, <4>1
        <4>. QED
          BY <1>1, <2>1, <4>2 DEF Nodes
      <3>. QED
        BY <3>1, <3>2, Zenon
    <2>. QED
      BY <2>1, <2>4, Zenon
  <1>. QED
    BY <1>1, <1>2, <1>3

(* Every call is a call of the abstract queue, and a turn of a loop        *)
(* changes nothing of it.                                                  *)
LEMMA StepRefines ==
  ASSUME HeapInv, HeapNext
  PROVE  [Q!Next]_(Q!vars)
  <1>. DEFINE q == [a |-> Nodes(a, len), len |-> len]
  <1>1. ASSUME NEW k \in Keys, NEW v \in Data, heap_push(k, v) PROVE Q!Push(k, v)
    <2>1. CASE len = Cap
      <3>1. rc' = -1 /\ out' = <<>> /\ UNCHANGED <<a, len>>
        BY <1>1, <2>1, Zenon DEF heap_push
      <3>. QED
        BY <2>1, <3>1, Zenon DEF Q!Push, Q!heap_full, Pair
    <2>2. CASE len # Cap
      <3>1. rc' = 0 /\ out' = <<>> /\ len' = len + 1
        BY <1>1, <2>2, Zenon DEF heap_push
      <3>2. Nodes(a', len') = Nodes(a, len) \cup {[key |-> k, val |-> v]}
        BY <1>1, <2>2, PushAdds, Zenon
      <3>. QED
        BY <2>2, <3>1, <3>2, Zenon DEF Q!Push, Q!heap_full, Q!heap_push, Nodes, Pair
    <2>. QED
      BY <2>1, <2>2, Zenon
  <1>2. ASSUME heap_pop PROVE Q!Pop
    <2>1. pc = "idle" /\ rc' = 0
      BY <1>2, Zenon DEF heap_pop
    <2>2. CASE len = 0
      <3>1. out' = <<>> /\ UNCHANGED <<a, len>>
        BY <1>2, <2>2, Zenon DEF heap_pop
      <3>. QED
        BY <2>1, <2>2, <3>1, Zenon DEF Q!Pop, Q!heap_empty, Pair
    <2>3. CASE len # 0
      <3>1. out' = <<Pair(a[0])>>
        BY <1>2, <2>3, Zenon DEF heap_pop
      <3>2. Nodes(a', len') = Nodes(a, len) \ {Pair(a[0])} /\ len' = len - 1
        BY <1>2, <2>3, PopTakes, Zenon
      <3>3. Pair(a[0]) \in Nodes(a, len) /\ \A n \in Nodes(a, len) : Pair(a[0]).key <= n.key
        <4>1. 0 \in Used
          BY <2>3, HeapAssumption DEF HeapInv, HeapType, Used
        <4>2. \A j \in Used : a[0].key <= a[j].key
          BY <2>1, RootLeast, Zenon
        <4>. QED
          BY <4>1, <4>2 DEF Nodes, Pair, Used
      <3>4. Pair(a[0]) \in Q!Minima(q)
        BY <3>3, Zenon DEF Q!Minima
      <3>5. q' = Q!heap_pop(q, Pair(a[0]))
        BY <3>2, Zenon DEF Q!heap_pop
      <3>. QED
        BY <2>1, <3>1, <3>4, <3>5, Zenon DEF Q!Pop, Nodes, Pair
    <2>. QED
      BY <2>2, <2>3, Zenon
  <1>3. ASSUME sift_up \/ sift_down PROVE UNCHANGED <<q, rc, out>>
    <2>. USE DEF HeapInv
    <2>1. UNCHANGED <<len, rc, out>> /\ i \in Used
      BY <1>3, Zenon DEF sift_up, sift_down, HeapType
    <2>2. \/ a' = a
          \/ \E j, k \in Used : j # k /\ a' = swap_nodes(j, k)
      <3>1. CASE sift_up /\ Rises
        <4>1. i \in 1 .. len - 1
          BY <2>1, <3>1 DEF Rises, Used, HeapType
        <4>2. parent(i) \in Used /\ parent(i) # i
          BY <4>1, ParentUsed
        <4>. QED
          BY <2>1, <3>1, <4>2, Zenon DEF sift_up
      <3>2. CASE sift_down /\ Sinks
        <4>1. Best(i) \in Children(i) /\ i \in Nat
          BY <2>1, <3>2, BestChild, Zenon DEF Sinks, HeapType
        <4>2. Best(i) \in Used /\ Best(i) # i
          BY <4>1, ChildrenAre, ParentUsed
        <4>. QED
          BY <2>1, <3>2, <4>2, Zenon DEF sift_down
      <3>. QED
        BY <1>3, <3>1, <3>2, Zenon DEF sift_up, sift_down
    <2>3. Nodes(a', len) = Nodes(a, len)
      BY <2>2, SwapKeeps
    <2>. QED
      BY <2>1, <2>3, Zenon
  <1>4. CASE \E k \in Keys, v \in Data : heap_push(k, v)
    BY <1>1, <1>4, Zenon DEF Q!Next
  <1>5. CASE heap_pop
    BY <1>2, <1>5, Zenon DEF Q!Next
  <1>6. CASE sift_up \/ sift_down
    BY <1>3, <1>6, Zenon DEF Q!vars, Nodes, Pair
  <1>. QED
    BY <1>4, <1>5, <1>6, Zenon DEF HeapNext

(* The array of heap.c implements the queue that the scheduler is written  *)
(* against, for every arity, capacity and set of keys.                     *)
THEOREM HeapRefinesPQueue == HeapSpec => RefinesPQueue
  <1>1. HeapInit => Q!Init
    <2>. SUFFICES ASSUME HeapInit PROVE Q!Init
      BY Zenon
    <2>1. len = 0 /\ {Pair(a[j]) : j \in 0 .. len - 1} = {}
      BY DEF HeapInit
    <2>. QED
      BY <2>1, Zenon DEF HeapInit, Q!Init, Q!heap_init
  <1>2. HeapInv /\ [HeapNext]_heapVars => [Q!Next]_(Q!vars)
    <2>. SUFFICES ASSUME HeapInv, [HeapNext]_heapVars PROVE [Q!Next]_(Q!vars)
      BY Zenon
    <2>1. CASE UNCHANGED heapVars
      BY <2>1, Zenon DEF heapVars, Q!vars, Pair
    <2>. QED
      BY <2>1, StepRefines, Zenon
  <1>. QED
    BY <1>1, <1>2, HeapOrdered, PTL DEF HeapSpec, RefinesPQueue, Q!Spec

-----------------------------------------------------------------------------
(* The switching of address spaces.                                        *)

(* The place of a tag in the order sched_new_proc gives them out.          *)
Turn(x) == IF x = 0 THEN TAGS - 1 ELSE x - 1

(* Only what a table can hold is in the TLB, and only a low page has an    *)
(* ASID.                                                                   *)
Walked(t) ==
  t.e.va = LOW => ~t.e.global /\ t.asid \in 0 .. TAGS - 1

(* Until the tags come round: asid is the one whose turn it is, live       *)
(* processes hold earlier tags, no two the same, and what the TLB knows    *)
(* under the tag of a process is that process's image.                     *)
FirstRound ==
  created <= TAGS =>
    /\ created < TAGS => asid = IF created + 1 = NASID THEN 0 ELSE created + 1
    /\ \A p \in Live : Turn(Tag(maps[p].asid)) < created
    /\ \A p, q \in Live : Tag(maps[p].asid) = Tag(maps[q].asid) => p = q
    /\ \A t \in tlb : t.e.va = LOW => Turn(t.asid) < created
    /\ \A t \in tlb, p \in Live :
         t.e.va = LOW /\ t.asid = Tag(maps[p].asid) => t.e.pa = maps[p].prog

(* A tag is a number below TAGS.                                           *)
LEMMA TagType ==
  ASSUME NEW x \in Nat
  PROVE  Tag(x) \in 0 .. TAGS - 1
BY AddrSpaceAssumption DEF Tag

(* The tags of the first round, in their order.                            *)
LEMMA TagTurn ==
  ASSUME NEW n \in Nat, n < TAGS
  PROVE  Turn(Tag(IF n + 1 = NASID THEN 0 ELSE n + 1)) = n
<1>1. TAGS \in Nat \ {0} /\ NASID \in Nat /\ TAGS <= NASID
  BY AddrSpaceAssumption
<1>2. CASE n + 1 < TAGS
  <2>1. (n + 1) % TAGS = n + 1 /\ n + 1 # NASID
    BY <1>1, <1>2
  <2> QED
    BY <1>1, <2>1 DEF Tag, Turn
<1>3. CASE n + 1 = TAGS
  <2>1. TAGS % TAGS = 0 /\ 0 % TAGS = 0
    BY <1>1
  <2> QED
    BY <1>1, <1>3, <2>1 DEF Tag, Turn
<1> QED
  BY <1>1, <1>2, <1>3

(* The inductive invariant.                                                *)
SpaceInv ==
  /\ SpaceTypeOK
  /\ DOMAIN maps = Procs
  /\ curr \in Live \cup {p0}
  /\ mode = "kernel" => ttbr = [of |-> p0, asid |-> 0]
  /\ ActiveTablesLive
  /\ \A t \in tlb : Walked(t)
  /\ FirstRound

(* mmu_map_switch loads the kernel's tables under ASID 0, and those of a   *)
(* live process under the ASID of its map.                                 *)
LEMMA SwitchTo ==
  ASSUME SpaceInv, NEW p \in Live \cup {p0}, mmu_map_switch(p)
  PROVE  /\ ttbr' \in [of : Procs \cup {p0}, asid : 0 .. NASID - 1]
         /\ ttbr'.of = p
         /\ ttbr' = [of |-> p, asid |-> IF p = p0 THEN 0 ELSE maps[p].asid]
BY AddrSpaceAssumption DEF SpaceInv, SpaceTypeOK, Live, mmu_map_switch, p0

(* What a walk of the tables in TTBR0 finds: a low page only where a       *)
(* process's tables are in it, and then that process's image.              *)
LEMMA WalkFinds ==
  ASSUME SpaceInv, NEW e \in Tables(ttbr.of)
  PROVE  e.va = LOW => /\ ~e.global /\ ttbr.of \in Live
                       /\ e.pa = maps[ttbr.of].prog
                       /\ ttbr.asid = maps[ttbr.of].asid
<1>1. CASE ttbr.of = p0
  BY <1>1, AddrSpaceAssumption DEF Tables, kernel_map, Entry, LOW, KERN
<1>2. CASE ttbr.of # p0
  <2>1. ttbr.of \in Live
    BY <1>2, Zenon DEF SpaceInv, ActiveTablesLive
  <2>2. mode = "program"
    BY <1>2 DEF SpaceInv, SpaceTypeOK
  <2>3. ttbr.of = curr /\ ttbr.asid = maps[curr].asid
    BY <1>2, <2>2 DEF SpaceInv, ActiveTablesLive
  <2>4. e \in process_map(maps[ttbr.of].prog)
    BY <1>2, <2>1, Zenon DEF Tables
  <2> QED
    BY <2>1, <2>3, <2>4 DEF process_map, Entry, LOW, KERN
<1> QED
  BY <1>1, <1>2, Zenon

(* A walk keeps the invariant: what it adds to the TLB under the ASID of   *)
(* a process is that process's image, and no other has the same ASID.      *)
LEMMA WalkStep ==
  ASSUME SpaceInv, Walk
  PROVE  SpaceInv'
<1> PICK e \in Tables(ttbr.of) :
      tlb' = tlb \cup {[e |-> e, asid |-> IF e.global THEN -1 ELSE Tag(ttbr.asid)]}
  BY Zenon DEF Walk
<1> DEFINE new == [e |-> e, asid |-> IF e.global THEN -1 ELSE Tag(ttbr.asid)]
<1>1. UNCHANGED <<maps, asid, created, ttbr, curr, mode>> /\ Live' = Live
  BY Zenon DEF Walk, Live
<1>2. new.e = e /\ (~e.global => new.asid = Tag(ttbr.asid))
  BY Zenon
<1>3. e.va = LOW => /\ ~e.global /\ ttbr.of \in Live
                    /\ e.pa = maps[ttbr.of].prog
                    /\ ttbr.asid = maps[ttbr.of].asid
  BY WalkFinds, Zenon
<1>4. SpaceTypeOK' /\ ActiveTablesLive' /\ (DOMAIN maps = Procs)'
      /\ (curr \in Live \cup {p0})'
      /\ (mode = "kernel" => ttbr = [of |-> p0, asid |-> 0])'
  BY <1>1, Zenon DEF SpaceInv, SpaceTypeOK, ActiveTablesLive
<1>5. \A t \in tlb' : Walked(t)
  <2>1. ttbr.asid \in Nat
    BY AddrSpaceAssumption DEF SpaceInv, SpaceTypeOK
  <2> QED
    BY <1>2, <1>3, <2>1, TagType, Zenon DEF SpaceInv, Walked
<1>6. FirstRound'
  <2> SUFFICES ASSUME created <= TAGS PROVE FirstRound'
    BY <1>1, Zenon DEF FirstRound
  <2>1. \A t \in tlb' : t.e.va = LOW => Turn(t.asid) < created
    BY <1>2, <1>3, Zenon DEF SpaceInv, FirstRound
  <2>2. \A t \in tlb', p \in Live :
          t.e.va = LOW /\ t.asid = Tag(maps[p].asid) => t.e.pa = maps[p].prog
    BY <1>2, <1>3 DEF SpaceInv, FirstRound
  <2> QED
    BY <1>1, <2>1, <2>2, Zenon DEF SpaceInv, FirstRound, Turn
<1> QED
  BY <1>4, <1>5, <1>6, <1>1, Zenon DEF SpaceInv, Walked

(* Exception entry, the switch of the current process and the return keep  *)
(* the invariant: maps and TLB stay, TTBR0 follows mode and curr.          *)
LEMMA VectorStep ==
  ASSUME SpaceInv,
         \/ ExceptionEntry \/ ExceptionReturn
         \/ \E p \in Live \cup {p0} : sched_switch_irq(p)
  PROVE  SpaceInv'
<1>1. UNCHANGED <<maps, asid, created, tlb>> /\ Live' = Live
  BY Zenon DEF ExceptionEntry, ExceptionReturn, sched_switch_irq, Live
<1>2. FirstRound' /\ (\A t \in tlb : Walked(t))' /\ (DOMAIN maps = Procs)'
  BY <1>1, Zenon DEF SpaceInv, FirstRound, Walked, Turn
<1>3. CASE ExceptionEntry
  <2>1. ttbr' = [of |-> p0, asid |-> 0]
    BY <1>3, Zenon DEF ExceptionEntry, mmu_map_switch
  <2>2. mode' = "kernel" /\ curr' = curr
    BY <1>3, Zenon DEF ExceptionEntry
  <2> QED
    BY <1>1, <1>2, <2>1, <2>2, AddrSpaceAssumption DEF SpaceInv, SpaceTypeOK, ActiveTablesLive
<1>4. CASE ExceptionReturn
  <2>1. mode' = "program" /\ curr' = curr /\ mmu_map_switch(curr)
    BY <1>4, Zenon DEF ExceptionReturn
  <2>2. /\ ttbr' \in [of : Procs \cup {p0}, asid : 0 .. NASID - 1]
        /\ ttbr'.of = curr
        /\ ttbr' = [of |-> curr, asid |-> IF curr = p0 THEN 0 ELSE maps[curr].asid]
    BY <2>1, SwitchTo, Zenon DEF SpaceInv
  <2> QED
    BY <1>1, <1>2, <2>1, <2>2, Zenon DEF SpaceInv, SpaceTypeOK, ActiveTablesLive
<1>5. CASE \E p \in Live \cup {p0} : sched_switch_irq(p)
  <2>1. /\ mode = "kernel" /\ mode' = mode /\ ttbr' = ttbr
        /\ curr' \in Live \cup {p0}
    BY <1>5, Zenon DEF sched_switch_irq
  <2> QED
    BY <1>1, <1>2, <2>1, Zenon DEF SpaceInv, SpaceTypeOK, ActiveTablesLive, Live
<1> QED
  BY <1>3, <1>4, <1>5, Zenon

(* A new process keeps the invariant: in the first round its ASID is one   *)
(* that neither a process nor an entry of the TLB has.                     *)
LEMMA CreateStep ==
  ASSUME SpaceInv, NEW p \in Procs, NEW g \in Progs, sched_new_proc(p, g)
  PROVE  SpaceInv'
<1> DEFINE m == [prog |-> g, asid |-> asid]
<1>1. /\ mode = "kernel" /\ p \notin Live /\ created' = created + 1
      /\ created < MaxCreate
      /\ maps' = [maps EXCEPT ![p] = m]
      /\ asid' = (asid + 1) % NASID
      /\ UNCHANGED <<ttbr, tlb, curr, mode>>
  BY Zenon DEF sched_new_proc
<1>2. asid \in 0 .. NASID - 1 /\ created \in Nat /\ NASID \in Nat /\ NASID > 1
  BY AddrSpaceAssumption DEF SpaceInv, SpaceTypeOK
<1>3. asid' = IF asid = NASID - 1 THEN 0 ELSE asid + 1
  BY <1>1, <1>2
<1>4. m # NoMap /\ m \in [prog : Progs, asid : 0 .. NASID - 1]
  BY <1>2, AddrSpaceAssumption, Zenon DEF NoMap
<1>5. /\ maps'[p] = m /\ DOMAIN maps' = Procs
      /\ \A q \in Procs : q # p => maps'[q] = maps[q]
  BY <1>1, Zenon DEF SpaceInv
<1>6. Live' = Live \cup {p}
  BY <1>4, <1>5, Zenon DEF Live
<1>11. maps'[p].asid = asid
  <2>1. m.asid = asid
    BY Zenon
  <2> QED
    BY <1>5, <2>1, SMT
<1>7. SpaceTypeOK'
  BY <1>1, <1>2, <1>3, <1>4, <1>5, AddrSpaceAssumption DEF SpaceInv, SpaceTypeOK
<1>8. ActiveTablesLive'
  BY <1>1, <1>6, Zenon DEF SpaceInv, ActiveTablesLive
<1>9. \A t \in tlb' : Walked(t)
  BY <1>1, Zenon DEF SpaceInv
<1>10. FirstRound'
  <2> SUFFICES ASSUME created + 1 <= TAGS PROVE FirstRound'
    BY <1>1, Zenon DEF FirstRound
  <2>0. /\ TAGS \in Nat /\ TAGS <= NASID /\ created < TAGS /\ created <= TAGS
        /\ asid \in Nat
    BY <1>2, AddrSpaceAssumption
  <2>1. asid = (IF created + 1 = NASID THEN 0 ELSE created + 1) /\ Turn(Tag(asid)) = created
    BY <2>0, <1>2, TagTurn, Zenon DEF SpaceInv, FirstRound
  <2>2. created' < TAGS => asid' = IF created' + 1 = NASID THEN 0 ELSE created' + 1
    BY <2>0, <2>1, <1>1, <1>2, <1>3
  <2>3. \A q \in Live : Turn(Tag(maps[q].asid)) < created
    BY <2>0, Zenon DEF SpaceInv, FirstRound
  <2>4. \A q \in Live' : Turn(Tag(maps'[q].asid)) < created'
    <3> SUFFICES ASSUME NEW q \in Live' PROVE Turn(Tag(maps'[q].asid)) < created'
      BY Zenon
    <3>1. CASE q = p
      <4>1. maps'[q].asid = asid
        BY <3>1, <1>11, Zenon
      <4>2. Turn(Tag(maps'[q].asid)) = created
        BY <2>1, <4>1, Zenon
      <4> QED
        BY <4>2, <1>1, <1>2
    <3>2. CASE q # p
      <4>1. q \in Live /\ maps'[q] = maps[q]
        BY <3>2, <1>5, <1>6, Zenon DEF Live
      <4>2. maps[q].asid \in Nat
        BY <4>1, <1>2 DEF SpaceInv, SpaceTypeOK, Live
      <4>3. Tag(maps[q].asid) \in 0 .. TAGS - 1
        BY <4>2, TagType, Zenon
      <4>4. Turn(Tag(maps[q].asid)) \in Int
        BY <2>0, <4>3 DEF Turn
      <4>5. Turn(Tag(maps[q].asid)) < created
        BY <2>3, <4>1, Zenon
      <4>6. Turn(Tag(maps[q].asid)) < created + 1
        BY <4>4, <4>5, <1>2
      <4> QED
        BY <4>1, <4>6, <1>1, Zenon
    <3> QED
      BY <3>1, <3>2, Zenon
  <2>5. \A q \in Live : Tag(maps[q].asid) # Tag(asid)
    <3>1. ~(created < created)
      BY <1>2
    <3> QED
      BY <2>1, <2>3, <3>1, Zenon
  <2>6. \A q, o \in Live' : Tag(maps'[q].asid) = Tag(maps'[o].asid) => q = o
    <3>1. \A q, o \in Live : Tag(maps[q].asid) = Tag(maps[o].asid) => q = o
      BY <2>0, Zenon DEF SpaceInv, FirstRound
    <3>2. \A q \in Live : q # p /\ q \in Procs
      BY <1>1, Zenon DEF Live
    <3>3. maps'[p].asid = asid /\ \A q \in Live : maps'[q] = maps[q]
      BY <3>2, <1>5, <1>11, Zenon
    <3> SUFFICES ASSUME NEW q \in Live', NEW o \in Live',
                        Tag(maps'[q].asid) = Tag(maps'[o].asid), q # o
                 PROVE  FALSE
      BY Zenon
    <3>4. CASE q \in Live /\ o \in Live
      BY <3>1, <3>3, <3>4, Zenon
    <3>5. CASE q = p /\ o \in Live
      BY <2>5, <3>3, <3>5, Zenon
    <3>6. CASE o = p /\ q \in Live
      BY <2>5, <3>3, <3>6, Zenon
    <3> QED
      BY <3>4, <3>5, <3>6, <1>6, Zenon
  <2>7. \A t \in tlb : t.e.va = LOW => Turn(t.asid) < created
    BY <2>0, Zenon DEF SpaceInv, FirstRound
  <2>8. \A t \in tlb' : t.e.va = LOW => Turn(t.asid) < created'
    BY <2>7, <2>0, <1>1, <1>2 DEF SpaceInv, Walked, Turn
  <2>9. \A t \in tlb', q \in Live' :
          t.e.va = LOW /\ t.asid = Tag(maps'[q].asid) => t.e.pa = maps'[q].prog
    <3>1. \A t \in tlb : t.e.va = LOW => t.asid # Tag(asid)
      <4>1. ~(created < created)
        BY <1>2
      <4> QED
        BY <2>1, <2>7, <4>1, Zenon
    <3>2. \A q \in Live : q # p /\ q \in Procs
      BY <1>1, Zenon DEF Live
    <3>3. \A t \in tlb, q \in Live :
            t.e.va = LOW /\ t.asid = Tag(maps[q].asid) => t.e.pa = maps[q].prog
      BY <2>0, Zenon DEF SpaceInv, FirstRound
    <3> QED
      BY <3>1, <3>2, <3>3, <1>1, <1>5, <1>6, Zenon
  <2> QED
    BY <2>2, <2>4, <2>6, <2>8, <2>9, Zenon DEF FirstRound, Turn
<1> QED
  BY <1>1, <1>5, <1>6, <1>7, <1>8, <1>9, <1>10, Zenon DEF SpaceInv, Walked

(* An exit keeps the invariant: the tables that go are not in TTBR0, which *)
(* has the kernel's since the exception was taken, and entries of the TLB  *)
(* that stay behind have an ASID nobody holds.                             *)
LEMMA ExitStep ==
  ASSUME SpaceInv, NEW p \in Live \cup {p0}, exit(p)
  PROVE  SpaceInv'
<1>1. /\ mode = "kernel" /\ curr # p0 /\ p # curr /\ curr' = p
      /\ maps' = [maps EXCEPT ![curr] = NoMap]
      /\ UNCHANGED <<asid, created, ttbr, tlb, mode>>
  BY Zenon DEF exit
<1>2. curr \in Live /\ curr \in Procs
  BY <1>1, Zenon DEF SpaceInv, Live
<1>3. /\ maps'[curr] = NoMap /\ DOMAIN maps' = Procs
      /\ \A q \in Procs : q # curr => maps'[q] = maps[q]
  BY <1>1, <1>2, Zenon DEF SpaceInv
<1>4. Live' = Live \ {curr}
  BY <1>3, Zenon DEF Live
<1>5. SpaceTypeOK'
  BY <1>1, <1>3, Zenon DEF SpaceInv, SpaceTypeOK, Live
<1>6. ActiveTablesLive' /\ (curr \in Live \cup {p0})'
  BY <1>1, <1>4 DEF SpaceInv, ActiveTablesLive
<1>7. FirstRound'
  <2>1. \A q \in Live' : q \in Live /\ maps'[q] = maps[q]
    BY <1>3, <1>4, Zenon DEF Live
  <2>2. FirstRound
    BY Zenon DEF SpaceInv
  <2>3. created' = created /\ asid' = asid /\ tlb' = tlb
    BY <1>1, Zenon
  <2>. QED BY <2>1, <2>2, <2>3 DEF FirstRound
<1> QED
  BY <1>1, <1>3, <1>5, <1>6, <1>7, Zenon DEF SpaceInv, Walked

(* The invariant holds from mmu_enable on, whatever the core walks and     *)
(* whichever processes come and go.                                        *)
THEOREM SpaceInvariant == SpaceSpec => []SpaceInv
<1>1. SpaceInit => SpaceInv
  <2> SUFFICES ASSUME SpaceInit PROVE SpaceInv
    BY Zenon
  <2>1. Live = {} /\ SpaceTypeOK
    BY AddrSpaceAssumption DEF SpaceInit, Live, SpaceTypeOK, p0
  <2> QED
    BY <2>1, AddrSpaceAssumption DEF SpaceInit, SpaceInv, ActiveTablesLive, FirstRound, Turn, p0
<1>2. SpaceInv /\ [SpaceNext]_spaceVars => SpaceInv'
  <2> SUFFICES ASSUME SpaceInv, [SpaceNext]_spaceVars PROVE SpaceInv'
    BY Zenon
  <2>1. CASE Walk
    BY <2>1, WalkStep, Zenon
  <2>2. CASE \/ ExceptionEntry \/ ExceptionReturn
             \/ \E p \in Live \cup {p0} : sched_switch_irq(p)
    BY <2>2, VectorStep, Zenon
  <2>3. CASE \E p \in Procs, g \in Progs : sched_new_proc(p, g)
    BY <2>3, CreateStep, Zenon
  <2>4. CASE \E p \in Live \cup {p0} : exit(p)
    BY <2>4, ExitStep, Zenon
  <2>5. CASE UNCHANGED spaceVars
    BY <2>5, Zenon DEF spaceVars, SpaceInv, SpaceTypeOK, ActiveTablesLive, FirstRound, Live, Walked, Turn
  <2> QED
    BY <2>1, <2>2, <2>3, <2>4, <2>5, Zenon DEF SpaceNext
<1> QED
  BY <1>1, <1>2, PTL DEF SpaceSpec

(* mmu_map_destroy never frees tables that are in TTBR0, and a program     *)
(* runs on its own tables under its own ASID, for every size.              *)
THEOREM SpaceTablesLive == SpaceSpec => []ActiveTablesLive
<1>1. SpaceInv => ActiveTablesLive
  BY Zenon DEF SpaceInv
<1> QED
  BY <1>1, SpaceInvariant, PTL

(* Until sched_new_proc has given out as many ASIDs as the TLB tells       *)
(* apart, a program's low window is its own image, for every number of     *)
(* slots and ASIDs: whatever the core has kept from processes that ran,    *)
(* exited or share the slot.                                               *)
THEOREM SpaceOwnImage == SpaceSpec => []OwnImageUntilReuse
<1>1. SpaceInv => OwnImageUntilReuse
  <2> SUFFICES ASSUME SpaceInv, created <= TAGS, mode = "program", curr # p0,
                      NEW t \in Usable, t.e.va = LOW
               PROVE  t.e.pa = maps[curr].prog
    BY Zenon DEF OwnImageUntilReuse, OwnImage
  <2>1. t \in tlb /\ t.asid = Tag(ttbr.asid)
    BY Zenon DEF Usable, SpaceInv, Walked
  <2>2. curr \in Live /\ ttbr.asid = maps[curr].asid
    BY DEF SpaceInv, ActiveTablesLive
  <2> QED
    BY <2>1, <2>2, Zenon DEF SpaceInv, FirstRound
<1> QED
  BY <1>1, SpaceInvariant, PTL
=============================================================================
