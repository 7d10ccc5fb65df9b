------------------------------ MODULE Timebase ------------------------------
(***************************************************************************)
(* The time base and the timer of the JRT core (timer.c): the conversions  *)
(* between counter ticks and micro- or nanoseconds in 64-bit words, and    *)
(* the periodic timer that reprograms itself from its interrupt.  The      *)
(* one-shot timer that the scheduler programs is in module Sched.          *)
(***************************************************************************)
EXTENDS Integers

CONSTANTS
  FRQ,     \* CNTFRQ_EL0, ticks a second
  Units,   \* how many of a unit make a second: 10^6 and 10^9 in the code
  WORD,    \* 2^64 in the code
  Hertz,   \* arguments of start_periodic_task_freq
  MAX_NOW, \* bound on the counter
  MAX_LEN  \* bound on the length of a wait, in units

(* The comments of ticks_from_ns and ns_from_ticks: the products of the    *)
(* remainders fit in a word.                                               *)
ASSUME TimebaseAssumption ==
  /\ FRQ \in Nat \ {0} /\ WORD \in Nat
  /\ Units \subseteq Nat \ {0}
  /\ \A u \in Units : (u - 1) * FRQ + u \div 2 < WORD /\ (FRQ - 1) * u < WORD
  /\ Hertz \subseteq Nat

(* The counter is far from wrapping when it is read.                       *)
ASSUME CounterAssumption == MAX_NOW \in Nat /\ MAX_LEN \in Nat /\ MAX_NOW + FRQ < WORD

VARIABLES
  now,            \* CNTPCT_EL0
  g_cntfrq,
  cval, enabled,  \* CNTP_CVAL_EL0, and ENABLE of CNTP_CTL_EL0
  g_next_cval,
  g_period_ticks,
  at,             \* "idle", or where timer_irq_handler is
  next, seen,     \* its locals next and now, 0 when it is not running
  first           \* history: the first deadline of the periodic task

vars == <<now, g_cntfrq, cval, enabled, g_next_cval, g_period_ticks, at, next, seen, first>>

-----------------------------------------------------------------------------
(* Conversions, in words.  A division by zero gives 0 on this core (udiv)  *)
(* and the remainder is then the dividend.                                 *)
Word(n) == n % WORD
UDiv(a, b) == IF b = 0 THEN 0 ELSE a \div b
UMod(a, b) == IF b = 0 THEN a ELSE a % b

(* ticks_from_ns and ticks_from_us: whole units a second, then the rest,   *)
(* rounded to the nearest.                                                 *)
ticks_from(u, f, x) ==
  Word(Word((x \div u) * f) + Word((x % u) * f + u \div 2) \div u)

(* ns_from_ticks and us_from_ticks: rounded down.                          *)
from_ticks_OnePass(u, f, t) == UDiv(Word(t * u), f)
from_ticks(u, f, t) ==
  Word(Word(UDiv(t, f) * u) + UDiv(Word(UMod(t, f) * u), f))

(* wait() of the example program: now plus a length in microseconds, as    *)
(* the deadline in ticks that it passes to wait_until.                     *)
wait(u, f, t, n) == ticks_from(u, f, Word(from_ticks(u, f, t) + n))

-----------------------------------------------------------------------------
Init ==
  /\ now = 0 /\ g_cntfrq = 0
  /\ cval = 0 /\ enabled = FALSE
  /\ g_next_cval = 0 /\ g_period_ticks = 0
  /\ at = "idle" /\ next = 0 /\ seen = 0 /\ first = 0

Tick ==
  /\ now < MAX_NOW
  /\ now' = now + 1
  /\ UNCHANGED <<g_cntfrq, cval, enabled, g_next_cval, g_period_ticks, at, next, seen, first>>

timebase_init ==
  /\ at = "idle"
  /\ g_cntfrq' = FRQ
  /\ UNCHANGED <<now, cval, enabled, g_next_cval, g_period_ticks, at, next, seen, first>>

(* start_periodic_task, with the interrupt enabled and unmasked.           *)
StartPeriodic(ticks) ==
  /\ g_period_ticks' = ticks
  /\ g_next_cval' = Word(now + ticks)
  /\ cval' = g_next_cval'
  /\ enabled' = TRUE
  /\ first' = g_next_cval'

start_periodic_task_freq(hz) ==
  /\ at = "idle"
  /\ StartPeriodic(FRQ \div (IF hz = 0 THEN 1 ELSE hz))
  /\ UNCHANGED <<now, g_cntfrq, at, next, seen>>

stop_periodic_task ==
  /\ at = "idle" /\ enabled
  /\ enabled' = FALSE
  /\ UNCHANGED <<now, g_cntfrq, cval, g_next_cval, g_period_ticks, at, next, seen, first>>

(* timer_irq_handler, once the counter has reached the compare value: the  *)
(* deadline is read, and g_timer_func runs for as long as it likes.        *)
Expired == enabled /\ cval <= now
timer_irq_handler ==
  /\ at = "idle" /\ Expired
  /\ next' = g_next_cval
  /\ at' = "func"
  /\ UNCHANGED <<now, g_cntfrq, cval, enabled, g_next_cval, g_period_ticks, seen, first>>

ReadCounter ==
  /\ at = "func"
  /\ seen' = now
  /\ at' = "skip"
  /\ UNCHANGED <<now, g_cntfrq, cval, enabled, g_next_cval, g_period_ticks, next, first>>

(* The loop that skips forward until next > now.                           *)
SkipOne_FromNow ==
  /\ at = "skip" /\ next <= seen
  /\ next' = Word(seen + g_period_ticks)
  /\ UNCHANGED <<now, g_cntfrq, cval, enabled, g_next_cval, g_period_ticks, at, seen, first>>
SkipOne ==
  /\ at = "skip" /\ next <= seen
  /\ next' = Word(next + g_period_ticks)
  /\ UNCHANGED <<now, g_cntfrq, cval, enabled, g_next_cval, g_period_ticks, at, seen, first>>

Rearm_Late ==
  /\ at = "skip" /\ next > seen
  /\ g_next_cval' = Word(next + g_period_ticks) /\ cval' = g_next_cval'
  /\ at' = "idle" /\ next' = 0 /\ seen' = 0
  /\ UNCHANGED <<now, g_cntfrq, enabled, g_period_ticks, first>>
Rearm ==
  /\ at = "skip" /\ next > seen
  /\ g_next_cval' = next /\ cval' = next
  /\ at' = "idle" /\ next' = 0 /\ seen' = 0
  /\ UNCHANGED <<now, g_cntfrq, enabled, g_period_ticks, first>>

Handler == ReadCounter \/ SkipOne \/ Rearm
Next ==
  \/ Tick \/ timebase_init
  \/ \E hz \in Hertz : start_periodic_task_freq(hz)
  \/ stop_periodic_task
  \/ timer_irq_handler
  \/ Handler

Spec == Init /\ [][Next]_vars

-----------------------------------------------------------------------------
(* Properties.                                                             *)

(* As long as the result fits in a word, ticks_from_ns and ticks_from_us   *)
(* give the tick nearest to the time, however large the product of the     *)
(* time and the frequency is: the words of the two halves never overflow.  *)
NearestTick ==
  \A u \in Units : g_cntfrq # 0 /\ now * FRQ + u < WORD * u =>
    LET t == ticks_from(u, g_cntfrq, now)
    IN  2 * t * u <= 2 * now * FRQ + u /\ 2 * now * FRQ <= 2 * t * u + u

(* wait() of a program that has just read the clock sleeps for the time it *)
(* asked for, rounded to the nearest tick, less what time_now_us rounded   *)
(* off: never as much as a unit early, and never late.                     *)
WaitLength ==
  \A u \in Units, n \in 0 .. MAX_LEN :
    g_cntfrq # 0 /\ now * u + n * FRQ + u < WORD * u /\ now * u + n * FRQ < WORD * FRQ =>
      LET d == (wait(u, g_cntfrq, now, n) - now) * u
      IN  2 * d <= 2 * n * FRQ + u /\ 2 * d > 2 * n * FRQ - 2 * FRQ - u

(* The periodic timer does not drift: every deadline is a whole number of  *)
(* periods after the first, however late the handler ran and however long  *)
(* g_timer_func took.                                                      *)
OnGrid ==
  g_period_ticks > 0 => (g_next_cval - first) % g_period_ticks = 0

(* Only deadlines that have passed are skipped: the next one the timer is  *)
(* set to is the first on the grid after the time the handler read.        *)
NoneMissed ==
  [][Rearm => /\ cval' > seen
              /\ cval' - g_period_ticks <= seen]_vars
=============================================================================
