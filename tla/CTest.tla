-------------------------------- MODULE CTest --------------------------------
(***************************************************************************)
(* The cyclic test of src/kapp/kernctest.c with src/kapp/rt.h on the       *)
(* kernel of Proc, as main runs it when it spawns ctestmain: the threads   *)
(* "master" (ctestmain, slot 1) and "timer" (timerthread, slot 2).  The    *)
(* timer thread computes with the time stamp counter and with the count of *)
(* the local APIC timer, so here both are driven by one clock: tsc         *)
(* advances between any two instructions, and the timer fires when its     *)
(* count runs out.  The threads read the two clocks in separate steps.     *)
(***************************************************************************)
EXTENDS Proc

CONSTANTS
  MUL, DIV,            \* LAPIC_FREQ / TSC_FREQ = MUL / DIV, 5 / 13
  TSC_PER_USEC,        \* TSC_FREQ / USEC_PER_SEC, 2600
  DEFAULT_INTERVAL,    \* distance of the deadlines in microseconds
  LAPIC_TIMER_PERIOD,  \* what the timer counts down from
  XLEN, INTLEN,        \* width of u64 and of int
  STAT_SLEEP,          \* what the master sleeps, 100
  MIN_INIT,            \* the first value of min, 100000
  MaxTsc               \* bound: the clock stops here

Master == 1
Timer == 2

ASSUME CTestAssumption ==
  /\ MAX_PROC > Timer /\ MaxSpawn >= 2
  /\ 0 \in Prios /\ 0 \in MINPRIO .. MAXPRIO
  /\ MUL \in 1 .. DIV
  /\ {DIV, TSC_PER_USEC, DEFAULT_INTERVAL, LAPIC_TIMER_PERIOD, STAT_SLEEP}
       \subseteq Nat \ {0}
  /\ {MIN_INIT, MaxTsc, XLEN, INTLEN} \subseteq Nat
  /\ MUL * (MaxTsc + TSC_PER_USEC * DEFAULT_INTERVAL) < 2^(XLEN - 1)

VARIABLES
  apc,               \* apc[t]: where thread t is in its code
  tsc,               \* the time stamp counter
  now, next, rem,    \* locals of timerthread and of tssleepto
  slnext, sleep_ticks, \* globals that tsdelta reports
  min, max, act, sum, cycles, \* struct thread_stat
  readat, first      \* history: tsc as tssleepto read it, the first deadline

stats == <<min, max, act, sum, cycles>>
appvars == <<apc, now, next, rem, slnext, sleep_ticks, stats, readat, first>>
allvars == <<vars, appvars, tsc>>

AppLabels == {"init", "print", "sleepto", "count", "woken"}

AppInit ==
  /\ apc = [t \in {Master, Timer} |-> "init"]
  /\ tsc = 0
  /\ now = 0 /\ next = 0 /\ rem = 0 /\ slnext = 0 /\ sleep_ticks = 0
  /\ min = 0 /\ max = 0 /\ act = 0 /\ sum = 0 /\ cycles = 0
  /\ readat = 0 /\ first = 0

-----------------------------------------------------------------------------
(* The clocks *)

\* Counts of the local APIC timer by time t, and what is left of the period.
Elapsed(t) == (t * MUL) \div DIV

Count(t) == LAPIC_TIMER_PERIOD - (Elapsed(t) % LAPIC_TIMER_PERIOD)

lapictimercnt == Count(tsc)

Clock ==
  /\ tsc < MaxTsc
  /\ tsc' = tsc + 1
  /\ IF Count(tsc') > Count(tsc) THEN LapicFire ELSE UNCHANGED vars
  /\ UNCHANGED appvars

\* The processor takes a tick it can accept before the next instruction.
NoTickToTake == ~(fl_if = 1 /\ irr = 1 /\ isr = 0)

AppAt(t, l) == At(t, "run") /\ apc[t] = l /\ NoTickToTake

AppGoto(t, l) == apc' = [apc EXCEPT ![t] = l]

-----------------------------------------------------------------------------
(* rt.h *)

U64(x) == x % 2^XLEN
AsI64(x) == IF x < 2^(XLEN - 1) THEN x ELSE x - 2^XLEN
AsInt(x) ==
  LET y == x % 2^INTLEN IN IF y < 2^(INTLEN - 1) THEN y ELSE y - 2^INTLEN

tssetus(us) == us * TSC_PER_USEC

interval == tssetus(DEFAULT_INTERVAL)

\* The ASSERT of tsinc: the sum does not wrap.
TsIncOK(t) == U64(t + interval) > t

\* In microseconds, rounded up; the difference itself must be positive.
tsdelta(t1, t2) == (AsI64(U64(t1 - t2)) + TSC_PER_USEC - 1) \div TSC_PER_USEC

TSC_TO_LAPIC(i) == U64(i * MUL) \div DIV

\* Slip: a difference below 0 stays unsigned.
TicksToSleep_unsigned(r) ==
  (U64(TSC_TO_LAPIC(r) - lapictimercnt) + LAPIC_TIMER_PERIOD - 1)
    \div LAPIC_TIMER_PERIOD

\* The second half of tssleepto, once r is the time that remains: less what is
\* left of this period, at least 1 if that is negative, rounded up to ticks.
TicksToSleep(r) ==
  LET diff == AsI64(U64(TSC_TO_LAPIC(r) - lapictimercnt))
      left == IF diff < 0 THEN 1 ELSE diff
  IN  (left + LAPIC_TIMER_PERIOD - 1) \div LAPIC_TIMER_PERIOD

-----------------------------------------------------------------------------
(* timerthread *)

\* The first deadline.
TimerInit ==
  /\ AppAt(Timer, "init")
  /\ now' = tsc
  /\ next' = tsc + interval
  /\ first' = next'
  /\ AppGoto(Timer, "sleepto")
  /\ UNCHANGED <<vars, tsc, rem, slnext, sleep_ticks, stats, readat>>

\* tssleepto up to rdtsc ...
SleepToTsc ==
  /\ AppAt(Timer, "sleepto")
  /\ slnext' = next
  /\ rem' = U64(next - tsc)
  /\ readat' = tsc
  /\ AppGoto(Timer, "count")
  /\ UNCHANGED <<vars, tsc, now, next, sleep_ticks, stats, first>>

\* ... and from lapictimercnt to sleep.
SleepToCount ==
  /\ AppAt(Timer, "count")
  /\ sleep_ticks' = AsInt(TicksToSleep(rem))
  /\ sleep(Timer, sleep_ticks')
  /\ AppGoto(Timer, "woken")
  /\ UNCHANGED <<tsc, now, next, rem, slnext, stats, readat, first>>

updatestats(diff) ==
  /\ min' = IF diff < min THEN diff ELSE min
  /\ max' = IF diff > max THEN diff ELSE max
  /\ act' = diff
  /\ sum' = sum + diff
  /\ cycles' = cycles + 1

\* Slip: only one interval is added, however late the thread is.
NextDeadline_once(t) == next + interval

\* tsinc, and again while now is past it.
NextDeadline(t) ==
  LET late == IF t > next THEN (t - next - 1) \div interval ELSE 0
  IN  next + (late + 1) * interval

\* Slip: the next deadline is set before the difference is taken.
TimerWoken_swapped ==
  /\ AppAt(Timer, "woken")
  /\ now' = tsc
  /\ IF tsc > NextDeadline(tsc)
       THEN /\ updatestats(tsdelta(tsc, next))
            /\ next' = NextDeadline(tsc)
            /\ AppGoto(Timer, "sleepto")
            /\ UNCHANGED vars
       ELSE Stop("trap") /\ UNCHANGED <<apc, next, stats>>
  /\ UNCHANGED <<tsc, rem, slnext, sleep_ticks, readat, first>>

\* tsgettime, tsdelta with its panic, the statistics and the next deadline.
TimerWoken ==
  /\ AppAt(Timer, "woken")
  /\ now' = tsc
  /\ IF AsI64(U64(tsc - next)) > 0 /\ TsIncOK(NextDeadline(tsc) - interval)
       THEN /\ updatestats(tsdelta(tsc, next))
            /\ next' = NextDeadline(tsc)
            /\ AppGoto(Timer, "sleepto")
            /\ UNCHANGED vars
       ELSE Stop("trap") /\ UNCHANGED <<apc, next, stats>>
  /\ UNCHANGED <<tsc, rem, slnext, sleep_ticks, readat, first>>

-----------------------------------------------------------------------------
(* ctestmain *)

\* The statistics are set, then the timer thread is spawned.
MasterSpawn ==
  /\ AppAt(Master, "init")
  /\ min' = MIN_INIT /\ max' = 0 /\ sum' = 0 /\ cycles' = 0
  /\ spawn(Master, 0, "kpml4")
  /\ AppGoto(Master, "print")
  /\ UNCHANGED <<tsc, now, next, rem, slnext, sleep_ticks, act, readat, first>>

\* print_stat, which only reads and divides by cycles if it is not 0, for the
\* first 210 cycles; then statdelay.
MasterPrint ==
  /\ AppAt(Master, "print")
  /\ sleep(Master, STAT_SLEEP)
  /\ UNCHANGED <<appvars, tsc>>

-----------------------------------------------------------------------------

AppStep ==
  \/ TimerInit
  \/ SleepToTsc
  \/ SleepToCount
  \/ TimerWoken
  \/ MasterSpawn
  \/ MasterPrint

\* main spawns the master; then idlemain, the threads' way through the kernel.
KernelPart ==
  \/ NoTickToTake /\ IdleStep
  \/ NoTickToTake /\ spawn(IDLE, 0, "kpml4")
  \/ \E p \in Procs : NoTickToTake /\ ThreadStep(p)
  \/ TimerEntry
  \/ TimerTick

AppNext ==
  \/ AppStep
  \/ KernelPart /\ UNCHANGED <<appvars, tsc>>
  \/ Clock

AppSpec == Init /\ AppInit /\ [][AppNext]_allvars

-----------------------------------------------------------------------------
(* Properties *)

\* Whenever tssleepto is called, the deadline is one of the grid laid by the
\* first, at most one interval after now and not before it, and no deadline
\* has been measured twice.
DeadlineAhead ==
  apc[Timer] = "sleepto" =>
    /\ now <= next /\ next <= now + interval
    /\ (next - first) % interval = 0
    /\ cycles * interval <= next - first

\* The time at which the timer fires next after t.
NextTick(t) ==
  LET e == (Elapsed(t) \div LAPIC_TIMER_PERIOD + 1) * LAPIC_TIMER_PERIOD
  IN  (e * DIV + MUL - 1) \div MUL

\* A deadline that comes before the next tick is never missed on the early
\* side, although the two clocks are read one after the other and ticks are
\* taken, or held back by cli, in between.  The thread can be too early, and
\* tsdelta panic, only if the deadline lies beyond the next tick or the time
\* computed is just 0, for which sleep returns at once.
EarlyOnlyBeyondTick ==
  halt = "trap" => sleep_ticks = 0 \/ slnext >= NextTick(readat)

\* The thread goes to sleep for more ticks than an interval has only when the
\* deadline was past as tssleepto read the clock: the remainder then wraps to
\* a large positive one, which the test for < 0 does not see.
LongSleepOnlyIfLate ==
  sleep_ticks > 1 + TSC_TO_LAPIC(interval) \div LAPIC_TIMER_PERIOD =>
    slnext < readat

\* kernctest.c: "ASSERT(diff > 0)": the thread wakes up after the deadline it
\* slept to.
DiffPositive == halt # "trap"
=============================================================================
