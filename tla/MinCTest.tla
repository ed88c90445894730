------------------------------ MODULE MinCTest ------------------------------
(***************************************************************************)
(* The program the kernel boots into: the threads "master" (minctestmain,  *)
(* slot 1) and "timer" (timerthread, slot 2) of src/kapp/minctest.c on the *)
(* kernel of Proc.  Their code is made of calls into Proc and of reads of  *)
(* ticks and of the local APIC counter; apc[t] is the place in it where    *)
(* thread t is when Proc has it at "run".  A failed ASSERT of theirs stops *)
(* the kernel like a trap in kernel mode.                                  *)
(***************************************************************************)
EXTENDS Proc

CONSTANTS
  LAPIC_SLEEP_TICKS,  \* what the timer thread sleeps in its loop
  MASTER_SLEEP,       \* what the master sleeps, 10
  MIN_INIT,           \* the first value of min, 1000000
  Samples,            \* timer counts since the tick, 0 .. LAPIC_TIMER_PERIOD
  MaxCycles,          \* bound: the statistics are kept up to this many samples
  PROMPT              \* whether all threads always sleep again before a tick

Master == 1
Timer == 2

ASSUME MinCTestAssumption ==
  /\ MAX_PROC > Timer /\ MaxSpawn >= 1 + Timer - Master
  /\ 0 \in Prios /\ 0 \in MINPRIO .. MAXPRIO
  /\ {1, LAPIC_SLEEP_TICKS, MASTER_SLEEP} \subseteq SleepArgs \cap (Nat \ {0})
  /\ MIN_INIT \in Nat /\ Samples \subseteq Nat /\ MaxCycles \in Nat \ {0}
  /\ PROMPT \in BOOLEAN

VARIABLES
  apc,
  lastticks,                 \* the local of timerthread
  min, max, sum, act, cycles \* the statistics

stats == <<min, max, sum, act, cycles>>
appvars == <<apc, lastticks, stats>>
allvars == <<vars, appvars>>

AppLabels == {"init", "wait", "print", "first", "loop", "woken"}

AppTypeOK ==
  /\ apc \in [{Master, Timer} -> AppLabels]
  /\ lastticks \in -TickMax - 1 .. TickMax
  /\ {min, max, sum, act} \subseteq Nat
  /\ cycles \in 0 .. MaxCycles

AppInit ==
  /\ apc = [t \in {Master, Timer} |-> "init"]
  /\ lastticks = 0
  /\ min = 0 /\ max = 0 /\ sum = 0 /\ act = 0 /\ cycles = 0

AppAt(t, l) == At(t, "run") /\ apc[t] = l

AppGoto(t, l) == apc' = [apc EXCEPT ![t] = l]

-----------------------------------------------------------------------------
(* timerthread *)

ResetStats == min' = MIN_INIT /\ max' = 0 /\ sum' = 0 /\ cycles' = 0

\* Slip: max is kept when the sample also lowers min.
updatestats_else(diff) ==
  IF cycles < MaxCycles
    THEN /\ min' = IF diff < min THEN diff ELSE min
         /\ max' = IF diff < min \/ diff <= max THEN max ELSE diff
         /\ sum' = sum + diff
         /\ act' = diff
         /\ cycles' = cycles + 1
    ELSE UNCHANGED stats

updatestats(diff) ==
  IF cycles < MaxCycles
    THEN /\ min' = IF diff < min THEN diff ELSE min
         /\ max' = IF diff > max THEN diff ELSE max
         /\ sum' = sum + diff
         /\ act' = diff
         /\ cycles' = cycles + 1
    ELSE UNCHANGED stats

\* The statistics are set and the thread sleeps to the next tick.
TimerInit ==
  /\ AppAt(Timer, "init")
  /\ ResetStats
  /\ sleep(Timer, 1)
  /\ AppGoto(Timer, "first")
  /\ UNCHANGED <<lastticks, act>>

\* Slip: the statistics are set again once the thread has slept.
TimerFirst_reset ==
  /\ AppAt(Timer, "first")
  /\ lastticks' = ticks
  /\ AppGoto(Timer, "init")
  /\ UNCHANGED <<vars, stats>>

TimerFirst ==
  /\ AppAt(Timer, "first")
  /\ lastticks' = ticks
  /\ AppGoto(Timer, "loop")
  /\ UNCHANGED <<vars, stats>>

TimerSleep ==
  /\ AppAt(Timer, "loop")
  /\ sleep(Timer, LAPIC_SLEEP_TICKS)
  /\ AppGoto(Timer, "woken")
  /\ UNCHANGED <<lastticks, stats>>

\* Slip: lastticks is not brought forward.
TimerSample_stale(rem) ==
  /\ AppAt(Timer, "woken")
  /\ IF ticks = lastticks + LAPIC_SLEEP_TICKS
       THEN updatestats(rem) /\ AppGoto(Timer, "loop")
            /\ UNCHANGED <<vars, lastticks>>
       ELSE Stop("trap") /\ UNCHANGED appvars

\* Slip: the subtraction nowcct - LAPIC_TIMER_PERIOD.
TimerSample_swapped(rem) ==
  /\ AppAt(Timer, "woken")
  /\ IF ticks = lastticks + LAPIC_SLEEP_TICKS
       THEN updatestats(-rem) /\ lastticks' = ticks /\ AppGoto(Timer, "loop")
            /\ UNCHANGED vars
       ELSE Stop("trap") /\ UNCHANGED appvars

\* Read the counter and ticks, ASSERT, updatestats.  ticks, an int, is widened
\* to u64: the sum lastticks + LAPIC_SLEEP_TICKS does not wrap as ticks does.
TimerSample(rem) ==
  /\ AppAt(Timer, "woken")
  /\ IF ticks = lastticks + LAPIC_SLEEP_TICKS
       THEN updatestats(rem) /\ lastticks' = ticks /\ AppGoto(Timer, "loop")
            /\ UNCHANGED vars
       ELSE Stop("trap") /\ UNCHANGED appvars

-----------------------------------------------------------------------------
(* minctestmain *)

MasterSpawn ==
  /\ AppAt(Master, "init")
  /\ spawn(Master, 0, "kpml4")
  /\ AppGoto(Master, "wait")
  /\ UNCHANGED <<lastticks, stats>>

\* Slip: the master does not look at cycles before it prints.
MasterWait_once ==
  /\ AppAt(Master, "wait")
  /\ sleep(Master, MASTER_SLEEP)
  /\ AppGoto(Master, "print")
  /\ UNCHANGED <<lastticks, stats>>

MasterWait ==
  /\ AppAt(Master, "wait")
  /\ IF cycles = 0
       THEN sleep(Master, MASTER_SLEEP) /\ UNCHANGED apc
       ELSE AppGoto(Master, "print") /\ UNCHANGED vars
  /\ UNCHANGED <<lastticks, stats>>

\* cprintf of the statistics, which divides by cycles, and sleep.
MasterPrint ==
  /\ AppAt(Master, "print")
  /\ IF cycles = 0 THEN Stop("trap") ELSE sleep(Master, MASTER_SLEEP)
  /\ UNCHANGED appvars

-----------------------------------------------------------------------------

\* Nothing is left to do until the next tick.
Quiet ==
  /\ At(IDLE, "find") /\ irr = 0
  /\ \A t \in Threads : state[t] # "RUNNABLE"

AppStep ==
  \/ TimerInit
  \/ TimerFirst
  \/ TimerSleep
  \/ \E rem \in Samples : TimerSample(rem)
  \/ MasterSpawn
  \/ MasterWait
  \/ MasterPrint

\* main spawns the master; then idlemain, the threads' way through the kernel.
BootStep ==
  \/ IdleStep
  \/ spawn(IDLE, 0, "kpml4")
  \/ \E p \in Procs : ThreadStep(p)

TickStep ==
  \/ (PROMPT => Quiet) /\ LapicFire
  \/ TimerEntry
  \/ TimerTick

AppNext ==
  \/ AppStep
  \/ (BootStep \/ TickStep) /\ UNCHANGED appvars

AppSpec == Init /\ AppInit /\ [][AppNext]_allvars

\* Fairness of Proc, and the running thread goes on.
AppFairSpec ==
  /\ AppSpec
  /\ WF_allvars((PROMPT => Quiet) /\ LapicFire /\ UNCHANGED appvars)
  /\ SF_allvars(TimerEntry /\ UNCHANGED appvars)
  /\ WF_allvars(TimerTick /\ UNCHANGED appvars)
  /\ SF_allvars(BootStep /\ UNCHANGED appvars)
  /\ SF_allvars(AppStep)

-----------------------------------------------------------------------------
(* Properties *)

\* The master, which divides by cycles, sees a sample before it first prints
\* and never again none, although timerthread sets cycles to 0 itself.
PrintsSamples == apc[Master] = "print" => cycles > 0

\* Whenever another thread can look, the statistics belong together: they are
\* those of cycles samples of which the last was act.
StatsConsistent ==
  cycles > 0 =>
    /\ min <= act /\ act <= max
    /\ min * cycles <= sum /\ sum <= max * cycles

\* If every thread is always asleep again before the next tick, sleep wakes
\* the timer thread on the very next one: its ASSERT can fail in the tick in
\* which the int ticks wraps, and never else.
OnTimeIfPrompt == PROMPT /\ halt # "no" => ticks = -TickMax - 1

\* The master gets to print: the timer thread, which shares the processor with
\* it, takes a sample, and the master comes to see it.
StatsPrinted == <>(apc[Master] = "print")

\* minctest.c: "ASSERT(nowticks == lastticks + LAPIC_SLEEP_TICKS)".  The only
\* other way to stop would be the division by cycles = 0.
TimerAssertHolds == halt # "trap"
=============================================================================
