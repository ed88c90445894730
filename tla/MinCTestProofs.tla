--------------------------- MODULE MinCTestProofs ---------------------------
(***************************************************************************)
(* Proofs about MinCTest for any constants: the test program uses the      *)
(* kernel only as Proc allows, so what ProcProofs shows of the kernel      *)
(* holds under it, and its statistics are sound when they are printed.     *)
(***************************************************************************)
EXTENDS MinCTest, ProcProofs

\* A step of the two threads or of the kernel under them is a step of Proc.
LEMMA AppNextIsNext == [AppNext]_allvars => [Next]_vars
<1> SUFFICES ASSUME [AppNext]_allvars PROVE [Next]_vars
  OBVIOUS
<1>1. Master \in Procs /\ Timer \in Procs /\ IDLE \in Procs
  BY MinCTestAssumption, ProcAssumption DEF Master, Timer, Procs, IDLE
<1>2. CASE UNCHANGED allvars
  BY <1>2 DEF allvars
<1>3. ASSUME NEW p \in Procs, NEW n \in {1, LAPIC_SLEEP_TICKS, MASTER_SLEEP},
             sleep(p, n)
      PROVE  Next
  <2>1. n \in SleepArgs
    BY MinCTestAssumption
  <2>2. GiveUp(p)
    BY <1>3, <2>1 DEF GiveUp
  <2>3. QED
    BY <2>2 DEF Next
<1>4. ASSUME NEW p \in Procs, spawn(p, 0, "kpml4")
      PROVE  Next
  <2>1. 0 \in Prios
    BY MinCTestAssumption
  <2>2. Spawning(p)
    BY <1>4, <2>1 DEF Spawning
  <2>3. QED
    BY <2>2 DEF Next
<1>5. ASSUME NEW p \in Procs, At(p, "run"), Stop("trap")
      PROVE  Next
  <2>1. KernelTrap
    BY <1>5 DEF KernelTrap, At, Running
  <2>2. QED
    BY <2>1 DEF Next
<1>6. CASE AppStep
  <2>1. CASE TimerInit
    BY <2>1, <1>1, <1>3 DEF TimerInit
  <2>2. CASE TimerFirst
    BY <2>2 DEF TimerFirst
  <2>3. CASE TimerSleep
    BY <2>3, <1>1, <1>3 DEF TimerSleep
  <2>4. ASSUME NEW rem \in Samples, TimerSample(rem)
        PROVE  Next \/ UNCHANGED vars
    BY <2>4, <1>1, <1>5 DEF TimerSample, AppAt
  <2>5. CASE MasterSpawn
    BY <2>5, <1>1, <1>4 DEF MasterSpawn
  <2>6. CASE MasterWait
    BY <2>6, <1>1, <1>3 DEF MasterWait
  <2>7. CASE MasterPrint
    BY <2>7, <1>1, <1>3, <1>5 DEF MasterPrint, AppAt
  <2>8. QED
    BY <1>6, <2>1, <2>2, <2>3, <2>4, <2>5, <2>6, <2>7 DEF AppStep
<1>7. CASE BootStep
  BY <1>7, <1>1, <1>4 DEF BootStep, Next
<1>8. CASE TickStep
  BY <1>8 DEF TickStep, Next
<1>9. QED
  BY <1>2, <1>6, <1>7, <1>8 DEF AppNext

\* The test program on the kernel behaves as Proc allows: it never drives the
\* scheduler in a way that Proc leaves out.
THEOREM UsesKernel == AppSpec => Spec
<1>1. Init /\ AppInit => Init
  OBVIOUS
<1>2. QED
  BY <1>1, AppNextIsNext, PTL DEF AppSpec, Spec

\* Under the test program too, no ASSERT of the scheduler fails.
THEOREM AppAssertsHold == AppSpec => []NoAssertFails
BY UsesKernel, AssertsHold, PTL

-----------------------------------------------------------------------------

\* The statistics are sound, and before timerthread has set them there are no
\* samples.
StatsInv ==
  /\ apc \in [{Master, Timer} -> AppLabels]
  /\ min \in Nat /\ max \in Nat /\ sum \in Nat /\ act \in Nat /\ cycles \in Nat
  /\ apc[Timer] = "init" => cycles = 0
  /\ PrintsSamples
  /\ cycles = 0 => sum = 0
  /\ StatsConsistent
  /\ min * cycles <= sum /\ sum <= max * cycles

\* A sample between the new least and the new greatest keeps the mean there.
LEMMA MeanBetween ==
  ASSUME NEW a \in Nat, NEW b \in Nat, NEW lo \in Nat, NEW hi \in Nat,
         NEW c \in Nat, NEW s \in Nat, NEW d \in Nat,
         a * c <= s, s <= b * c,
         lo <= a, lo <= d, hi >= b, hi >= d
  PROVE  lo * (c + 1) <= s + d /\ s + d <= hi * (c + 1)
<1>1. lo * c <= a * c /\ b * c <= hi * c
  <2>1. \E k \in Nat : a = lo + k
    <3>1. a - lo \in Nat /\ a = lo + (a - lo)
      OBVIOUS
    <3>2. QED
      BY <3>1
  <2>2. PICK k \in Nat : a = lo + k
    BY <2>1
  <2>3. \E j \in Nat : hi = b + j
    <3>1. hi - b \in Nat /\ hi = b + (hi - b)
      OBVIOUS
    <3>2. QED
      BY <3>1
  <2>4. PICK j \in Nat : hi = b + j
    BY <2>3
  <2>5. a * c = lo * c + k * c /\ hi * c = b * c + j * c
    BY <2>2, <2>4
  <2>6. k * c \in Nat /\ j * c \in Nat
    OBVIOUS
  <2>7. QED
    BY <2>5, <2>6
<1>2. lo * (c + 1) = lo * c + lo /\ hi * (c + 1) = hi * c + hi
  OBVIOUS
<1>3. lo * c \in Nat /\ hi * c \in Nat /\ a * c \in Nat /\ b * c \in Nat
  OBVIOUS
<1>4. QED
  BY <1>1, <1>2, <1>3

\* Initially there are no samples and no statistics.
LEMMA StatsInit == AppInit => StatsInv
<1> SUFFICES ASSUME AppInit PROVE StatsInv
  OBVIOUS
<1>1. /\ min = 0 /\ max = 0 /\ sum = 0 /\ act = 0 /\ cycles = 0
      /\ apc = [t \in {Master, Timer} |-> "init"]
  BY DEF AppInit
<1>2. QED
  BY <1>1 DEF StatsInv, PrintsSamples, StatsConsistent, Master, Timer,
     AppLabels

\* updatestats keeps the statistics sound.
LEMMA UpdateSound ==
  ASSUME StatsInv, NEW diff \in Nat, updatestats(diff)
  PROVE  /\ min' \in Nat /\ max' \in Nat /\ sum' \in Nat /\ act' \in Nat
         /\ cycles' \in Nat
         /\ cycles > 0 => cycles' > 0
         /\ cycles' = 0 => sum' = 0
         /\ StatsConsistent'
         /\ min' * cycles' <= sum' /\ sum' <= max' * cycles'
<1> USE MinCTestAssumption
<1>1. /\ min \in Nat /\ max \in Nat /\ sum \in Nat /\ act \in Nat
      /\ cycles \in Nat
      /\ min * cycles <= sum /\ sum <= max * cycles
  BY DEF StatsInv
<1>2. CASE cycles < MaxCycles
  <2>1. /\ min' = IF diff < min THEN diff ELSE min
        /\ max' = IF diff > max THEN diff ELSE max
        /\ sum' = sum + diff
        /\ act' = diff
        /\ cycles' = cycles + 1
    BY <1>2 DEF updatestats
  <2>2. /\ min' \in Nat /\ max' \in Nat
        /\ min' <= min /\ min' <= diff /\ max' >= max /\ max' >= diff
    BY <1>1, <2>1
  <2>3. min' * (cycles + 1) <= sum + diff /\ sum + diff <= max' * (cycles + 1)
    BY <1>1, <2>2, MeanBetween
  <2>4. min' * cycles' <= sum' /\ sum' <= max' * cycles'
    BY <2>1, <2>3
  <2>5. sum' \in Nat /\ act' \in Nat /\ cycles' \in Nat /\ cycles' > 0
    BY <1>1, <2>1
  <2>6. min' <= act' /\ act' <= max'
    BY <2>1, <2>2
  <2>7. StatsConsistent'
    BY <2>4, <2>6 DEF StatsConsistent
  <2>8. cycles' # 0
    BY <2>5
  <2>9. QED
    BY <2>2, <2>4, <2>5, <2>7, <2>8
<1>3. CASE ~(cycles < MaxCycles)
  <2>1. UNCHANGED stats
    BY <1>3 DEF updatestats
  <2>2. QED
    BY <2>1 DEF stats, StatsInv, StatsConsistent
<1>4. QED
  BY <1>2, <1>3

\* Every step of the test program on the kernel keeps the statistics sound.
LEMMA StatsNext == StatsInv /\ [AppNext]_allvars => StatsInv'
<1> SUFFICES ASSUME StatsInv, [AppNext]_allvars PROVE StatsInv'
  OBVIOUS
<1> USE MinCTestAssumption DEF Master, Timer, AppLabels
<1>1. CASE UNCHANGED appvars
  BY <1>1 DEF appvars, stats, StatsInv, PrintsSamples, StatsConsistent
<1>2. CASE TimerInit
  <2>1. /\ apc[Timer] = "init" /\ apc' = [apc EXCEPT ![Timer] = "first"]
        /\ min' = MIN_INIT /\ max' = 0 /\ sum' = 0 /\ cycles' = 0
        /\ act' = act
    BY <1>2 DEF TimerInit, AppAt, AppGoto, ResetStats
  <2>2. apc[Master] # "print"
    BY <2>1 DEF StatsInv, PrintsSamples
  <2>3. min' * cycles' = 0 /\ max' * cycles' = 0
    BY <2>1
  <2>4. QED
    BY <2>1, <2>2, <2>3 DEF StatsInv, PrintsSamples, StatsConsistent
<1>3. ASSUME NEW t \in {Master, Timer},
             NEW l \in {"wait", "print", "loop", "woken"},
             AppGoto(t, l), UNCHANGED stats, l = "print" => cycles > 0
      PROVE  StatsInv'
  BY <1>3 DEF AppGoto, stats, StatsInv, PrintsSamples, StatsConsistent
<1>4. CASE TimerFirst
  BY <1>4, <1>3 DEF TimerFirst
<1>5. CASE TimerSleep
  BY <1>5, <1>3 DEF TimerSleep
<1>6. ASSUME NEW rem \in Samples, TimerSample(rem)
      PROVE  StatsInv'
  <2>1. CASE UNCHANGED appvars
    BY <2>1, <1>1
  <2>2. CASE updatestats(rem) /\ AppGoto(Timer, "loop")
    <3>1. rem \in Nat
      OBVIOUS
    <3>2. /\ min' \in Nat /\ max' \in Nat /\ sum' \in Nat /\ act' \in Nat
          /\ cycles' \in Nat
          /\ cycles > 0 => cycles' > 0
          /\ cycles' = 0 => sum' = 0
          /\ StatsConsistent'
          /\ min' * cycles' <= sum' /\ sum' <= max' * cycles'
      BY <2>2, <3>1, UpdateSound
    <3>3. /\ apc' = [apc EXCEPT ![Timer] = "loop"]
          /\ apc \in [{Master, Timer} -> AppLabels]
      BY <2>2 DEF AppGoto, StatsInv
    <3>4. apc'[Timer] = "loop" /\ apc'[Master] = apc[Master]
          /\ apc' \in [{Master, Timer} -> AppLabels]
      BY <3>3
    <3>5. PrintsSamples'
      BY <3>2, <3>4 DEF StatsInv, PrintsSamples
    <3>6. QED
      BY <3>2, <3>4, <3>5 DEF StatsInv
  <2>3. QED
    BY <1>6, <2>1, <2>2 DEF TimerSample
<1>7. CASE MasterSpawn
  BY <1>7, <1>3 DEF MasterSpawn
<1>8. CASE MasterWait
  <2>1. CASE cycles = 0
    BY <2>1, <1>8, <1>1 DEF MasterWait, appvars
  <2>2. CASE cycles # 0
    <3>1. cycles > 0
      BY <2>2 DEF StatsInv
    <3>2. QED
      BY <3>1, <2>2, <1>8, <1>3 DEF MasterWait
  <2>3. QED
    BY <2>1, <2>2
<1>9. CASE MasterPrint
  BY <1>9, <1>1 DEF MasterPrint
<1>10. CASE UNCHANGED allvars
  BY <1>10, <1>1 DEF allvars
<1>11. QED
  BY <1>1, <1>2, <1>4, <1>5, <1>6, <1>7, <1>8, <1>9, <1>10
  DEF AppNext, AppStep

\* The master never divides by zero cycles.
THEOREM MasterPrintsSamples == AppSpec => []PrintsSamples
<1>1. StatsInv => PrintsSamples
  BY DEF StatsInv
<1>2. QED
  BY <1>1, StatsInit, StatsNext, PTL DEF AppSpec

\* What the master prints belongs to one set of samples: the last of them and
\* their mean lie between the least and the greatest.
THEOREM SoundStats == AppSpec => []StatsConsistent
<1>1. StatsInv => StatsConsistent
  BY DEF StatsInv
<1>2. QED
  BY <1>1, StatsInit, StatsNext, PTL DEF AppSpec
=============================================================================
