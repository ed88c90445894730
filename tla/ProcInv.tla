------------------------------ MODULE ProcInv -------------------------------
(***************************************************************************)
(* The inductive invariant IInv of Proc: what each context's place in the  *)
(* code says of the process table, of the interrupt flag and of the        *)
(* registers.  Init establishes it; the steps of the idle process and of the *)
(* timer preserve it, for any table size, any arguments and any bounds.    *)
(***************************************************************************)
EXTENDS Proc, TLAPS

IdleLabels == {"procinit", "spawn", "spawning", "sti", "find", "claim",
               "switch", "swtched"}
ThreadLabels == {"run", "yield", "sleep", "exit", "sched", "swtched",
                 "trapret", "user", "syscall", "spawning"}

\* Places where the code runs with interrupts on.
Open == \/ pc[cpu] \in {"find", "claim", "switch", "run", "trapret", "user",
                        "syscall"}
        \/ cpu # IDLE /\ pc[cpu] \in {"swtched", "spawning"}

FlagInv == /\ fl_if = 1 <=> (Open /\ intr = 0)
           /\ intr = 1 => Open
           /\ isr = intr

\* The idle thread's place and curproc.
IdleInv ==
  /\ pc[IDLE] \in IdleLabels
  /\ cpu # IDLE => pc[IDLE] = "swtched"
  /\ IF pc[IDLE] = "procinit"
       THEN nproc = 0 /\ rr = 0 /\ curproc = NULL
       ELSE /\ nproc >= 1 /\ rr < nproc
            /\ curproc # NULL
            /\ state[IDLE] = "RUNNING"
  /\ cpu # IDLE => curproc = cpu
  /\ cpu = IDLE /\ pc[IDLE] \notin {"procinit", "switch"} => curproc = IDLE
  /\ pc[IDLE] = "claim" =>
       arg[IDLE] \in Threads /\ state[arg[IDLE]] = "RUNNABLE"
  /\ pc[IDLE] = "switch" =>
       curproc \in Threads /\ state[curproc] = "RUNNING"
  /\ pc[cpu] = "spawning" =>
       arg[cpu] \in Threads \ {cpu} /\ state[arg[cpu]] = "RESERVE"

\* A slot, by its state: in use or not, its stack, and where it continues.
SlotInv(t) ==
  /\ state[t] = "UNINIT" <=> t >= nproc
  /\ kstack[t] = IF t < nproc THEN t ELSE NULL
  /\ state[t] # "EXITED" => retval[t] = NULL
  /\ cpu # t =>
       /\ state[t] \in {"UNINIT", "RESERVE"} => pc[t] = "none"
       /\ state[t] \in {"RUNNABLE", "RUNNING", "SLEEPING"} =>
            pc[t] \in {"run", "trapret", "swtched"}
       /\ state[t] = "EXITED" => pc[t] = "swtched"
       /\ state[t] = "RUNNING" => pc[IDLE] = "switch" /\ curproc = t
  /\ cpu = t =>
       /\ pc[t] \in ThreadLabels
       /\ pc[t] = "sched" => state[t] \in {"RUNNABLE", "SLEEPING", "EXITED"}
       /\ pc[t] # "sched" => state[t] = "RUNNING"
       /\ pc[t] = "sleep" => arg[t] > 0
       /\ pc[t] = "exit" => arg[t] \in {RETURNED, KILLED}
       /\ cr3 = pt_root[t] /\ tss = kstack[t]

\* A sleeper: the periods ended and the ticks left cover the call, the ticks
\* that are pending or in service included.
SleepInv(t) ==
  state[t] = "SLEEPING" =>
    /\ sleeprem[t] >= 1
    /\ arg[t] >= 1
    /\ since[t] + sleeprem[t] >= arg[t] - 1 + irr + intr

\* How often t can have been passed over, by the distance the search has come.
BypassInv(t) ==
  state[t] = "RUNNABLE" =>
    /\ pc[IDLE] = "claim" /\ arg[IDLE] = t => bypass[t] <= MAX_PROC - 2
    /\ ~(pc[IDLE] = "claim" /\ arg[IDLE] = t) =>
         /\ rr > t => bypass[t] <= rr - 1 - t
         /\ rr = 0 => bypass[t] <= MAX_PROC - 1 - t
         /\ rr <= t /\ rr > 0 => bypass[t] <= MAX_PROC - 2 - t + rr

IInv ==
  /\ TypeOK
  /\ halt # "assert"
  /\ FlagInv
  /\ IdleInv
  /\ \A t \in Threads : SlotInv(t)
  /\ \A t \in Threads : SleepInv(t)
  /\ \A t \in Threads : BypassInv(t)

-----------------------------------------------------------------------------
(* What the proofs need of the constants; elsewhere they stay opaque. *)

\* The idle slot, the threads' slots and the null pointer are told apart, and
\* every slot number is below MAX_PROC.
LEMMA SlotFacts ==
  /\ IDLE \in Procs
  /\ NULL \notin Procs
  /\ \A t \in Threads : t \in Procs /\ t # IDLE
  /\ \A t \in Procs \ {IDLE} : t \in Threads
  /\ \A p \in Procs : p \in Nat /\ p < MAX_PROC
  /\ MAX_PROC \in Nat /\ MAX_PROC >= 2
BY ProcAssumption DEF Procs, Threads, IDLE, NULL

\* nproc never leaves the naturals.
LEMMA CountIsNat == TypeOK => nproc \in Nat
BY ProcAssumption, nproc \in 0 .. MAX_PROC => nproc \in Nat DEF TypeOK

\* procinit is entered in a state of IInv.
LEMMA InitIInv == Init => IInv
<1> SUFFICES ASSUME Init PROVE IInv
  OBVIOUS
<1>1. TypeOK
  BY ProcAssumption
  DEF Init, TypeOK, States, PageTables, Labels, Halts, Bit, RETURNED, KILLED,
      Procs, IDLE, NULL
<1>2. halt # "assert" /\ FlagInv /\ IdleInv
  BY SlotFacts DEF Init, FlagInv, Open, IdleInv, IdleLabels
<1>3. ASSUME NEW t \in Threads
      PROVE  SlotInv(t) /\ SleepInv(t) /\ BypassInv(t)
  BY SlotFacts DEF Init, SlotInv, SleepInv, BypassInv
<1>4. QED
  BY <1>1, <1>2, <1>3 DEF IInv

\* procinit sets up slot 0 and the idle thread.
LEMMA procinitIInv ==
  ASSUME IInv, procinit
  PROVE  IInv'
<1> USE SlotFacts DEF procinit, Running, At, Goto, procvars, cpuvars,
        apicvars, history
<1>1. /\ TypeOK /\ FlagInv /\ IdleInv
      /\ halt # "assert"
  BY DEF IInv
<1>2. nproc = IDLE /\ cpu = IDLE /\ curproc = NULL
  BY <1>1 DEF TypeOK, IdleInv, IDLE
<1>3. TypeOK'
  BY <1>1, <1>2 DEF TypeOK, States, PageTables, Labels
<1>4. halt' # "assert" /\ FlagInv'
  BY <1>1, <1>2 DEF TypeOK, FlagInv, Open, IdleInv
<1>5. IdleInv'
  BY <1>1, <1>2 DEF TypeOK, IdleInv, IdleLabels
<1>6. ASSUME NEW t \in Threads
      PROVE  SlotInv(t)' /\ SleepInv(t)' /\ BypassInv(t)'
  <2>1. SlotInv(t) /\ SleepInv(t) /\ BypassInv(t)
    BY DEF IInv
  <2>2. t \in Nat /\ t >= 1 /\ t # nproc /\ nproc' = 1
    BY <1>2 DEF IDLE
  <2>3. SlotInv(t)'
    BY <1>1, <1>2, <2>1, <2>2 DEF TypeOK, SlotInv
  <2>4. SleepInv(t)'
    BY <1>1, <1>2, <2>1 DEF TypeOK, SlotInv, SleepInv
  <2>5. BypassInv(t)'
    BY <1>1, <1>2, <2>1 DEF TypeOK, IdleInv, BypassInv
  <2>6. QED
    BY <2>3, <2>4, <2>5
<1>7. QED
  BY <1>3, <1>4, <1>5, <1>6 DEF IInv

\* sti in idlemain opens the interrupt window that "find" runs in.
LEMMA IdleStiIInv ==
  ASSUME IInv, IdleSti
  PROVE  IInv'
<1> USE SlotFacts DEF IdleSti, Running, At, Goto, procvars, cpuvars,
        apicvars, history
<1>1. /\ TypeOK /\ FlagInv /\ IdleInv
      /\ halt # "assert"
  BY DEF IInv
<1>2. TypeOK'
  BY <1>1 DEF TypeOK, Bit, Labels
<1>3. halt' # "assert" /\ FlagInv'
  BY <1>1 DEF TypeOK, FlagInv, Open, IdleInv
<1>4. IdleInv'
  BY <1>1 DEF TypeOK, IdleInv, IdleLabels
<1>5. ASSUME NEW t \in Threads
      PROVE  SlotInv(t)' /\ SleepInv(t)' /\ BypassInv(t)'
  <2>1. SlotInv(t) /\ SleepInv(t) /\ BypassInv(t)
    BY DEF IInv
  <2>2. SlotInv(t)'
    BY <1>1, <2>1 DEF TypeOK, IdleInv, SlotInv, ThreadLabels
  <2>3. SleepInv(t)'
    BY <1>1, <2>1 DEF TypeOK, SlotInv, SleepInv
  <2>4. BypassInv(t)'
    BY <1>1, <2>1 DEF TypeOK, IdleInv, BypassInv
  <2>5. QED
    BY <2>2, <2>3, <2>4
<1>6. QED
  BY <1>2, <1>3, <1>4, <1>5 DEF IInv

\* A turn of find_runnable_proc: the examined slot is RUNNABLE, or the search
\* comes one slot closer to every thread that waits.
LEMMA find_runnable_procIInv ==
  ASSUME IInv, find_runnable_proc
  PROVE  IInv'
<1> USE SlotFacts DEF find_runnable_proc, FindTurn, Running, At, Goto,
        procvars, cpuvars, apicvars, history
<1>1. /\ TypeOK /\ FlagInv /\ IdleInv
      /\ halt # "assert"
  BY DEF IInv
<1>2. /\ nproc \in Nat /\ nproc >= 1 /\ nproc <= MAX_PROC
      /\ rr \in Nat /\ rr < nproc
  BY <1>1 DEF TypeOK, IdleInv
<1>3. (rr + 1) % nproc = IF rr + 1 < nproc THEN rr + 1 ELSE 0
  BY <1>2
<1>4. rr' = IF rr + 1 < nproc THEN rr + 1 ELSE 0
  BY <1>3
<1>5. rr' \in Procs
  BY <1>2, <1>4 DEF Procs
<1>6. TypeOK'
  BY <1>1, <1>5 DEF TypeOK, Labels
<1>7. halt' # "assert" /\ FlagInv'
  BY <1>1 DEF TypeOK, FlagInv, Open, IdleInv
<1>8. IdleInv'
  BY <1>1 DEF TypeOK, IdleInv, IdleLabels
<1>9. ASSUME NEW t \in Threads
      PROVE  SlotInv(t)' /\ SleepInv(t)' /\ BypassInv(t)'
  <2>1. SlotInv(t) /\ SleepInv(t) /\ BypassInv(t)
    BY DEF IInv
  <2>2. SlotInv(t)'
    BY <1>1, <2>1 DEF TypeOK, IdleInv, SlotInv, ThreadLabels
  <2>3. SleepInv(t)'
    BY <1>1, <2>1 DEF TypeOK, SlotInv, SleepInv
  <2>4. BypassInv(t)'
    <3> SUFFICES ASSUME state[t] = "RUNNABLE"
                 PROVE  BypassInv(t)'
      BY DEF BypassInv
    <3>1. t \in Nat /\ t >= 1 /\ t < MAX_PROC /\ t < nproc
      BY <1>2, <2>1 DEF IDLE, SlotInv
    <3>2. bypass[t] \in Nat /\ bypass'[t] \in Nat
      BY <1>1, <1>6 DEF TypeOK
    <3>3. CASE rr = t
      <4>1. bypass[t] <= MAX_PROC - 2
        BY <2>1, <3>1, <3>2, <3>3 DEF BypassInv
      <4>2. bypass'[t] = bypass[t] /\ pc'[IDLE] = "claim" /\ arg'[IDLE] = t
        BY <1>1, <3>3 DEF TypeOK
      <4>3. QED
        BY <4>1, <4>2 DEF BypassInv
    <3>4. CASE rr # t
      <4>1. ~(pc'[IDLE] = "claim" /\ arg'[IDLE] = t)
        BY <1>1, <3>4 DEF TypeOK
      <4>2. bypass'[t] <= bypass[t] + IF rr = 0 THEN 0 ELSE 1
        <5>1. bypass'[t] = bypass[t] \/ bypass'[t] = bypass[t] + 1
          BY <1>1 DEF TypeOK
        <5>2. rr = IDLE => bypass' = bypass
          BY <1>1 DEF IdleInv
        <5>3. QED
          BY <3>2, <5>1, <5>2 DEF IDLE
      <4>3. /\ rr > t => bypass[t] <= rr - 1 - t
            /\ rr = 0 => bypass[t] <= MAX_PROC - 1 - t
            /\ rr <= t /\ rr > 0 => bypass[t] <= MAX_PROC - 2 - t + rr
        BY <2>1 DEF BypassInv
      <4>4. /\ rr' > t => bypass'[t] <= rr' - 1 - t
            /\ rr' = 0 => bypass'[t] <= MAX_PROC - 1 - t
            /\ rr' <= t /\ rr' > 0 => bypass'[t] <= MAX_PROC - 2 - t + rr'
        BY <1>2, <1>4, <3>1, <3>2, <3>4, <4>2, <4>3
      <4>5. QED
        BY <4>1, <4>4 DEF BypassInv
    <3>5. QED
      BY <3>3, <3>4
  <2>5. QED
    BY <2>2, <2>3, <2>4
<1>10. QED
  BY <1>6, <1>7, <1>8, <1>9 DEF IInv

\* idlemain marks the thread it found; it is still RUNNABLE although the timer
\* may have come in between.
LEMMA IdleClaimIInv ==
  ASSUME IInv, IdleClaim
  PROVE  IInv'
<1> USE SlotFacts DEF IdleClaim, Running, At, Goto, procvars, cpuvars,
        apicvars, history
<1>1. /\ TypeOK /\ FlagInv /\ IdleInv
      /\ arg[IDLE] \in Threads => SlotInv(arg[IDLE])
      /\ halt # "assert"
  BY DEF IInv
<1>2. arg[IDLE] \in Threads
  BY <1>1 DEF TypeOK, IdleInv
<1>3. TypeOK'
  BY <1>1, <1>2 DEF TypeOK, Labels, States
<1>4. halt' # "assert" /\ FlagInv'
  BY <1>1, <1>2 DEF TypeOK, FlagInv, Open, IdleInv
<1>5. IdleInv'
  BY <1>1, <1>2 DEF TypeOK, IdleInv, IdleLabels
<1>6. ASSUME NEW t \in Threads
      PROVE  SlotInv(t)' /\ SleepInv(t)' /\ BypassInv(t)'
  <2>1. SlotInv(t) /\ SleepInv(t) /\ BypassInv(t)
    BY DEF IInv
  <2>2. SlotInv(t)'
    BY <1>1, <1>2, <2>1 DEF TypeOK, IdleInv, SlotInv, ThreadLabels
  <2>3. SleepInv(t)'
    BY <1>1, <1>2, <2>1 DEF TypeOK, SlotInv, SleepInv
  <2>4. BypassInv(t)'
    BY <1>1, <1>2, <2>1 DEF TypeOK, IdleInv, BypassInv
  <2>5. QED
    BY <2>2, <2>3, <2>4
<1>7. QED
  BY <1>3, <1>4, <1>5, <1>6 DEF IInv

\* idlemain switches to the thread with its page table and kernel stack.
LEMMA IdleSwitchIInv ==
  ASSUME IInv, IdleSwitch
  PROVE  IInv'
<1> USE SlotFacts DEF IdleSwitch, swtch, set_task_kstack, ASSERT, Running,
        At, Goto, procvars, cpuvars, apicvars, history
<1>1. /\ TypeOK /\ FlagInv /\ IdleInv
      /\ curproc \in Threads => SlotInv(curproc)
      /\ halt # "assert"
  BY DEF IInv
<1>2. curproc \in Threads
  BY <1>1 DEF TypeOK, IdleInv
<1>3. TypeOK'
  BY <1>1, <1>2 DEF TypeOK, Labels
<1>4. halt' # "assert" /\ FlagInv'
  BY <1>1, <1>2 DEF TypeOK, FlagInv, Open, IdleInv, SlotInv
<1>5. IdleInv'
  BY <1>1, <1>2 DEF TypeOK, IdleInv, IdleLabels, SlotInv
<1>6. ASSUME NEW t \in Threads
      PROVE  SlotInv(t)' /\ SleepInv(t)' /\ BypassInv(t)'
  <2>1. SlotInv(t) /\ SleepInv(t) /\ BypassInv(t)
    BY DEF IInv
  <2>2. SlotInv(t)'
    BY <1>1, <1>2, <2>1 DEF TypeOK, IdleInv, SlotInv, ThreadLabels
  <2>3. SleepInv(t)'
    BY <1>1, <1>2, <2>1 DEF TypeOK, SlotInv, SleepInv
  <2>4. BypassInv(t)'
    BY <1>1, <1>2, <2>1 DEF TypeOK, IdleInv, BypassInv
  <2>5. QED
    BY <2>2, <2>3, <2>4
<1>7. QED
  BY <1>3, <1>4, <1>5, <1>6 DEF IInv

\* Back in idlemain, curproc is the idle thread again.
LEMMA IdleReturnIInv ==
  ASSUME IInv, IdleReturn
  PROVE  IInv'
<1> USE SlotFacts DEF IdleReturn, ASSERT, Running, At, Goto, procvars,
        cpuvars, apicvars, history
<1>1. /\ TypeOK /\ FlagInv /\ IdleInv
      /\ halt # "assert"
  BY DEF IInv
<1>2. curproc = IDLE
  BY <1>1 DEF TypeOK, IdleInv
<1>3. TypeOK'
  BY <1>1, <1>2 DEF TypeOK, Labels
<1>4. halt' # "assert" /\ FlagInv'
  BY <1>1, <1>2 DEF TypeOK, FlagInv, Open, IdleInv
<1>5. IdleInv'
  BY <1>1, <1>2 DEF TypeOK, IdleInv, IdleLabels
<1>6. ASSUME NEW t \in Threads
      PROVE  SlotInv(t)' /\ SleepInv(t)' /\ BypassInv(t)'
  <2>1. SlotInv(t) /\ SleepInv(t) /\ BypassInv(t)
    BY DEF IInv
  <2>2. SlotInv(t)'
    <3>1. /\ pc[IDLE] = "swtched" /\ cpu = IDLE /\ pc'[t] = pc[t]
          /\ UNCHANGED <<procvars, cpuvars, arg, cpu>>
      BY <1>1, <1>2 DEF TypeOK
    <3> HIDE DEF IdleReturn
    <3>2. QED
      BY <1>2, <2>1, <3>1 DEF SlotInv
  <2>3. SleepInv(t)'
    BY <1>1, <1>2, <2>1 DEF TypeOK, SlotInv, SleepInv
  <2>4. BypassInv(t)'
    BY <1>1, <1>2, <2>1 DEF TypeOK, IdleInv, BypassInv
  <2>5. QED
    BY <2>2, <2>3, <2>4
<1>7. QED
  BY <1>3, <1>4, <1>5, <1>6 DEF IInv

\* The counter of the local APIC reaches zero.
LEMMA LapicFireIInv ==
  ASSUME IInv, LapicFire
  PROVE  IInv'
<1> USE SlotFacts DEF LapicFire, Running, At, Goto, procvars, cpuvars,
        apicvars, history
<1>1. /\ TypeOK /\ FlagInv /\ IdleInv
      /\ halt # "assert"
  BY DEF IInv
<1>2. TypeOK'
  BY <1>1, SMTT(60) DEF TypeOK, Bit
<1>3. halt' # "assert" /\ FlagInv'
  BY <1>1 DEF TypeOK, FlagInv, Open, IdleInv
<1>4. IdleInv'
  BY <1>1 DEF TypeOK, IdleInv, IdleLabels
<1>5. ASSUME NEW t \in Threads
      PROVE  SlotInv(t)' /\ SleepInv(t)' /\ BypassInv(t)'
  <2>1. SlotInv(t) /\ SleepInv(t) /\ BypassInv(t)
    BY DEF IInv
  <2>2. SlotInv(t)'
    BY <1>1, <2>1 DEF TypeOK, IdleInv, SlotInv, ThreadLabels
  <2>3. SleepInv(t)'
    <3>1. /\ irr \in {0, 1} /\ intr \in {0, 1}
          /\ since[t] \in Nat /\ sleeprem[t] \in Int /\ arg[t] \in Int
      BY <1>1 DEF TypeOK, Bit
    <3>2. /\ since'[t] = since[t] + 1 \/ since'[t] = since[t]
          /\ state[t] = "SLEEPING" /\ since'[t] = since[t] =>
               since[t] >= arg[t]
          /\ irr' = 1 /\ intr' = intr
      BY <1>1, <3>1, SMTT(60) DEF TypeOK
    <3>3. state' = state /\ sleeprem' = sleeprem /\ arg' = arg
      OBVIOUS
    <3>4. QED
      BY <2>1, <3>1, <3>2, <3>3 DEF SleepInv
  <2>4. BypassInv(t)'
    BY <1>1, <2>1 DEF TypeOK, IdleInv, BypassInv
  <2>5. QED
    BY <2>2, <2>3, <2>4
<1>6. QED
  BY <1>2, <1>3, <1>4, <1>5 DEF IInv

\* The processor accepts a pending tick.
LEMMA TimerEntryIInv ==
  ASSUME IInv, TimerEntry
  PROVE  IInv'
<1> USE SlotFacts DEF TimerEntry, Running, At, Goto, procvars, cpuvars,
        apicvars, history
<1>1. /\ TypeOK /\ FlagInv /\ IdleInv
      /\ halt # "assert"
  BY DEF IInv
<1>2. TypeOK'
  BY <1>1 DEF TypeOK, Labels
<1>3. halt' # "assert" /\ FlagInv'
  BY <1>1 DEF TypeOK, FlagInv, Open, IdleInv
<1>4. IdleInv'
  BY <1>1 DEF TypeOK, IdleInv, IdleLabels
<1>5. ASSUME NEW t \in Threads
      PROVE  SlotInv(t)' /\ SleepInv(t)' /\ BypassInv(t)'
  <2>1. SlotInv(t) /\ SleepInv(t) /\ BypassInv(t)
    BY DEF IInv
  <2>2. SlotInv(t)'
    BY <1>1, <2>1 DEF TypeOK, IdleInv, SlotInv, ThreadLabels
  <2>3. SleepInv(t)'
    <3>1. /\ irr \in {0, 1} /\ intr \in {0, 1}
          /\ since[t] \in Nat /\ sleeprem[t] \in Int /\ arg[t] \in Int
      BY <1>1 DEF TypeOK, Bit
    <3>2. irr' = irr - 1 /\ intr' = intr + 1
      BY <3>1, SMTT(60)
    <3>3. /\ state' = state /\ sleeprem' = sleeprem /\ arg' = arg
          /\ since' = since
      OBVIOUS
    <3> HIDE SlotFacts DEF TimerEntry
    <3>4. since[t] + sleeprem[t] >= arg[t] - 1 + irr + intr =>
            since[t] + sleeprem[t] >= arg[t] - 1 + irr' + intr'
      BY <3>1, <3>2
    <3>5. QED
      BY <2>1, <3>3, <3>4 DEF SleepInv
  <2>4. BypassInv(t)'
    BY <1>1, <2>1 DEF TypeOK, IdleInv, BypassInv
  <2>5. QED
    BY <2>2, <2>3, <2>4
<1>6. QED
  BY <1>2, <1>3, <1>4, <1>5 DEF IInv

\* The timer handler wakes the sleepers whose last tick this is.
LEMMA TimerTickIInv ==
  ASSUME IInv, TimerTick
  PROVE  IInv'
<1> USE SlotFacts DEF TimerTick, HandleTick, Waking, Running, At, Goto,
        procvars, cpuvars, apicvars, history
<1>1. /\ TypeOK /\ FlagInv /\ IdleInv
      /\ halt # "assert"
  BY DEF IInv
<1>2. TypeOK'
  BY <1>1, ProcAssumption, SMTT(60) DEF TypeOK, Bit, States
<1>3. halt' # "assert" /\ FlagInv'
  BY <1>1 DEF TypeOK, FlagInv, Open, IdleInv
<1>4. IdleInv'
  BY <1>1 DEF TypeOK, IdleInv, IdleLabels
<1>5. ASSUME NEW t \in Threads
      PROVE  SlotInv(t)' /\ SleepInv(t)' /\ BypassInv(t)'
  <2>1. SlotInv(t) /\ SleepInv(t) /\ BypassInv(t)
    BY DEF IInv
  <2>2. SlotInv(t)'
    BY <1>1, <2>1 DEF TypeOK, IdleInv, SlotInv, ThreadLabels
  <2>3. SleepInv(t)'
    BY <1>1, <2>1, SMTT(60) DEF TypeOK, SlotInv, SleepInv
  <2>4. BypassInv(t)'
    BY <1>1, <2>1, SMTT(60) DEF TypeOK, IdleInv, BypassInv
  <2>5. QED
    BY <2>2, <2>3, <2>4
<1>6. QED
  BY <1>2, <1>3, <1>4, <1>5 DEF IInv
=============================================================================
