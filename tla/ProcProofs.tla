----------------------------- MODULE ProcProofs -----------------------------
(***************************************************************************)
(* Theorems about Proc for any table size, any arguments and any bounds,   *)
(* from the inductive invariant IInv of ProcInv.                           *)
(***************************************************************************)
EXTENDS ProcThreadProofs

\* Any step of the kernel, the threads or the timer preserves IInv.
LEMMA NextIInv == IInv /\ [Next]_vars => IInv'
<1> SUFFICES ASSUME IInv, [Next]_vars PROVE IInv'
  OBVIOUS
<1>1. CASE IdleStep
  BY <1>1, procinitIInv, IdleStiIInv, find_runnable_procIInv, IdleClaimIInv,
     IdleSwitchIInv, IdleReturnIInv DEF IdleStep
<1>2. ASSUME NEW p \in Procs, ThreadStep(p) PROVE IInv'
  BY <1>2, SpawnDoneIInv, YieldMarkIInv, SleepMarkIInv, ExitMarkIInv,
     schedIInv, SchedReturnIInv, TrapRetIInv, SyscallReturnIInv
  DEF ThreadStep
<1>3. CASE UNCHANGED vars
  <2> USE <1>3 DEF vars, procvars, cpuvars, apicvars, history
  <2>1. TypeOK' <=> TypeOK
    BY DEF TypeOK
  <2>2. (FlagInv' <=> FlagInv) /\ (IdleInv' <=> IdleInv)
    BY DEF FlagInv, Open, IdleInv
  <2>3. ASSUME NEW t
        PROVE  /\ SlotInv(t)' <=> SlotInv(t)
               /\ SleepInv(t)' <=> SleepInv(t)
               /\ BypassInv(t)' <=> BypassInv(t)
    BY DEF SlotInv, SleepInv, BypassInv
  <2>4. QED
    BY <2>1, <2>2, <2>3 DEF IInv
<1>4. ASSUME NEW p \in Procs, GiveUp(p) PROVE IInv'
  <2>1. RETURNED \in Int /\ 0 \in Int /\ "badarg" \in Halts \ {"assert"}
    BY DEF RETURNED, Halts
  <2>2. CASE yield(p)
    BY <2>1, <2>2, SlotFacts, CliCallIInv DEF yield, At
  <2>3. ASSUME NEW n \in SleepArgs, sleep(p, n) PROVE IInv'
    <3>1. n \in Int
      BY ProcAssumption
    <3>2. CASE n < 0 /\ Stop("badarg")
      BY <2>1, <3>2, StopIInv
    <3>3. CASE n = 0 /\ UNCHANGED vars
      BY <3>3, <1>3
    <3>4. CASE n > 0 /\ CliCall(p, "sleep", n)
      BY <2>3, <3>1, <3>4, SlotFacts, CliCallIInv DEF sleep, At
    <3>5. QED
      BY <2>3, <3>2, <3>3, <3>4 DEF sleep
  <2>4. CASE exit(p)
    BY <2>1, <2>4, SlotFacts, CliCallIInv DEF exit, At
  <2>5. QED
    BY <1>4, <2>2, <2>3, <2>4 DEF GiveUp
<1>5. ASSUME NEW p \in Procs, Spawning(p) PROVE IInv'
  <2>1. {"badarg", "overrun"} \subseteq Halts \ {"assert"}
    BY DEF Halts
  <2>2. QED
    BY <1>5, <2>1, spawnIInv, StopIInv DEF Spawning, SpawnBadPrio, SpawnOverrun
<1>6. ASSUME NEW p \in Procs, Syscall(p) PROVE IInv'
  BY <1>6, SyscallIInv
<1>7. ASSUME NEW p \in Procs, UserTrap(p) PROVE IInv'
  <2>1. p \in Threads
    BY <1>7, SlotFacts DEF UserTrap, At, Running, IInv, IdleInv, IdleLabels
  <2>2. KILLED \in Int
    BY DEF KILLED
  <2>3. QED
    BY <1>7, <2>1, <2>2, CliCallIInv DEF UserTrap, At
<1>8. CASE KernelTrap
  <2>1. "trap" \in Halts \ {"assert"}
    BY DEF Halts
  <2>2. QED
    BY <1>8, <2>1, StopIInv DEF KernelTrap
<1>9. CASE LapicFire \/ TimerEntry \/ TimerTick
  BY <1>9, LapicFireIInv, TimerEntryIInv, TimerTickIInv
<1>10. QED
  BY <1>1, <1>2, <1>3, <1>4, <1>5, <1>6, <1>7, <1>8, <1>9 DEF Next

\* In every reachable state of the kernel each context's place in the code
\* agrees with the process table, the interrupt flag and the registers.
THEOREM Inductive == Spec => []IInv
<1>1. QED
  BY InitIInv, NextIInv, PTL DEF Spec

\* The fields of struct proc, the globals, the registers and the local APIC
\* flags keep their types; in particular nproc never exceeds MAX_PROC and the
\* round-robin index stays inside the table.
THEOREM TypeCorrect == Spec => []TypeOK
<1>1. IInv => TypeOK
  BY DEF IInv
<1>2. QED
  BY <1>1, Inductive, PTL

\* No ASSERT or panic of the scheduler ever fires.
THEOREM AssertsHold == Spec => []NoAssertFails
<1>1. IInv => NoAssertFails
  BY DEF IInv, NoAssertFails
<1>2. QED
  BY <1>1, Inductive, PTL

\* One thread at a time is RUNNING, it is curproc, and a curproc on its way
\* into sched cannot be interrupted.
THEOREM OneRunner == Spec => []LoneRunner
<1>1. IInv => LoneRunner
  <2> SUFFICES ASSUME IInv PROVE LoneRunner
    OBVIOUS
  <2>1. TypeOK /\ FlagInv /\ IdleInv
    BY DEF IInv
  <2>2. ASSUME NEW t \in Threads, state[t] = "RUNNING"
        PROVE  curproc = t
    <3>1. SlotInv(t)
      BY DEF IInv
    <3>2. QED
      BY <2>1, <2>2, <3>1, SlotFacts DEF IdleInv, SlotInv
  <2>3. ASSUME curproc # NULL, state[curproc] # "RUNNING"
        PROVE  fl_if = 0 /\ intr = 0
    <3>1. curproc \in Threads /\ cpu = curproc
      BY <2>1, <2>3, SlotFacts DEF TypeOK, IdleInv
    <3>2. SlotInv(curproc)
      BY <3>1 DEF IInv
    <3>3. QED
      BY <2>1, <2>3, <3>1, <3>2, SlotFacts
      DEF TypeOK, Bit, SlotInv, FlagInv, Open
  <2>4. QED
    BY <2>2, <2>3 DEF LoneRunner
<1>2. QED
  BY <1>1, Inductive, PTL

\* Thread code executes with its own page table and its own, unshared kernel
\* stack.
THEOREM OwnContext == Spec => []ContextLoaded
<1>1. IInv => ContextLoaded
  <2> SUFFICES ASSUME IInv, cpu # IDLE PROVE ContextLoaded
    BY DEF ContextLoaded
  <2>1. TypeOK /\ IdleInv /\ cpu \in Threads
    BY SlotFacts DEF IInv, TypeOK
  <2>2. SlotInv(cpu)
    BY <2>1 DEF IInv
  <2>3. tss = cpu /\ cpu \in Procs
    <3>1. cpu \in Nat /\ nproc \in Nat /\ state[cpu] # "UNINIT"
      <4>1. cpu \in Nat /\ nproc \in Nat
        BY <2>1, SlotFacts, CountIsNat
      <4>2. state[cpu] # "UNINIT"
        BY <2>2 DEF SlotInv
      <4>3. QED
        BY <4>1, <4>2
    <3>2. QED
      BY <2>1, <2>2, <3>1, SlotFacts DEF SlotInv
  <2>4. ASSUME NEW t \in Threads \ {cpu} PROVE kstack[t] # tss
    <3>1. SlotInv(t)
      BY DEF IInv
    <3>2. QED
      BY <2>3, <3>1, SlotFacts DEF SlotInv
  <2>5. QED
    BY <2>1, <2>2, <2>3, <2>4, SlotFacts DEF ContextLoaded, IdleInv, SlotInv
<1>2. QED
  BY <1>1, Inductive, PTL

\* Thread code runs with interrupts on.
THEOREM InterruptsOn == Spec => []ThreadsInterruptible
<1>1. IInv => ThreadsInterruptible
  BY DEF IInv, FlagInv, Open, ThreadsInterruptible
<1>2. QED
  BY <1>1, Inductive, PTL

\* A thread that the scheduler may pick has a context to continue from.
THEOREM ContextReady == Spec => []ReadyHasContext
<1>1. IInv => ReadyHasContext
  <2> SUFFICES ASSUME IInv, NEW t \in Threads,
                      state[t] \in {"RUNNABLE", "SLEEPING"}, cpu # t
               PROVE  /\ t < nproc
                      /\ pc[t] \in {"run", "trapret", "swtched"}
                      /\ retval[t] = NULL
    BY DEF ReadyHasContext
  <2>1. SlotInv(t) /\ nproc \in Nat /\ t \in Nat
    BY SlotFacts, CountIsNat DEF IInv
  <2>2. QED
    BY <2>1 DEF SlotInv
<1>2. QED
  BY <1>1, Inductive, PTL

\* A RUNNABLE thread is passed over at most MAX_PROC - 2 times.
THEOREM RoundRobin == Spec => []BoundedBypass
<1>1. IInv => BoundedBypass
  <2> SUFFICES ASSUME IInv, NEW t \in Threads, state[t] = "RUNNABLE"
               PROVE  bypass[t] <= MAX_PROC - 2
    BY DEF BoundedBypass
  <2>1. BypassInv(t)
    BY DEF IInv
  <2>2. t \in Procs /\ t # IDLE
    BY SlotFacts
  <2>3. t \in Nat /\ t >= 1 /\ t < MAX_PROC /\ MAX_PROC \in Nat
    BY <2>2, SlotFacts DEF IDLE
  <2>4. rr \in Procs /\ bypass[t] \in Nat
    BY <2>2 DEF IInv, TypeOK
  <2>5. rr \in Nat /\ rr < MAX_PROC
    BY <2>4, SlotFacts
  <2>6. QED
    BY <2>1, <2>3, <2>4, <2>5 DEF BypassInv
<1>2. QED
  BY <1>1, Inductive, PTL

\* A thread that sleeps or has exited is left alone by every step, except that
\* the timer handler wakes a sleeper; and it does not get the processor.
LEMMA Undisturbed ==
  ASSUME IInv, [Next]_vars, NEW t \in Threads,
         state[t] \in {"SLEEPING", "EXITED"}
  PROVE  /\ \/ state'[t] = state[t]
            \/ TimerTick /\ Waking(t)
         /\ state[t] = "EXITED" => retval'[t] = retval[t]
         /\ cpu # t => cpu' # t
<1> USE SlotFacts
    DEF Running, At, Goto, procvars, cpuvars, apicvars, history, vars
<1>1. /\ TypeOK /\ IdleInv /\ SlotInv(t)
  BY DEF IInv
<1>2. CASE UNCHANGED vars
  BY <1>2
<1>3. ASSUME NEW why, Stop(why)
      PROVE  state' = state /\ retval' = retval /\ cpu' = cpu
  BY <1>3 DEF Stop
<1>4. ASSUME NEW p, NEW l, NEW a, CliCall(p, l, a)
      PROVE  state' = state /\ retval' = retval /\ cpu' = cpu
  BY <1>3, <1>4 DEF CliCall, ASSERT
<1>5. CASE IdleStep
  <2>1. CASE procinit
    BY <1>1, <2>1 DEF procinit, TypeOK, IdleInv, SlotInv, IDLE
  <2>2. CASE IdleSti \/ find_runnable_proc \/ IdleReturn
    BY <1>3, <2>2 DEF IdleSti, find_runnable_proc, FindTurn, IdleReturn, ASSERT
  <2>3. CASE IdleClaim
    BY <1>1, <2>3 DEF IdleClaim, TypeOK, IdleInv
  <2>4. CASE IdleSwitch
    BY <1>1, <1>3, <2>4
    DEF IdleSwitch, swtch, set_task_kstack, ASSERT, TypeOK, IdleInv
  <2>5. QED
    BY <1>5, <2>1, <2>2, <2>3, <2>4 DEF IdleStep
<1>6. ASSUME NEW p \in Procs, ThreadStep(p)
      PROVE  /\ state'[t] = state[t]
             /\ state[t] = "EXITED" => retval'[t] = retval[t]
             /\ cpu # t => cpu' # t
  <2>1. p \in Threads => SlotInv(p)
    BY DEF IInv
  <2>2. CASE SpawnDone(p)
    BY <1>1, <2>2 DEF SpawnDone, TypeOK, IdleInv
  <2>3. CASE YieldMark(p) \/ SleepMark(p) \/ ExitMark(p)
    <3>1. p \in Threads /\ curproc = p /\ state[p] = "RUNNING"
      BY <1>1, <2>1, <2>3
      DEF YieldMark, SleepMark, ExitMark, IdleInv, IdleLabels, SlotInv
    <3>2. QED
      BY <1>1, <2>3, <3>1 DEF YieldMark, SleepMark, ExitMark, TypeOK
  <2>4. CASE sched(p)
    BY <1>3, <2>4 DEF sched, swtch, ASSERT
  <2>5. CASE SchedReturn(p) \/ TrapRet(p) \/ SyscallReturn(p)
    BY <1>3, <2>5 DEF SchedReturn, TrapRet, SyscallReturn, ASSERT
  <2>6. QED
    BY <1>6, <2>2, <2>3, <2>4, <2>5 DEF ThreadStep
<1>7. ASSUME NEW p \in Procs, GiveUp(p) \/ UserTrap(p) \/ Syscall(p)
      PROVE  state' = state /\ retval' = retval /\ cpu' = cpu
  BY <1>3, <1>4, <1>7 DEF GiveUp, yield, sleep, exit, UserTrap, Syscall
<1>8. ASSUME NEW p \in Procs, Spawning(p)
      PROVE  state'[t] = state[t] /\ retval' = retval /\ cpu' = cpu
  <2>1. nproc # t
    <3>1. t \in Nat /\ nproc \in Nat /\ state[t] # "UNINIT"
      BY <1>1, SlotFacts, CountIsNat
    <3>2. QED
      BY <1>1, <3>1, SMTT(60) DEF SlotInv
  <2>2. QED
    BY <1>1, <1>3, <1>8, <2>1
    DEF Spawning, spawn, TakeSlot, SpawnBadPrio, SpawnOverrun, TypeOK
<1>9. CASE KernelTrap \/ LapicFire \/ TimerEntry
  BY <1>3, <1>9 DEF KernelTrap, LapicFire, TimerEntry
<1>10. CASE TimerTick
  BY <1>1, <1>10 DEF TimerTick, HandleTick, TypeOK
<1>11. QED
  BY <1>2, <1>5, <1>6, <1>7, <1>8, <1>9, <1>10 DEF Next

\* sleep(n) lasts at least n - 1 timer periods.
THEOREM SleepsLongEnough == Spec => NoEarlyWake
<1>1. ASSUME IInv, [Next]_vars, NEW t \in Threads,
             state[t] = "SLEEPING", state'[t] # "SLEEPING"
      PROVE  since[t] >= arg[t] - 1
  <2>1. TimerTick /\ Waking(t)
    BY <1>1, Undisturbed
  <2>2. /\ sleeprem[t] = 1 /\ intr = 1 /\ irr \in {0, 1}
        /\ since[t] \in Nat /\ arg[t] \in Int /\ SleepInv(t)
    BY <1>1, <2>1, SlotFacts
    DEF IInv, TypeOK, Bit, TimerTick, HandleTick, Waking
  <2>3. QED
    BY <1>1, <2>2 DEF SleepInv
<1>2. IInv /\ [Next]_vars =>
        [\A t \in Threads :
           state[t] = "SLEEPING" /\ state'[t] # "SLEEPING" =>
             since[t] >= arg[t] - 1]_vars
  BY <1>1
<1>3. QED
  BY <1>2, Inductive, PTL DEF Spec, NoEarlyWake

\* An exited thread never runs again and its return value stays.
THEOREM ExitsForGood == Spec => ExitIsFinal
<1>1. ASSUME IInv, [Next]_vars, NEW t \in Threads,
             state[t] = "EXITED", cpu # t
      PROVE  cpu' # t /\ state'[t] = "EXITED" /\ retval'[t] = retval[t]
  BY <1>1, Undisturbed DEF Waking
<1>2. IInv /\ [Next]_vars =>
        [\A t \in Threads :
           state[t] = "EXITED" /\ cpu # t =>
             cpu' # t /\ state'[t] = "EXITED" /\ retval'[t] = retval[t]]_vars
  BY <1>1
<1>3. QED
  BY <1>2, Inductive, PTL DEF Spec, ExitIsFinal
=============================================================================
