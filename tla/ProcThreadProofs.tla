-------------------------- MODULE ProcThreadProofs --------------------------
(***************************************************************************)
(* The steps of the threads preserve IInv: spawn, yield, sleep, exit, the  *)
(* way through sched and back, system calls and the returns to user mode.  *)
(***************************************************************************)
EXTENDS ProcInv

\* spawn and allocproc take a slot nobody uses.
LEMMA spawnIInv ==
  ASSUME IInv, NEW p \in Procs, NEW pr \in Prios,
         NEW root \in {"kpml4", "upml4"}, spawn(p, pr, root)
  PROVE  IInv'
<1> USE SlotFacts DEF spawn, TakeSlot, CanSpawn, Running, At, Goto,
        procvars, cpuvars, apicvars, history
<1>1. /\ TypeOK /\ FlagInv /\ IdleInv
      /\ p \in Threads => SlotInv(p)
      /\ halt # "assert"
  BY DEF IInv
<1>2. \/ p = IDLE /\ pc[p] = "spawn"
      \/ p \in Threads /\ pc[p] = "run"
  BY <1>1 DEF IdleInv, IdleLabels, SlotInv, ThreadLabels
<1>3. nproc \in Nat /\ nproc >= 1 /\ nproc < MAX_PROC
  BY <1>1, <1>2 DEF TypeOK, IdleInv
<1>4. nproc \in Threads
  BY <1>3 DEF Threads, Procs, IDLE
<1>5. nproc # p
  BY <1>1, <1>4, <1>2, <1>3 DEF SlotInv
<1>6. pr \in Int
  BY ProcAssumption
<1>7. TypeOK'
  BY <1>1, <1>4, <1>3, <1>6 DEF TypeOK, Labels, States, PageTables
<1>8. halt' # "assert" /\ FlagInv'
  BY <1>1, <1>4, <1>2 DEF TypeOK, FlagInv, Open, IdleInv
<1>9. IdleInv'
  BY <1>1, <1>4, <1>2, <1>3, <1>5 DEF TypeOK, IdleInv, IdleLabels
<1>10. ASSUME NEW t \in Threads
      PROVE  SlotInv(t)' /\ SleepInv(t)' /\ BypassInv(t)'
  <2>1. SlotInv(t) /\ SleepInv(t) /\ BypassInv(t)
    BY DEF IInv
  <2>2. SlotInv(t)'
    BY <1>1, <1>4, <2>1, SMTT(60) DEF TypeOK, IdleInv, SlotInv, ThreadLabels
  <2>3. SleepInv(t)'
    BY <1>1, <1>4, <2>1 DEF TypeOK, SlotInv, SleepInv
  <2>4. BypassInv(t)'
    BY <1>1, <1>4, <2>1 DEF TypeOK, IdleInv, BypassInv
  <2>5. QED
    BY <2>2, <2>3, <2>4
<1>11. QED
  BY <1>7, <1>8, <1>9, <1>10 DEF IInv

\* The end of spawn: the new thread gets its context, then it is RUNNABLE.
LEMMA SpawnDoneIInv ==
  ASSUME IInv, NEW p \in Procs, SpawnDone(p)
  PROVE  IInv'
<1> USE SlotFacts DEF SpawnDone, Running, At, Goto, procvars, cpuvars,
        apicvars, history
<1>1. /\ TypeOK /\ FlagInv /\ IdleInv
      /\ p \in Threads => SlotInv(p)
      /\ arg[p] \in Threads => SlotInv(arg[p])
      /\ halt # "assert"
  BY DEF IInv
<1>2. arg[p] \in Threads \ {p}
  BY <1>1 DEF TypeOK, IdleInv
<1>3. TypeOK'
  BY <1>1, <1>2 DEF TypeOK, Labels, States
<1>4. halt' # "assert" /\ FlagInv'
  BY <1>1, <1>2 DEF TypeOK, FlagInv, Open, IdleInv
<1>5. IdleInv'
  BY <1>1, <1>2 DEF TypeOK, IdleInv, IdleLabels
<1>6. ASSUME NEW t \in Threads
      PROVE  SlotInv(t)' /\ SleepInv(t)' /\ BypassInv(t)'
  <2>1. SlotInv(t) /\ SleepInv(t) /\ BypassInv(t)
    BY DEF IInv
  <2>2. SlotInv(t)'
    BY <1>1, <1>2, <2>1 DEF TypeOK, IdleInv, SlotInv, ThreadLabels
  <2>3. SleepInv(t)'
    BY <1>1, <1>2, <2>1 DEF TypeOK, SlotInv, SleepInv
  <2>4. BypassInv(t)'
    BY <1>1, <1>2, <2>1, SMTT(60) DEF TypeOK, IdleInv, BypassInv
  <2>5. QED
    BY <2>2, <2>3, <2>4
<1>7. QED
  BY <1>3, <1>4, <1>5, <1>6 DEF IInv

\* yield makes curproc RUNNABLE with interrupts off.
LEMMA YieldMarkIInv ==
  ASSUME IInv, NEW p \in Procs, YieldMark(p)
  PROVE  IInv'
<1> USE SlotFacts DEF YieldMark, Running, At, Goto, procvars, cpuvars,
        apicvars, history
<1>1. /\ TypeOK /\ FlagInv /\ IdleInv
      /\ p \in Threads => SlotInv(p)
      /\ halt # "assert"
  BY DEF IInv
<1>2. p \in Threads /\ curproc = p
  BY <1>1 DEF TypeOK, IdleInv, IdleLabels
<1>3. TypeOK'
  BY <1>1, <1>2 DEF TypeOK, Labels, States
<1>4. halt' # "assert" /\ FlagInv'
  BY <1>1, <1>2 DEF TypeOK, FlagInv, Open, IdleInv
<1>5. IdleInv'
  BY <1>1, <1>2 DEF TypeOK, IdleInv, IdleLabels
<1>6. ASSUME NEW t \in Threads
      PROVE  SlotInv(t)' /\ SleepInv(t)' /\ BypassInv(t)'
  <2>1. SlotInv(t) /\ SleepInv(t) /\ BypassInv(t)
    BY DEF IInv
  <2>2. SlotInv(t)'
    BY <1>1, <1>2, <2>1 DEF TypeOK, IdleInv, SlotInv, ThreadLabels
  <2>3. SleepInv(t)'
    BY <1>1, <1>2, <2>1 DEF TypeOK, SlotInv, SleepInv
  <2>4. BypassInv(t)'
    BY <1>1, <1>2, <2>1 DEF TypeOK, IdleInv, BypassInv
  <2>5. QED
    BY <2>2, <2>3, <2>4
<1>7. QED
  BY <1>3, <1>4, <1>5, <1>6 DEF IInv

\* sleep makes curproc SLEEPING with interrupts off.
LEMMA SleepMarkIInv ==
  ASSUME IInv, NEW p \in Procs, SleepMark(p)
  PROVE  IInv'
<1> USE SlotFacts DEF SleepMark, Running, At, Goto, procvars, cpuvars,
        apicvars, history
<1>1. /\ TypeOK /\ FlagInv /\ IdleInv
      /\ p \in Threads => SlotInv(p)
      /\ halt # "assert"
  BY DEF IInv
<1>2. p \in Threads /\ curproc = p
  BY <1>1 DEF TypeOK, IdleInv, IdleLabels
<1>3. TypeOK'
  BY <1>1, <1>2 DEF TypeOK, Labels, States
<1>4. halt' # "assert" /\ FlagInv'
  BY <1>1, <1>2 DEF TypeOK, FlagInv, Open, IdleInv
<1>5. IdleInv'
  BY <1>1, <1>2 DEF TypeOK, IdleInv, IdleLabels
<1>6. ASSUME NEW t \in Threads
      PROVE  SlotInv(t)' /\ SleepInv(t)' /\ BypassInv(t)'
  <2>1. SlotInv(t) /\ SleepInv(t) /\ BypassInv(t)
    BY DEF IInv
  <2>2. SlotInv(t)'
    BY <1>1, <1>2, <2>1 DEF TypeOK, IdleInv, SlotInv, ThreadLabels
  <2>3. SleepInv(t)'
    BY <1>1, <1>2, <2>1, SMTT(60) DEF TypeOK, Bit, SlotInv, SleepInv
  <2>4. BypassInv(t)'
    BY <1>1, <1>2, <2>1 DEF TypeOK, IdleInv, BypassInv
  <2>5. QED
    BY <2>2, <2>3, <2>4
<1>7. QED
  BY <1>3, <1>4, <1>5, <1>6 DEF IInv

\* exit makes curproc EXITED with interrupts off.
LEMMA ExitMarkIInv ==
  ASSUME IInv, NEW p \in Procs, ExitMark(p)
  PROVE  IInv'
<1> USE SlotFacts DEF ExitMark, Running, At, Goto, procvars, cpuvars,
        apicvars, history
<1>1. /\ TypeOK /\ FlagInv /\ IdleInv
      /\ p \in Threads => SlotInv(p)
      /\ halt # "assert"
  BY DEF IInv
<1>2. p \in Threads /\ curproc = p
  BY <1>1 DEF TypeOK, IdleInv, IdleLabels
<1>3. TypeOK'
  BY <1>1, <1>2 DEF TypeOK, Labels, States, SlotInv, RETURNED, KILLED
<1>4. halt' # "assert" /\ FlagInv'
  BY <1>1, <1>2 DEF TypeOK, FlagInv, Open, IdleInv
<1>5. IdleInv'
  BY <1>1, <1>2 DEF TypeOK, IdleInv, IdleLabels
<1>6. ASSUME NEW t \in Threads
      PROVE  SlotInv(t)' /\ SleepInv(t)' /\ BypassInv(t)'
  <2>1. SlotInv(t) /\ SleepInv(t) /\ BypassInv(t)
    BY DEF IInv
  <2>2. SlotInv(t)'
    BY <1>1, <1>2, <2>1 DEF TypeOK, IdleInv, SlotInv, ThreadLabels
  <2>3. SleepInv(t)'
    BY <1>1, <1>2, <2>1 DEF TypeOK, SlotInv, SleepInv
  <2>4. BypassInv(t)'
    BY <1>1, <1>2, <2>1 DEF TypeOK, IdleInv, BypassInv
  <2>5. QED
    BY <2>2, <2>3, <2>4
<1>7. QED
  BY <1>3, <1>4, <1>5, <1>6 DEF IInv

\* sched saves the context of curproc and continues idlemain.
LEMMA schedIInv ==
  ASSUME IInv, NEW p \in Procs, sched(p)
  PROVE  IInv'
<1> USE SlotFacts DEF sched, swtch, ASSERT, Running, At, Goto, procvars,
        cpuvars, apicvars, history
<1>1. /\ TypeOK /\ FlagInv /\ IdleInv
      /\ p \in Threads => SlotInv(p)
      /\ halt # "assert"
  BY DEF IInv
<1>2. p \in Threads /\ curproc = p /\ state[p] # "RUNNING" /\ fl_if = 0
  BY <1>1 DEF TypeOK, IdleInv, IdleLabels, FlagInv, Open, SlotInv, Bit
<1>3. TypeOK'
  BY <1>1, <1>2, SMTT(60) DEF TypeOK, Labels
<1>4. halt' # "assert" /\ FlagInv'
  BY <1>1, <1>2, SMTT(60) DEF TypeOK, FlagInv, Open, IdleInv
<1>5. IdleInv'
  BY <1>1, <1>2, SMTT(60) DEF TypeOK, IdleInv, IdleLabels
<1>6. ASSUME NEW t \in Threads
      PROVE  SlotInv(t)' /\ SleepInv(t)' /\ BypassInv(t)'
  <2>1. SlotInv(t) /\ SleepInv(t) /\ BypassInv(t)
    BY DEF IInv
  <2>2. SlotInv(t)'
    BY <1>1, <1>2, <2>1 DEF TypeOK, IdleInv, SlotInv, ThreadLabels
  <2>3. SleepInv(t)'
    BY <1>1, <1>2, <2>1 DEF TypeOK, SlotInv, SleepInv
  <2>4. BypassInv(t)'
    BY <1>1, <1>2, <2>1 DEF TypeOK, IdleInv, BypassInv
  <2>5. QED
    BY <2>2, <2>3, <2>4
<1>7. QED
  BY <1>3, <1>4, <1>5, <1>6 DEF IInv

\* yield and sleep return after swtch; a thread that exited is not there.
LEMMA SchedReturnIInv ==
  ASSUME IInv, NEW p \in Procs, SchedReturn(p)
  PROVE  IInv'
<1> USE SlotFacts DEF SchedReturn, ASSERT, Running, At, Goto, procvars,
        cpuvars, apicvars, history
<1>1. /\ TypeOK /\ FlagInv /\ IdleInv
      /\ p \in Threads => SlotInv(p)
      /\ halt # "assert"
  BY DEF IInv
<1>2. p \in Threads /\ curproc = p /\ retval[p] = NULL
  BY <1>1 DEF TypeOK, IdleInv, SlotInv
<1>3. TypeOK'
  BY <1>1, <1>2, SMTT(60) DEF TypeOK, Labels
<1>4. halt' # "assert" /\ FlagInv'
  BY <1>1, <1>2, SMTT(60) DEF TypeOK, FlagInv, Open, IdleInv
<1>5. IdleInv'
  BY <1>1, <1>2 DEF TypeOK, IdleInv, IdleLabels
<1>6. ASSUME NEW t \in Threads
      PROVE  SlotInv(t)' /\ SleepInv(t)' /\ BypassInv(t)'
  <2>1. SlotInv(t) /\ SleepInv(t) /\ BypassInv(t)
    BY DEF IInv
  <2>2. SlotInv(t)'
    BY <1>1, <1>2, <2>1, SMTT(60) DEF TypeOK, IdleInv, SlotInv, ThreadLabels
  <2>3. SleepInv(t)'
    BY <1>1, <1>2, <2>1 DEF TypeOK, SlotInv, SleepInv
  <2>4. BypassInv(t)'
    BY <1>1, <1>2, <2>1 DEF TypeOK, IdleInv, BypassInv
  <2>5. QED
    BY <2>2, <2>3, <2>4
<1>7. QED
  BY <1>3, <1>4, <1>5, <1>6 DEF IInv

\* A new user thread enters user mode.
LEMMA TrapRetIInv ==
  ASSUME IInv, NEW p \in Procs, TrapRet(p)
  PROVE  IInv'
<1> USE SlotFacts DEF TrapRet, Running, At, Goto, procvars, cpuvars,
        apicvars, history
<1>1. /\ TypeOK /\ FlagInv /\ IdleInv
      /\ p \in Threads => SlotInv(p)
      /\ halt # "assert"
  BY DEF IInv
<1>2. p \in Threads
  BY <1>1 DEF TypeOK, IdleInv, IdleLabels
<1>3. TypeOK'
  BY <1>1, <1>2 DEF TypeOK, Bit, Labels
<1>4. halt' # "assert" /\ FlagInv'
  BY <1>1, <1>2 DEF TypeOK, FlagInv, Open, IdleInv
<1>5. IdleInv'
  BY <1>1, <1>2 DEF TypeOK, IdleInv, IdleLabels
<1>6. ASSUME NEW t \in Threads
      PROVE  SlotInv(t)' /\ SleepInv(t)' /\ BypassInv(t)'
  <2>1. SlotInv(t) /\ SleepInv(t) /\ BypassInv(t)
    BY DEF IInv
  <2>2. SlotInv(t)'
    BY <1>1, <1>2, <2>1 DEF TypeOK, IdleInv, SlotInv, ThreadLabels
  <2>3. SleepInv(t)'
    BY <1>1, <1>2, <2>1 DEF TypeOK, SlotInv, SleepInv
  <2>4. BypassInv(t)'
    BY <1>1, <1>2, <2>1 DEF TypeOK, IdleInv, BypassInv
  <2>5. QED
    BY <2>2, <2>3, <2>4
<1>7. QED
  BY <1>3, <1>4, <1>5, <1>6 DEF IInv

\* A system call enters the kernel with interrupts on.
LEMMA SyscallIInv ==
  ASSUME IInv, NEW p \in Procs, Syscall(p)
  PROVE  IInv'
<1> USE SlotFacts DEF Syscall, Running, At, Goto, procvars, cpuvars,
        apicvars, history
<1>1. /\ TypeOK /\ FlagInv /\ IdleInv
      /\ p \in Threads => SlotInv(p)
      /\ halt # "assert"
  BY DEF IInv
<1>2. p \in Threads
  BY <1>1 DEF TypeOK, IdleInv, IdleLabels
<1>3. TypeOK'
  BY <1>1, <1>2 DEF TypeOK, Labels
<1>4. halt' # "assert" /\ FlagInv'
  BY <1>1, <1>2 DEF TypeOK, FlagInv, Open, IdleInv
<1>5. IdleInv'
  BY <1>1, <1>2 DEF TypeOK, IdleInv, IdleLabels
<1>6. ASSUME NEW t \in Threads
      PROVE  SlotInv(t)' /\ SleepInv(t)' /\ BypassInv(t)'
  <2>1. SlotInv(t) /\ SleepInv(t) /\ BypassInv(t)
    BY DEF IInv
  <2>2. SlotInv(t)'
    BY <1>1, <1>2, <2>1 DEF TypeOK, IdleInv, SlotInv, ThreadLabels
  <2>3. SleepInv(t)'
    BY <1>1, <1>2, <2>1 DEF TypeOK, SlotInv, SleepInv
  <2>4. BypassInv(t)'
    BY <1>1, <1>2, <2>1 DEF TypeOK, IdleInv, BypassInv
  <2>5. QED
    BY <2>2, <2>3, <2>4
<1>7. QED
  BY <1>3, <1>4, <1>5, <1>6 DEF IInv

\* A system call returns.
LEMMA SyscallReturnIInv ==
  ASSUME IInv, NEW p \in Procs, SyscallReturn(p)
  PROVE  IInv'
<1> USE SlotFacts DEF SyscallReturn, Running, At, Goto, procvars, cpuvars,
        apicvars, history
<1>1. /\ TypeOK /\ FlagInv /\ IdleInv
      /\ p \in Threads => SlotInv(p)
      /\ halt # "assert"
  BY DEF IInv
<1>2. p \in Threads
  BY <1>1 DEF TypeOK, IdleInv, IdleLabels
<1>3. TypeOK'
  BY <1>1, <1>2 DEF TypeOK, Labels
<1>4. halt' # "assert" /\ FlagInv'
  BY <1>1, <1>2 DEF TypeOK, FlagInv, Open, IdleInv
<1>5. IdleInv'
  BY <1>1, <1>2 DEF TypeOK, IdleInv, IdleLabels
<1>6. ASSUME NEW t \in Threads
      PROVE  SlotInv(t)' /\ SleepInv(t)' /\ BypassInv(t)'
  <2>1. SlotInv(t) /\ SleepInv(t) /\ BypassInv(t)
    BY DEF IInv
  <2>2. SlotInv(t)'
    BY <1>1, <1>2, <2>1 DEF TypeOK, IdleInv, SlotInv, ThreadLabels
  <2>3. SleepInv(t)'
    BY <1>1, <1>2, <2>1 DEF TypeOK, SlotInv, SleepInv
  <2>4. BypassInv(t)'
    BY <1>1, <1>2, <2>1 DEF TypeOK, IdleInv, BypassInv
  <2>5. QED
    BY <2>2, <2>3, <2>4
<1>7. QED
  BY <1>3, <1>4, <1>5, <1>6 DEF IInv

\* yield, sleep, exit and a trap from user mode, up to their cli.
LEMMA CliCallIInv ==
  ASSUME IInv, NEW p \in Procs, p \in Threads,
         pc[p] \in {"run", "user", "syscall"}, Running(p), NEW l,
         NEW a \in Int,
         \/ l = "yield"
         \/ l = "sleep" /\ a > 0
         \/ l = "exit" /\ a \in {RETURNED, KILLED},
         CliCall(p, l, a)
  PROVE  IInv'
<1> USE SlotFacts DEF CliCall, ASSERT, Running, At, Goto, procvars, cpuvars,
        apicvars, history
<1>1. /\ TypeOK /\ FlagInv /\ IdleInv
      /\ p \in Threads => SlotInv(p)
      /\ halt # "assert"
  BY DEF IInv
<1>2. curproc = p /\ state[curproc] = "RUNNING"
  BY <1>1 DEF TypeOK, IdleInv, SlotInv
<1>3. TypeOK'
  BY <1>1, <1>2, SMTT(60) DEF TypeOK, Labels
<1>4. halt' # "assert" /\ FlagInv'
  BY <1>1, <1>2, SMTT(60) DEF TypeOK, FlagInv, Open, IdleInv
<1>5. IdleInv'
  BY <1>1, <1>2, SMTT(60) DEF TypeOK, IdleInv, IdleLabels
<1>6. ASSUME NEW t \in Threads
      PROVE  SlotInv(t)' /\ SleepInv(t)' /\ BypassInv(t)'
  <2>1. SlotInv(t) /\ SleepInv(t) /\ BypassInv(t)
    BY DEF IInv
  <2>2. SlotInv(t)'
    BY <1>1, <1>2, <2>1 DEF TypeOK, IdleInv, SlotInv, ThreadLabels
  <2>3. SleepInv(t)'
    BY <1>1, <1>2, <2>1 DEF TypeOK, SlotInv, SleepInv
  <2>4. BypassInv(t)'
    BY <1>1, <1>2, <2>1 DEF TypeOK, IdleInv, BypassInv
  <2>5. QED
    BY <2>2, <2>3, <2>4
<1>7. QED
  BY <1>3, <1>4, <1>5, <1>6 DEF IInv

\* Stopping for any reason but a failed ASSERT of the scheduler.
LEMMA StopIInv ==
  ASSUME IInv, NEW why \in Halts \ {"assert"}, Stop(why)
  PROVE  IInv'
<1> USE SlotFacts DEF Stop, Running, At, Goto, procvars, cpuvars, apicvars,
        history
<1>1. /\ TypeOK /\ FlagInv /\ IdleInv
      /\ halt # "assert"
  BY DEF IInv
<1>2. TypeOK'
  BY <1>1 DEF TypeOK, Labels
<1>3. halt' # "assert" /\ FlagInv'
  BY <1>1 DEF TypeOK, FlagInv, Open, IdleInv
<1>4. IdleInv'
  BY <1>1 DEF TypeOK, IdleInv, IdleLabels
<1>5. ASSUME NEW t \in Threads
      PROVE  SlotInv(t)' /\ SleepInv(t)' /\ BypassInv(t)'
  <2>1. SlotInv(t) /\ SleepInv(t) /\ BypassInv(t)
    BY DEF IInv
  <2>2. SlotInv(t)'
    BY <1>1, <2>1 DEF TypeOK, IdleInv, SlotInv, ThreadLabels
  <2>3. SleepInv(t)'
    BY <1>1, <2>1 DEF TypeOK, SlotInv, SleepInv
  <2>4. BypassInv(t)'
    BY <1>1, <2>1 DEF TypeOK, IdleInv, BypassInv
  <2>5. QED
    BY <2>2, <2>3, <2>4
<1>6. QED
  BY <1>2, <1>3, <1>4, <1>5 DEF IInv
=============================================================================
