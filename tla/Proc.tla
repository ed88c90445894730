-------------------------------- MODULE Proc --------------------------------
(***************************************************************************)
(* The rt64 scheduler on its one processor: the process table, spawn,      *)
(* yield, sleep, exit and the idle loop (src/kernel/proc.c), the traps     *)
(* that interrupt them (src/kernel/trap.c, trapasm.S, syscall.c) and the   *)
(* context switch between them (src/kernel/switch.S).                      *)
(*                                                                         *)
(* Actors: the idle thread (slot 0 of procs), the spawned kernel and user  *)
(* threads, and the local APIC timer.  There is one processor, so at any   *)
(* time one context executes; the timer interrupts it wherever the         *)
(* interrupt flag allows.  A step is one statement, or a run of statements *)
(* that the timer handler cannot tell apart.  pc[p] is the place where     *)
(* context p continues, and pc of a suspended context stands for its saved *)
(* struct context.                                                         *)
(***************************************************************************)
EXTENDS Integers

CONSTANTS
  MAX_PROC,          \* slots of procs[], idle's included
  MINPRIO, MAXPRIO,  \* the priorities spawn accepts
  Prios,             \* the priorities callers pass
  SleepArgs,         \* the tick counts callers pass to sleep
  MaxSpawn,          \* bound: spawn calls in a behaviour, main's included
  TickMax            \* ticks is an int that holds -TickMax-1 .. TickMax

ASSUME ProcAssumption ==
  /\ MAX_PROC \in Nat /\ MAX_PROC >= 2
  /\ MINPRIO \in Int /\ MAXPRIO \in Int
  /\ Prios \subseteq Int
  /\ SleepArgs \subseteq Int
  /\ MaxSpawn \in Nat
  /\ TickMax \in Nat

Procs == 0 .. MAX_PROC - 1

\* procinit takes the first slot: curcpu->idleproc is &procs[0].
IDLE == 0

Threads == Procs \ {IDLE}

\* A null pointer where a slot, a stack or a return value is expected.
NULL == -1

\* What exit records: a thread's own value, or 0xDEADDEADDEADDEAD.
RETURNED == 0
KILLED == 1

States == {"UNINIT", "RUNNABLE", "RUNNING", "EXITED", "SLEEPING", "RESERVE"}

\* Flags of the processor and of the local APIC.
Bit == {0, 1}

\* "kpml4" and "upml4" are the two page tables; "nopt" is a zeroed field.
PageTables == {"nopt", "kpml4", "upml4"}

Labels == {"procinit", "spawn", "spawning", "sti", "find", "claim", "switch",
           "none", "run", "yield", "sleep", "exit", "sched", "swtched",
           "trapret", "user", "syscall"}

\* Why the processor executes nothing more: a failed ASSERT or panic of the
\* scheduler, a caller's bad argument, a trap in kernel mode, a store past the
\* end of procs[].
Halts == {"no", "assert", "badarg", "trap", "overrun"}

VARIABLES
  state, pid, kstack, pt_root, prio, retval, sleeprem,  \* struct proc
  nproc, curproc, ticks,                                \* globals
  rr,            \* the static i of find_runnable_proc
  pc,            \* pc[p]: where context p continues
  arg,           \* arg[p]: the live local of the routine p is in
  cpu,           \* the context that executes
  fl_if, cr3, tss,  \* interrupt flag, page table, kernel stack of the TSS
  irr, isr,      \* local APIC: a tick is pending, a tick is in service
  intr,          \* the timer handler runs on top of context cpu
  halt,          \* why nothing executes any more
  since,         \* history: timer periods since p fell asleep, up to arg[p]
  bypass         \* history: others chosen since p became RUNNABLE

procvars == <<state, pid, kstack, pt_root, prio, retval, sleeprem, nproc>>
cpuvars  == <<curproc, cpu, fl_if, cr3, tss>>
apicvars == <<irr, isr, intr, ticks>>
history  == <<since, bypass>>
vars == <<procvars, cpuvars, apicvars, history, rr, pc, arg, halt>>

TypeOK ==
  /\ state \in [Procs -> States]
  /\ pid \in [Procs -> Nat]
  /\ kstack \in [Procs -> Procs \cup {NULL}]
  /\ pt_root \in [Procs -> PageTables]
  /\ prio \in [Procs -> Int]
  /\ retval \in [Procs -> {NULL, RETURNED, KILLED}]
  /\ sleeprem \in [Procs -> Int]
  /\ nproc \in 0 .. MAX_PROC
  /\ curproc \in Procs \cup {NULL}
  /\ ticks \in -TickMax - 1 .. TickMax
  /\ rr \in Procs
  /\ pc \in [Procs -> Labels]
  /\ arg \in [Procs -> Int]
  /\ cpu \in Procs
  /\ fl_if \in Bit
  /\ cr3 \in PageTables
  /\ tss \in Procs \cup {NULL}
  /\ irr \in Bit /\ isr \in Bit /\ intr \in Bit
  /\ halt \in Halts
  /\ since \in [Procs -> Nat]
  /\ bypass \in [Procs -> Nat]

-----------------------------------------------------------------------------
(* Control flow *)

\* Context p executes: nothing has stopped the kernel and no handler is on top.
Running(p) == halt = "no" /\ intr = 0 /\ cpu = p

At(p, l) == Running(p) /\ pc[p] = l

Goto(p, l) == pc' = [pc EXCEPT ![p] = l]

\* panic: interrupts off and an endless loop, so nothing executes any more.
Stop(why) ==
  /\ halt' = why
  /\ UNCHANGED <<procvars, cpuvars, apicvars, history, rr, pc, arg>>

ASSERT(cond, A) == IF cond THEN A ELSE Stop("assert")

-----------------------------------------------------------------------------
(* Entry of procinit: main has run kallocinit, paginginit_bsp, acpiinit,   *)
(* lapicinit and trapinit with interrupts off.  The timer is counting.     *)

Init ==
  /\ state = [p \in Procs |-> "UNINIT"]
  /\ pid = [p \in Procs |-> 0]
  /\ kstack = [p \in Procs |-> NULL]
  /\ pt_root = [p \in Procs |-> "nopt"]
  /\ prio = [p \in Procs |-> 0]
  /\ retval = [p \in Procs |-> NULL]
  /\ sleeprem = [p \in Procs |-> 0]
  /\ nproc = 0 /\ curproc = NULL /\ ticks = 0 /\ rr = 0
  /\ pc = [p \in Procs |-> IF p = IDLE THEN "procinit" ELSE "none"]
  /\ arg = [p \in Procs |-> 0]
  /\ cpu = IDLE /\ fl_if = 0 /\ cr3 = "kpml4" /\ tss = NULL
  /\ irr \in Bit /\ isr = 0 /\ intr = 0
  /\ halt = "no"
  /\ since = [p \in Procs |-> 0]
  /\ bypass = [p \in Procs |-> 0]

\* procinit; main goes on to uvminit and spawn.
procinit ==
  /\ At(IDLE, "procinit")
  /\ curproc' = nproc
  /\ nproc' = nproc + 1
  /\ state' = [state EXCEPT ![nproc] = "RUNNING"]
  /\ kstack' = [kstack EXCEPT ![nproc] = NULL]
  /\ pt_root' = [pt_root EXCEPT ![nproc] = "kpml4"]
  /\ pid' = [pid EXCEPT ![nproc] = nproc + 1]
  /\ Goto(IDLE, "spawn")
  /\ UNCHANGED <<prio, retval, sleeprem, cpu, fl_if, cr3, tss, apicvars,
                 history, rr, arg, halt>>

-----------------------------------------------------------------------------
(* spawn and spawnuser.  Kernel threads call them, and main does once.     *)

CanSpawn(p) == (At(p, "run") \/ At(p, "spawn")) /\ nproc <= MaxSpawn

\* Up to the end of allocproc: the slot is taken, in state st.
TakeSlot(p, pr, root, st) ==
  /\ CanSpawn(p)
  /\ p = IDLE => root = "kpml4"
  /\ nproc < MAX_PROC
  /\ pr \in MINPRIO .. MAXPRIO
  /\ state' = [state EXCEPT ![nproc] = st]
  /\ pid' = [pid EXCEPT ![nproc] = nproc]
  /\ kstack' = [kstack EXCEPT ![nproc] = nproc]
  /\ prio' = [prio EXCEPT ![nproc] = pr]
  /\ pt_root' = [pt_root EXCEPT ![nproc] = root]
  /\ arg' = [arg EXCEPT ![p] = nproc]
  /\ nproc' = nproc + 1
  /\ Goto(p, "spawning")
  /\ UNCHANGED <<retval, sleeprem, cpuvars, apicvars, history, rr, halt>>

\* Slip: allocproc takes the slot as RUNNABLE instead of RESERVE.
spawn_unreserved(p, pr, root) == TakeSlot(p, pr, root, "RUNNABLE")

\* The new thread is not yet RUNNABLE.
spawn(p, pr, root) == TakeSlot(p, pr, root, "RESERVE")

\* A priority out of range fails spawn's ASSERT: the caller's mistake.
SpawnBadPrio(p, pr) ==
  /\ CanSpawn(p)
  /\ pr \notin MINPRIO .. MAXPRIO
  /\ Stop("badarg")

\* allocproc does not compare nproc with MAX_PROC: the slot it fills, and the
\* kernel stack, lie past the arrays.  What follows is undefined.
SpawnOverrun(p, pr) ==
  /\ CanSpawn(p)
  /\ nproc = MAX_PROC
  /\ pr \in MINPRIO .. MAXPRIO
  /\ Stop("overrun")

\* The rest: the initial context is in place, then the thread is RUNNABLE.
\* A kernel thread starts in its function, a user thread in trapret.
SpawnDone(p) ==
  LET new == arg[p]
      start == IF pt_root[new] = "kpml4" THEN "run" ELSE "trapret"
      back  == IF p = IDLE THEN "sti" ELSE "run"
  IN  /\ At(p, "spawning")
      /\ pc' = [pc EXCEPT ![new] = start, ![p] = back]
      /\ state' = [state EXCEPT ![new] = "RUNNABLE"]
      /\ bypass' = [bypass EXCEPT ![new] = 0]
      /\ UNCHANGED <<pid, kstack, pt_root, prio, retval, sleeprem, nproc,
                     cpuvars, apicvars, since, rr, arg, halt>>

-----------------------------------------------------------------------------
(* Giving up the processor: yield, sleep and exit, up to their cli; then   *)
(* the state change, which must come after cli; then sched.                *)

\* Slip: no cli before the state changes.
CliCall_no_cli(p, l, a) ==
  ASSERT(state[curproc] = "RUNNING",
         /\ arg' = [arg EXCEPT ![p] = a]
         /\ Goto(p, l)
         /\ UNCHANGED <<procvars, cpuvars, apicvars, history, rr, halt>>)

CliCall(p, l, a) ==
  ASSERT(state[curproc] = "RUNNING",
         /\ fl_if' = 0
         /\ arg' = [arg EXCEPT ![p] = a]
         /\ Goto(p, l)
         /\ UNCHANGED <<procvars, curproc, cpu, cr3, tss, apicvars, history,
                        rr, halt>>)

yield(p) == p # IDLE /\ At(p, "run") /\ CliCall(p, "yield", 0)

YieldMark(p) ==
  /\ At(p, "yield")
  /\ state' = [state EXCEPT ![curproc] = "RUNNABLE"]
  /\ bypass' = [bypass EXCEPT ![curproc] = 0]
  /\ Goto(p, "sched")
  /\ UNCHANGED <<pid, kstack, pt_root, prio, retval, sleeprem, nproc, cpuvars,
                 apicvars, since, rr, arg, halt>>

\* sleep(0) returns at once and a negative count panics.
sleep(p, n) ==
  /\ p # IDLE /\ At(p, "run")
  /\ \/ n < 0 /\ Stop("badarg")
     \/ n = 0 /\ UNCHANGED vars
     \/ n > 0 /\ CliCall(p, "sleep", n)

SleepMark(p) ==
  /\ At(p, "sleep")
  /\ state' = [state EXCEPT ![curproc] = "SLEEPING"]
  /\ sleeprem' = [sleeprem EXCEPT ![curproc] = arg[p]]
  /\ since' = [since EXCEPT ![curproc] = 0]
  /\ Goto(p, "sched")
  /\ UNCHANGED <<pid, kstack, pt_root, prio, retval, nproc, cpuvars, apicvars,
                 bypass, rr, arg, halt>>

\* A kernel thread's exit or return (spawnret), or a user thread's SYS_exit.
exit(p) ==
  /\ p # IDLE
  /\ At(p, "run") \/ At(p, "syscall")
  /\ CliCall(p, "exit", RETURNED)

ExitMark(p) ==
  /\ At(p, "exit")
  /\ state' = [state EXCEPT ![curproc] = "EXITED"]
  /\ retval' = [retval EXCEPT ![curproc] = arg[p]]
  /\ Goto(p, "sched")
  /\ UNCHANGED <<pid, kstack, pt_root, prio, sleeprem, nproc, cpuvars,
                 apicvars, history, rr, arg, halt>>

\* swtch saves the live context in slot old and loads that of slot new.  The
\* interrupt flag is not part of a context.
swtch(old, new) == pc' = [pc EXCEPT ![old] = "swtched"] /\ cpu' = new

\* Slip: curproc is not updated before swtch.
sched_keeps_curproc(p) ==
  /\ At(p, "sched")
  /\ ASSERT(state[curproc] # "RUNNING" /\ fl_if = 0,
            /\ cr3' = pt_root[IDLE]
            /\ swtch(curproc, IDLE)
            /\ UNCHANGED <<procvars, curproc, fl_if, tss, apicvars, history,
                           rr, arg, halt>>)

\* To idle, with interrupts off until its sti.
sched(p) ==
  /\ At(p, "sched")
  /\ ASSERT(state[curproc] # "RUNNING" /\ fl_if = 0,
            /\ curproc' = IDLE
            /\ cr3' = pt_root[IDLE]
            /\ swtch(curproc, IDLE)
            /\ UNCHANGED <<procvars, fl_if, tss, apicvars, history, rr, arg,
                           halt>>)

\* Back from swtch: yield and sleep return, exit panics.
SchedReturn(p) ==
  /\ p # IDLE /\ At(p, "swtched")
  /\ ASSERT(curproc # IDLE /\ retval[p] = NULL,
            /\ Goto(p, "run")
            /\ UNCHANGED <<procvars, cpuvars, apicvars, history, rr, arg,
                           halt>>)

-----------------------------------------------------------------------------
(* idlemain *)

\* Slip: no sti at the head of the loop.
IdleSti_no_sti ==
  /\ At(IDLE, "sti")
  /\ Goto(IDLE, "find")
  /\ UNCHANGED <<procvars, cpuvars, apicvars, history, rr, arg, halt>>

IdleSti ==
  /\ At(IDLE, "sti")
  /\ fl_if' = 1
  /\ Goto(IDLE, "find")
  /\ UNCHANGED <<procvars, curproc, cpu, cr3, tss, apicvars, history, rr, arg,
                 halt>>

\* One turn of the loop of find_runnable_proc, which never returns NULL: the
\* slot next follows the examined one, and a slot that is ok is returned.
FindTurn(next, found, ok) ==
  /\ At(IDLE, "find")
  /\ rr' = IF ok THEN found ELSE next
  /\ IF ok
       THEN /\ arg' = [arg EXCEPT ![IDLE] = rr]
            /\ Goto(IDLE, "claim")
            /\ bypass' = [p \in Procs |->
                            IF p # rr /\ state[p] = "RUNNABLE"
                              THEN bypass[p] + 1 ELSE bypass[p]]
       ELSE UNCHANGED <<arg, pc, bypass>>
  /\ UNCHANGED <<procvars, cpuvars, apicvars, since, halt>>

\* Slip: the modulus is one too large.
find_modulus_over ==
  LET n == (rr + 1) % (nproc + 1) IN FindTurn(n, n, state[rr] = "RUNNABLE")

\* Slip: the modulus is one too small, and the last slot is never examined.
find_modulus_under ==
  LET n == (rr + 1) % (nproc - 1) IN FindTurn(n, n, state[rr] = "RUNNABLE")

\* Slip: every search starts over at slot 0.
find_from_zero == FindTurn((rr + 1) % nproc, 0, state[rr] = "RUNNABLE")

\* Slip: whatever does not sleep is taken for ready.
find_not_sleeping ==
  LET n == (rr + 1) % nproc
  IN  FindTurn(n, n, rr # IDLE /\ state[rr] # "SLEEPING")

find_runnable_proc ==
  LET n == (rr + 1) % nproc IN FindTurn(n, n, state[rr] = "RUNNABLE")

IdleClaim ==
  /\ At(IDLE, "claim")
  /\ curproc' = arg[IDLE]
  /\ state' = [state EXCEPT ![curproc'] = "RUNNING"]
  /\ Goto(IDLE, "switch")
  /\ UNCHANGED <<pid, kstack, pt_root, prio, retval, sleeprem, nproc, cpu,
                 fl_if, cr3, tss, apicvars, history, rr, arg, halt>>

\* Slip: set_task_kstack is forgotten.
IdleSwitch_no_kstack ==
  /\ At(IDLE, "switch")
  /\ ASSERT(curproc # IDLE,
            /\ cr3' = pt_root[curproc]
            /\ swtch(IDLE, curproc)
            /\ UNCHANGED <<procvars, curproc, fl_if, tss, apicvars, history,
                           rr, arg, halt>>)

set_task_kstack == tss' = kstack[curproc]

\* lcr3, set_task_kstack and its ASSERT, and swtch, interrupts on.
IdleSwitch ==
  /\ At(IDLE, "switch")
  /\ ASSERT(curproc # IDLE,
            /\ cr3' = pt_root[curproc]
            /\ set_task_kstack
            /\ swtch(IDLE, curproc)
            /\ UNCHANGED <<procvars, curproc, fl_if, apicvars, history, rr,
                           arg, halt>>)

IdleReturn ==
  /\ At(IDLE, "swtched")
  /\ ASSERT(curproc = IDLE,
            /\ Goto(IDLE, "sti")
            /\ UNCHANGED <<procvars, cpuvars, apicvars, history, rr, arg,
                           halt>>)

-----------------------------------------------------------------------------
(* Traps *)

\* The end of trapret: iretq to user mode with the trap frame's rflags, in
\* which spawnuser set FL_IF.
TrapRet(p) ==
  /\ At(p, "trapret")
  /\ fl_if' = 1
  /\ Goto(p, "user")
  /\ UNCHANGED <<procvars, curproc, cpu, cr3, tss, apicvars, history, rr, arg,
                 halt>>

\* int T_SYSCALL: a trap gate, so interrupts stay on.
Syscall(p) ==
  /\ At(p, "user")
  /\ Goto(p, "syscall")
  /\ UNCHANGED <<procvars, cpuvars, apicvars, history, rr, arg, halt>>

\* SYS_print, or an unknown number: back to user mode.
SyscallReturn(p) ==
  /\ At(p, "syscall")
  /\ Goto(p, "user")
  /\ UNCHANGED <<procvars, cpuvars, apicvars, history, rr, arg, halt>>

\* Any trap but the timer and the system call, from user mode: trap calls
\* exit with 0xDEADDEADDEADDEAD.
UserTrap(p) == At(p, "user") /\ CliCall(p, "exit", KILLED)

\* The same from kernel mode, the timer handler's included: panic.
KernelTrap ==
  /\ halt = "no"
  /\ intr = 1 \/ pc[cpu] # "user"
  /\ Stop("trap")

-----------------------------------------------------------------------------
(* The timer *)

\* The counter reaches zero and reloads.  One pending tick is all the local
\* APIC remembers.
LapicFire ==
  /\ irr' = 1
  /\ since' = [p \in Procs |->
                 IF state[p] = "SLEEPING" /\ since[p] < arg[p]
                   THEN since[p] + 1 ELSE since[p]]
  /\ UNCHANGED <<procvars, cpuvars, isr, intr, ticks, bypass, rr, pc, arg,
                 halt>>

\* The processor accepts the tick through an interrupt gate.
TimerEntry ==
  /\ halt = "no" /\ intr = 0
  /\ fl_if = 1 /\ irr = 1 /\ isr = 0
  /\ fl_if' = 0
  /\ irr' = 0 /\ isr' = 1 /\ intr' = 1
  /\ UNCHANGED <<procvars, curproc, cpu, cr3, tss, ticks, history, rr, pc, arg,
                 halt>>

\* Slip: the count is compared before it is decremented.
Waking_early(p) == p < nproc /\ state[p] = "SLEEPING" /\ sleeprem[p] <= 2

Waking(p) == p < nproc /\ state[p] = "SLEEPING" /\ sleeprem[p] = 1

\* trap, case T_IRQ0 + IRQ_TIMER, to the iretq; the tick is left in service or
\* not.
HandleTick(service) ==
  /\ halt = "no" /\ intr = 1
  /\ ticks' = IF ticks = TickMax THEN -TickMax - 1 ELSE ticks + 1
  /\ sleeprem' = [p \in Procs |->
                    IF p < nproc /\ state[p] = "SLEEPING"
                      THEN sleeprem[p] - 1 ELSE sleeprem[p]]
  /\ state' = [p \in Procs |-> IF Waking(p) THEN "RUNNABLE" ELSE state[p]]
  /\ bypass' = [p \in Procs |-> IF Waking(p) THEN 0 ELSE bypass[p]]
  /\ isr' = service
  /\ intr' = 0
  /\ fl_if' = 1
  /\ UNCHANGED <<pid, kstack, pt_root, prio, retval, nproc, curproc, cpu, cr3,
                 tss, irr, since, rr, pc, arg, halt>>

\* Slip: no lapiceoi, so that the next tick is never delivered.
TimerTick_no_eoi == HandleTick(isr)

\* lapiceoi ends the service.
TimerTick == HandleTick(0)

-----------------------------------------------------------------------------
(* What the running thread chooses to do, and what the kernel must do next *)

GiveUp(p) ==
  \/ yield(p)
  \/ \E n \in SleepArgs : sleep(p, n)
  \/ exit(p)

Spawning(p) ==
  \E pr \in Prios :
    \/ \E root \in {"kpml4", "upml4"} : spawn(p, pr, root)
    \/ SpawnBadPrio(p, pr)
    \/ SpawnOverrun(p, pr)

ThreadStep(p) ==
  \/ SpawnDone(p)
  \/ YieldMark(p)
  \/ SleepMark(p)
  \/ ExitMark(p)
  \/ sched(p)
  \/ SchedReturn(p)
  \/ TrapRet(p)
  \/ SyscallReturn(p)

IdleStep ==
  \/ procinit
  \/ IdleSti
  \/ find_runnable_proc
  \/ IdleClaim
  \/ IdleSwitch
  \/ IdleReturn

Next ==
  \/ IdleStep
  \/ \E p \in Procs :
       \/ ThreadStep(p)
       \/ GiveUp(p)
       \/ Spawning(p)
       \/ Syscall(p)
       \/ UserTrap(p)
  \/ KernelTrap
  \/ LapicFire
  \/ TimerEntry
  \/ TimerTick

Spec == Init /\ [][Next]_vars

(* Fairness.  The timer keeps counting and the processor keeps executing:   *)
(* a kernel step that interrupts disable again and again is still taken,    *)
(* since the timer period is much longer than the handler.  Nothing         *)
(* preempts a thread, so that each one gives up the processor in the end is *)
(* an assumption about the threads.                                         *)

KernelStep == IdleStep \/ Spawning(IDLE) \/ \E p \in Procs : ThreadStep(p)

Fairness ==
  /\ WF_vars(LapicFire)
  /\ SF_vars(TimerEntry)
  /\ WF_vars(TimerTick)
  /\ SF_vars(KernelStep)

Cooperative ==
  /\ SF_vars(\E p \in Procs : GiveUp(p))
  /\ SF_vars(\E p \in Procs : Syscall(p))

FairSpec == Spec /\ Fairness /\ Cooperative

-----------------------------------------------------------------------------
(* Safety *)

\* No ASSERT or panic of yield, sched, exit, sleep or idlemain ever fires,
\* whatever the threads call and wherever the timer interrupts them.
NoAssertFails == halt # "assert"

\* At most one thread is RUNNING, and it is curproc.  While curproc is a
\* thread already marked as something else, on its way into sched, no
\* interrupt can be taken ("must be after cli").
LoneRunner ==
  /\ \A t \in Threads : state[t] = "RUNNING" => curproc = t
  /\ curproc # NULL /\ state[curproc] # "RUNNING" => fl_if = 0 /\ intr = 0

\* Thread code executes with the thread's own page table loaded and with its
\* own kernel stack in the TSS, a stack that no other thread has.
ContextLoaded ==
  cpu # IDLE =>
    /\ curproc = cpu
    /\ cr3 = pt_root[cpu]
    /\ tss = kstack[cpu] /\ tss # NULL
    /\ \A t \in Threads \ {cpu} : kstack[t] # tss

\* Interrupts are on whenever a thread runs code of its own, in kernel or user
\* mode: yield and sleep return with the flag set although they cleared it
\* ("will sti in idle").
ThreadsInterruptible ==
  halt = "no" /\ intr = 0 /\ pc[cpu] \in {"run", "user", "syscall"} =>
    fl_if = 1

\* A suspended thread that the scheduler may pick, now or after its sleep, has
\* a context to continue from and has not exited ("Set RUNNABLE only when
\* everything has been setup").
ReadyHasContext ==
  \A t \in Threads :
    state[t] \in {"RUNNABLE", "SLEEPING"} /\ cpu # t =>
      /\ t < nproc
      /\ pc[t] \in {"run", "trapret", "swtched"}
      /\ retval[t] = NULL

\* Round robin: while a thread waits as RUNNABLE, find_runnable_proc picks
\* others at most MAX_PROC - 2 times.
BoundedBypass ==
  \A t \in Threads : state[t] = "RUNNABLE" => bypass[t] <= MAX_PROC - 2

\* A thread that called sleep(n) is not made RUNNABLE before n - 1 timer
\* periods have ended, even with ticks pending or lost.
NoEarlyWake ==
  [][\A t \in Threads :
       state[t] = "SLEEPING" /\ state'[t] # "SLEEPING" =>
         since[t] >= arg[t] - 1
    ]_vars

\* A thread that has exited and left the processor never gets it back, and
\* its return value stays.
ExitIsFinal ==
  [][\A t \in Threads :
       state[t] = "EXITED" /\ cpu # t =>
         cpu' # t /\ state'[t] = "EXITED" /\ retval'[t] = retval[t]
    ]_vars

-----------------------------------------------------------------------------
(* Liveness, as long as nothing has stopped the kernel *)

\* Every RUNNABLE thread gets the processor.
RunnableRuns ==
  \A t \in Threads :
    state[t] = "RUNNABLE" ~> state[t] = "RUNNING" \/ halt # "no"

\* Every sleeper wakes up.
SleepersWake ==
  \A t \in Threads :
    state[t] = "SLEEPING" ~> state[t] # "SLEEPING" \/ halt # "no"

\* Every pending tick is handled: interrupts never stay off.
TicksServed == irr = 1 ~> irr = 0 \/ halt # "no"

-----------------------------------------------------------------------------
(* What a comment says of the process table; the code differs. *)

\* proc.c: "Allocate a struct proc from procs."
AllocInTable == halt # "overrun"
=============================================================================
