------------------------------ MODULE Startup -------------------------------
(***************************************************************************)
(* main (src/kernel/main.c) from its first call to the scheduler's loop,   *)
(* composed with what comes before it (Boot), with the serial port (Uart)  *)
(* and with the search for processors (Acpi): which parts of the address   *)
(* space, descriptor tables and devices are there when a step uses them,   *)
(* and which interrupts can arrive when.  What kallocinit, paginginit_bsp, *)
(* uvminit and spawn do to memory and to the process table is in Paging    *)
(* and Proc; here they are steps that need the kernel's window.            *)
(*                                                                         *)
(* Besides the ACPI tables a firmware gives the serial port (port: "none", *)
(* "ok" or "stuck") and the local APIC id of this processor (bsp).  It     *)
(* leaves the legacy interrupt controller running and LINT0 connected to   *)
(* it.                                                                     *)
(***************************************************************************)
EXTENDS Boot, Uart, Acpi

CONSTANTS Machines  \* the pairs <<kernel file, firmware>>

NoCpu == -1

VARIABLES
  lint0, timer,       \* the local APIC: is LINT0 masked, is the timer started
  delivs, irr,        \* is an IPI being delivered, is a tick pending
  cpuid,              \* trapinit
  idt, fsbase,        \* is the IDT loaded; the processor whose TLS is in use
  curcpu, curproc     \* thread-local; curproc is 1 once there is a process

lapic == <<lint0, timer, delivs, irr>>
traps == <<cpuid, idt, fsbase, curcpu, curproc>>
vars == <<bootvars, uartvars, acpivars, lapic, traps>>

Init ==
  /\ \E machine \in Machines : file = machine[1] /\ fw = machine[2]
  /\ BootInit /\ UartInit /\ AcpiInit
  /\ lint0 = 0 /\ timer = 0 /\ delivs = 0 /\ irr = 0
  /\ cpuid = NoCpu
  /\ idt = 0 /\ fsbase = NoCpu /\ curcpu = NoCpu /\ curproc = 0

\* What steps of the kernel leave alone of the machine's state.
still == <<file, mem, loader, disk, gate>>

-----------------------------------------------------------------------------
(* main, up to acpiinit *)

UartEarlyInit ==
  /\ pc = "main"
  /\ uartearlyinit(fw.port)
  /\ pc' = "uartearlyinit"
  /\ UNCHANGED <<still, cpu, acpivars, lapic, traps>>

\* The driver, and the port on its own.
UartStep ==
  /\ Poll \/ Putc \/ Transmit(fw.port)
  /\ UNCHANGED <<bootvars, acpivars, lapic, traps>>

\* kallocinit threads its list through the frames at their kernel addresses.
KallocInit ==
  /\ pc = "uartearlyinit" /\ tx = "done"
  /\ Reaching({"high"}, "paginginit")
  /\ UNCHANGED <<still, cpu, uartvars, acpivars, lapic, traps>>

\* paginginit_bsp ends with lcr3.
PagingInit ==
  /\ pc = "paginginit"
  /\ Reaching({"high"}, "acpiinit")
  /\ root' = "kpml4"
  /\ UNCHANGED <<still, intr, on, gdt, uartvars, acpivars, lapic, traps>>

AcpiCall ==
  /\ pc = "acpiinit"
  /\ acpiinit
  /\ UNCHANGED <<bootvars, uartvars, lapic, traps>>

AcpiRun ==
  /\ pc = "acpiinit"
  /\ AcpiStep
  /\ UNCHANGED <<bootvars, uartvars, lapic, traps>>

AcpiReturn ==
  /\ pc = "acpiinit" /\ acpi \in {"done", "panic", "fault", "overrun"}
  /\ pc' = IF acpi = "done" THEN "lapicinit" ELSE acpi
  /\ UNCHANGED <<still, cpu, uartvars, acpivars, lapic, traps>>

-----------------------------------------------------------------------------
(* lapicinit *)

\* The register writes up to the wait, with LINT0 left as mask says.  The
\* device window has no PF_W; the writes rely on CR0.WP being clear.
LapicWrites(mask) ==
  /\ pc = "lapicinit"
  /\ Reaching({"dev"}, "delivs")
  /\ timer' = 1 /\ lint0' = mask /\ delivs' = 1 /\ irr' = 0
  /\ UNCHANGED <<still, cpu, uartvars, acpivars, traps>>

\* Slip: the logical interrupt lines are not disabled.
LapicInit_lint0 == LapicWrites(lint0)

LapicInit == LapicWrites(1)

\* The local APIC (external): the IPI is delivered, the timer counts down.
IpiDelivered ==
  /\ delivs = 1
  /\ delivs' = 0
  /\ UNCHANGED <<bootvars, uartvars, acpivars, lint0, timer, irr, traps>>

TimerFires ==
  /\ timer = 1 /\ irr = 0
  /\ irr' = 1
  /\ UNCHANGED <<bootvars, uartvars, acpivars, lint0, timer, delivs, traps>>

\* lapicid's test; the next step reads the register.
WithLapicId(next) ==
  IF intr = 1 THEN pc' = "panic" ELSE Reaching({"dev"}, next)

LapicReady ==
  /\ pc = "delivs" /\ delivs = 0
  /\ WithLapicId("trapinit")
  /\ UNCHANGED <<still, cpu, uartvars, acpivars, lapic, traps>>

-----------------------------------------------------------------------------
(* trapinit *)

\* The search for the processor compares its id with index.
TrapFind ==
  /\ pc = "trapinit"
  /\ IF \E c \in 0 .. ncpu - 1 : cpus[c].index = fw.bsp
       THEN /\ cpuid' = CHOOSE c \in 0 .. ncpu - 1 :
                          /\ cpus[c].index = fw.bsp
                          /\ \A b \in 0 .. c - 1 : cpus[b].index # fw.bsp
            /\ WithLapicId("idt")
       ELSE pc' = "panic" /\ UNCHANGED cpuid
  /\ UNCHANGED <<still, cpu, uartvars, acpivars, lapic, idt, fsbase, curcpu,
                 curproc>>

\* The gates, lidt, FSBASE, and curcpu through it.
TrapTables ==
  /\ pc = "idt"
  /\ idt' = 1
  /\ fsbase' = cpuid
  /\ curcpu' = cpuid
  /\ pc' = IF fsbase' = NoCpu THEN "fault" ELSE "gdt"
  /\ UNCHANGED <<still, cpu, uartvars, acpivars, lapic, cpuid, curproc>>

\* Where the descriptors are that an interrupt, or ltr, reads.
GdtReached(g) ==
  CASE g \in {"boot", "entry"} -> "low" \in Maps
    [] g = "tls" -> "high" \in Maps
    [] OTHER -> FALSE

\* The TSS and the GDT in the TLS page, lgdt, and ltr.
TrapSegments ==
  /\ pc = "gdt"
  /\ gdt' = "tls"
  /\ pc' = IF GdtReached(gdt') THEN "procinit" ELSE "fault"
  /\ UNCHANGED <<still, intr, on, root, uartvars, acpivars, lapic, traps>>

-----------------------------------------------------------------------------
(* The rest of main *)

\* procinit: curproc is thread-local, and curcpu is used.
ProcInit ==
  /\ pc = "procinit"
  /\ curproc' = 1
  /\ pc' = IF NoCpu \in {fsbase, curcpu} THEN "fault" ELSE "uvminit"
  /\ UNCHANGED <<still, cpu, uartvars, acpivars, lapic, cpuid, idt, fsbase,
                 curcpu>>

\* uvminit, spawn of the first thread, and idlemain up to its sti.
IdleMain ==
  /\ pc = "uvminit"
  /\ Reaching({"high"}, "idle")
  /\ intr' = 1
  /\ UNCHANGED <<still, on, root, gdt, uartvars, acpivars, lapic, traps>>

\* An interrupt is taken: a tick by trap, if all that it uses is there; one
\* of the legacy controller, on a vector of an exception, stops the kernel.
Interrupt ==
  /\ intr = 1 /\ "PE" \in on /\ pc \notin {"panic", "fault"}
  /\ \E v \in {"timer", "legacy"} :
       /\ v = "timer" => irr = 1
       /\ v = "legacy" => lint0 = 0
       /\ irr' = IF v = "timer" THEN 0 ELSE irr
       /\ pc' = IF idt = 0 \/ ~GdtReached(gdt) \/ curproc = 0 THEN "fault"
                ELSE IF v = "timer" THEN pc ELSE "panic"
  /\ UNCHANGED <<still, cpu, uartvars, acpivars, lint0, timer, delivs, traps>>

Next ==
  \/ BootNext /\ UNCHANGED <<uartvars, acpivars, lapic, traps>>
  \/ UartEarlyInit
  \/ UartStep
  \/ KallocInit
  \/ PagingInit
  \/ AcpiCall
  \/ AcpiRun
  \/ AcpiReturn
  \/ LapicInit
  \/ IpiDelivered
  \/ TimerFires
  \/ LapicReady
  \/ TrapFind
  \/ TrapTables
  \/ TrapSegments
  \/ ProcInit
  \/ IdleMain
  \/ Interrupt

\* The processor goes on, and the devices it waits for answer.
Spec == Init /\ [][Next]_vars /\ WF_vars(Next)

-----------------------------------------------------------------------------
(* Properties *)

TypeOK ==
  /\ BootTypeOK /\ UartTypeOK /\ AcpiTypeOK
  /\ pc \in BootPcs \cup EntryPcs \cup
            {"uartearlyinit", "paginginit", "acpiinit", "lapicinit", "delivs",
             "trapinit", "idt", "gdt", "procinit", "uvminit", "idle",
             "panic", "fault", "overrun"}
  /\ {lint0, timer, delivs, irr, idt, curproc} \subseteq {0, 1}
  /\ {cpuid, fsbase, curcpu} \subseteq {NoCpu} \cup 0 .. MAX_CPU - 1

\* On every machine, each step of the startup finds mapped and set up what it
\* uses, and no interrupt arrives that the kernel has no handler for.  The
\* processor faults only when acpiinit trusts a firmware without a root
\* pointer or with a table right behind the mapped memory, leaves cpus only
\* when the firmware lists too many processors, and the kernel stops itself
\* only on tables it cannot use or when it does not find its own processor.
NoFault ==
  /\ pc = "fault" =>
       /\ ~fw.dummy
       /\ Roots = <<>> \/
          MAX_PHYS_MEM \in {Head(Roots).rsdt_addr_phys} \cup
                           {fw.rsdt[j].addr : j \in DOMAIN fw.rsdt}
  /\ pc = "overrun" => Len(Listed) > MAX_CPU
  /\ pc = "panic" => ~Usable \/ fw.bsp >= Len(Listed)

\* acpiinit enters in cpus the usable processors of the MADT (or of the
\* configuration), each at its index, and nothing else.  trapinit gives a
\* processor the entry and the TLS page of its local APIC id, so that no two
\* share one; the entry is its own if the ids are 0, 1 and so on.
CpusRight ==
  /\ acpi = "done" =>
       /\ ncpu = Len(Listed)
       /\ \A c \in 0 .. ncpu - 1 :
            cpus[c] = [index |-> c, lapicid |-> Listed[c + 1]]
  /\ curcpu # NoCpu =>
       /\ curcpu = fw.bsp /\ fsbase = fw.bsp
       /\ (\A c \in 1 .. ncpu : Listed[c] = c - 1) =>
            cpus[curcpu].lapicid = fw.bsp

\* A machine whose kernel file has an acceptable header first, and whose
\* firmware is usable and lists this processor, ends up in idlemain with
\* interrupts on and stays there, whatever the serial port does; without such
\* a header the loader gives up, and without such a firmware idlemain is not
\* reached.
Boots ==
  LET fit == {k \in DOMAIN file : file[k].fits}
      good == \E k \in fit : Acceptable(file[k]) /\ \A j \in fit : k <= j
      fine == Usable /\ fw.bsp < Len(Listed)
  IN  /\ ~good => <>[](pc = "failed")
      /\ good /\ fine => <>[](pc = "idle" /\ intr = 1)
      /\ ~fine => [](pc # "idle")
=============================================================================
