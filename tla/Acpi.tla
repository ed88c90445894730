-------------------------------- MODULE Acpi --------------------------------
(***************************************************************************)
(* Finding the processors (src/kernel/acpi.c), in both builds: with        *)
(* CONFIG_DUMMY_ACPI they are made up; otherwise the tables the firmware   *)
(* has left in memory are searched for the root pointer, the RSDT is read  *)
(* for the MADT, and the MADT for the processors.                          *)
(*                                                                         *)
(* Addresses are pages and a table lies within one; MAX_PHYS_MEM is the    *)
(* first page that kpml4 does not map.  Lengths within the MADT are the    *)
(* code's, in bytes.                                                       *)
(***************************************************************************)
EXTENDS Integers, SequencesExt

CONSTANTS
  MAX_CPU,
  MAX_PHYS_MEM,
  CONFIG_DUMMY_ACPI_NCPUS

ASSUME AcpiAssumption ==
  /\ MAX_CPU \in Nat \ {0} /\ MAX_PHYS_MEM \in Nat \ {0}
  /\ CONFIG_DUMMY_ACPI_NCPUS \in 1 .. MAX_CPU

SIZEOF_LAPIC == 8
SIZEOF_IOAPIC == 12

\* A root pointer the scan may come upon: the sum of its bytes, and where it
\* says the RSDT is.
Rdsp(sum, rsdt) == [sum |-> sum, rsdt_addr_phys |-> rsdt]

\* A table of the RSDT: its address, is it a MADT, and if so the bytes of it
\* that follow the fixed part (negative if it is shorter than that), does it
\* give the default address of the local APIC, and its entries.
Table(addr, isMadt, len, addrOK, entries) ==
  [addr |-> addr, madt |-> isMadt, len |-> len, addrOK |-> addrOK,
   entries |-> entries]

\* An entry: ok is the enabled flag of a processor, or the default address of
\* an IO APIC.
Entry(type, len, id, ok) == [type |-> type, len |-> len, id |-> id, ok |-> ok]

NONE == [none |-> 0]

VARIABLES
  fw,         \* the firmware: [dummy, ebda, bios, rsdt], see Startup
  acpi,       \* where acpiinit is
  rdsp, madt,
  m,          \* the entry of the RSDT, or of the MADT, to be looked at
  left,       \* e - p of acpi_config_smp
  nioapic, ioapicid,
  cpus, ncpu

acpivars == <<fw, acpi, rdsp, madt, m, left, nioapic, ioapicid, cpus, ncpu>>
search == <<fw, nioapic, ioapicid, cpus, ncpu>>

AcpiInit ==
  /\ acpi = "off"
  /\ rdsp = NONE /\ madt = NONE
  /\ m = 1 /\ left = 0
  /\ nioapic = 0 /\ ioapicid = 0
  /\ cpus = [c \in 0 .. MAX_CPU - 1 |-> [index |-> 0, lapicid |-> 0]]
  /\ ncpu = 0

\* Processor number ncpu is entered in the table.
AddCpu(apicid) ==
  /\ cpus' = [cpus EXCEPT ![ncpu] = [index |-> ncpu, lapicid |-> apicid]]
  /\ ncpu' = ncpu + 1

\* acpiinit of the dummy build, or the start of the other.
acpiinit ==
  /\ acpi = "off"
  /\ IF fw.dummy
       THEN /\ cpus' = [c \in 0 .. MAX_CPU - 1 |->
                          IF c < CONFIG_DUMMY_ACPI_NCPUS
                            THEN [index |-> c, lapicid |-> c] ELSE cpus[c]]
            /\ ncpu' = CONFIG_DUMMY_ACPI_NCPUS
            /\ acpi' = "done"
       ELSE acpi' = "ebda" /\ UNCHANGED <<cpus, ncpu>>
  /\ UNCHANGED <<fw, rdsp, madt, m, left, nioapic, ioapicid>>

-----------------------------------------------------------------------------
(* The root pointer and the RSDT *)

\* Slip: the checksum is not looked at.
scan_rdsp_any(found) == IF found = <<>> THEN NONE ELSE Head(found)

\* The first root pointer with a checksum that fits.
scan_rdsp(found) ==
  LET fits(r) == r.sum % 256 = 0
      good == SelectSeq(found, fits)
  IN  IF good = <<>> THEN NONE ELSE Head(good)

\* find_rdsp, first in the EBDA, if there is one.
ScanEbda ==
  /\ acpi = "ebda"
  /\ rdsp' = scan_rdsp(fw.ebda)
  /\ acpi' = IF rdsp' = NONE THEN "bios" ELSE "rsdt"
  /\ UNCHANGED <<madt, m, left, search>>

ScanBios ==
  /\ acpi = "bios"
  /\ rdsp' = scan_rdsp(fw.bios)
  /\ acpi' = "rsdt"
  /\ UNCHANGED <<madt, m, left, search>>

\* What becomes of acpiinit when it reads a table at an address that its test
\* compares with MAX_PHYS_MEM.
Read(addr, next) ==
  CASE addr > MAX_PHYS_MEM -> "panic"
    [] addr = MAX_PHYS_MEM -> "fault"
    [] OTHER -> next

\* The root pointer is used whether there is one or not, and page 0 is not
\* mapped.
ReadRsdt ==
  /\ acpi = "rsdt"
  /\ acpi' = IF rdsp = NONE THEN "fault"
             ELSE Read(rdsp.rsdt_addr_phys, "tables")
  /\ UNCHANGED <<rdsp, madt, m, left, search>>

\* A turn of the loop over the RSDT: the last MADT counts.
ReadTable ==
  /\ acpi = "tables" /\ m <= Len(fw.rsdt)
  /\ acpi' = Read(fw.rsdt[m].addr, "tables")
  /\ madt' = IF fw.rsdt[m].madt THEN fw.rsdt[m] ELSE madt
  /\ m' = m + 1
  /\ UNCHANGED <<rdsp, left, search>>

-----------------------------------------------------------------------------
(* acpi_config_smp *)

\* Its tests of the table, and the bounds of its loop.
ConfigSmp ==
  /\ acpi = "tables" /\ m > Len(fw.rsdt)
  /\ IF madt = NONE \/ madt.len < 0 \/ ~madt.addrOK
       THEN acpi' = "panic" /\ UNCHANGED left
       ELSE acpi' = "walk" /\ left' = madt.len
  /\ m' = 1
  /\ UNCHANGED <<rdsp, madt, search>>

\* p += len.  A length of 0 goes nowhere.
Advance(len) ==
  /\ left' = left - len
  /\ m' = IF len = 0 THEN m ELSE m + 1

Skip(en) ==
  Advance(en.len) /\ UNCHANGED <<acpi, nioapic, ioapicid, cpus, ncpu>>

Stop(how) ==
  acpi' = how /\ UNCHANGED <<m, left, nioapic, ioapicid, cpus, ncpu>>

\* A processor; the number of them is not compared with MAX_CPU.
LapicEntry(en) ==
  IF en.len < SIZEOF_LAPIC \/ ~en.ok
    THEN Skip(en)
    ELSE IF ncpu = MAX_CPU
           THEN Stop("overrun")
           ELSE /\ AddCpu(en.id)
                /\ Advance(en.len)
                /\ UNCHANGED <<acpi, nioapic, ioapicid>>

IoapicEntry(en) ==
  IF en.len < SIZEOF_IOAPIC
    THEN Skip(en)
    ELSE IF ~en.ok \/ nioapic # 0
           THEN Stop("panic")
           ELSE /\ ioapicid' = en.id
                /\ nioapic' = nioapic + 1
                /\ Advance(en.len)
                /\ UNCHANGED <<acpi, cpus, ncpu>>

\* Slip: an entry that the end of the table cuts off is looked at.
More_cut == left > 0 /\ left >= 2

\* Does the loop of acpi_config_smp go on to look at entry m?
More == left > 0 /\ left >= 2 /\ left >= madt.entries[m].len

WalkEntry ==
  /\ acpi = "walk" /\ More
  /\ LET en == madt.entries[m]
     IN  CASE en.type = "lapic" -> LapicEntry(en)
           [] en.type = "ioapic" -> IoapicEntry(en)
           [] OTHER -> Skip(en)
  /\ UNCHANGED <<fw, rdsp, madt>>

\* The loop ends; there must have been a processor.
WalkEnd ==
  /\ acpi = "walk" /\ ~More
  /\ acpi' = IF ncpu = 0 THEN "panic" ELSE "done"
  /\ UNCHANGED <<rdsp, madt, m, left, search>>

AcpiStep ==
  \/ ScanEbda
  \/ ScanBios
  \/ ReadRsdt
  \/ ReadTable
  \/ ConfigSmp
  \/ WalkEntry
  \/ WalkEnd

-----------------------------------------------------------------------------
(* What a firmware says, told apart from how it is found. *)

AcpiTypeOK ==
  /\ acpi \in {"off", "ebda", "bios", "rsdt", "tables", "walk", "done",
              "panic", "fault", "overrun"}
  /\ m \in Nat /\ left \in Int
  /\ {nioapic, ioapicid} \subseteq Nat
  /\ cpus \in [0 .. MAX_CPU - 1 -> [index : Nat, lapicid : Nat]]
  /\ ncpu \in 0 .. MAX_CPU

\* The root pointers with a good checksum, in the order of the search.
Roots == SelectSeq(fw.ebda \o fw.bios, LAMBDA r : r.sum % 256 = 0)

Madts == SelectSeq(fw.rsdt, LAMBDA t : t.madt)

\* The entries that lie within their table, up to the first that does not.
Inside(t) ==
  LET len(n, en) == n + en.len
      end(j) == FoldLeft(len, 0, SubSeq(t.entries, 1, j))
      in(j) == end(j - 1) < t.len /\ end(j) <= t.len
  IN  SubSeq(t.entries, 1,
             CHOOSE j \in 0 .. Len(t.entries) :
               /\ \A k \in 1 .. j : in(k)
               /\ j < Len(t.entries) => ~in(j + 1))

\* The ids of the processors that may be used.
Listed ==
  IF fw.dummy
    THEN [j \in 1 .. CONFIG_DUMMY_ACPI_NCPUS |-> j - 1]
    ELSE LET cpu(en) == en.type = "lapic" /\ en.len >= SIZEOF_LAPIC /\ en.ok
             all == SelectSeq(Inside(Last(Madts)), cpu)
         IN  [j \in DOMAIN all |-> all[j].id]

\* acpiinit finds its way to a MADT it accepts.
Described ==
  /\ Roots # <<>> /\ Head(Roots).rsdt_addr_phys < MAX_PHYS_MEM
  /\ \A j \in DOMAIN fw.rsdt : fw.rsdt[j].addr < MAX_PHYS_MEM
  /\ Madts # <<>> /\ Last(Madts).len >= 0 /\ Last(Madts).addrOK

\* The kernel can work with what the firmware says.
Usable ==
  fw.dummy \/
    /\ Described
    /\ LET entries == Inside(Last(Madts))
           ioapic(en) == en.type = "ioapic" /\ en.len >= SIZEOF_IOAPIC
           all == SelectSeq(entries, ioapic)
       IN  /\ \A j \in DOMAIN entries : entries[j].len > 0
           /\ Len(all) <= 1 /\ \A j \in DOMAIN all : all[j].ok
    /\ Len(Listed) \in 1 .. MAX_CPU
=============================================================================
