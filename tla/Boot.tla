-------------------------------- MODULE Boot --------------------------------
(***************************************************************************)
(* From power on to main: the boot sector (src/boot/bootasm.S) opens the   *)
(* A20 gate and enters protected mode; the loader (src/boot/bootmain.c)    *)
(* finds the multiboot header in the first words of the kernel file, loads *)
(* the file, clears the bss and calls the entry point, reading the disk    *)
(* one sector at a time; the entry code (src/kernel/entry64.S) builds the  *)
(* first page tables, enters long mode and jumps to main.                  *)
(*                                                                         *)
(* The unit of addresses and of file offsets is a u32.  What a word holds  *)
(* is where it comes from: its number in the kernel file, which starts at  *)
(* sector 1, so that the boot block holds the words -SECT .. -1.           *)
(***************************************************************************)
EXTENDS Integers

CONSTANTS
  SECT,     \* SECTSIZE in words
  HDRMAX,   \* words that are searched for the header, 8192 / 4
  SCRATCH,  \* address of the scratch space
  EXTMEM,   \* first address that needs the A20 line
  BOOTPT,   \* address of the three bootstrap page tables, a word each
  MEM,      \* words of memory
  Images    \* kernel files, see Header

ZERO == -SECT - 1  \* a cleared word
JUNK == -SECT - 2  \* a word nobody has written
TABLE == -SECT - 3 \* a bootstrap page table

\* A file is a function on the numbers of those of its words that look like
\* the magic number: does the checksum fit, and what struct mbheader holds
\* from there on.  has is the flag for the fields that follow.
Header(fits, has, header, load, loadend, bssend, entry) ==
  [fits |-> fits, has |-> has, header_addr |-> header, load_addr |-> load,
   load_end_addr |-> loadend, bss_end_addr |-> bssend, entry_addr |-> entry]

Headers ==
  [fits : BOOLEAN, has : BOOLEAN, header_addr : Nat, load_addr : Nat,
   load_end_addr : Nat, bss_end_addr : Nat, entry_addr : Nat]

HLEN == 8  \* words of struct mbheader

Acceptable(h) ==
  h.has /\ h.load_addr <= h.header_addr /\ h.load_addr <= h.load_end_addr

ASSUME BootAssumption ==
  /\ SECT \in Nat \ {0} /\ HDRMAX \in Nat /\ HDRMAX % SECT = 0
  /\ {BOOTPT, SCRATCH, EXTMEM, MEM} \subseteq Nat
  /\ BOOTPT + 3 <= SCRATCH
  /\ SCRATCH + HDRMAX <= EXTMEM /\ EXTMEM <= MEM /\ MEM <= 2 * EXTMEM
  \* The header is in the searched words, and so is all of the file up to
  \* it; the kernel is linked to load behind the scratch space.
  /\ \A f \in Images : \A k \in DOMAIN f :
       /\ k \in Nat /\ f[k] \in Headers
       /\ f[k].fits =>
            /\ k + HLEN <= HDRMAX
            /\ Acceptable(f[k]) =>
                 /\ f[k].header_addr - f[k].load_addr <= k
                 /\ f[k].load_addr >= SCRATCH + HDRMAX + SECT
                 /\ f[k].load_addr >= EXTMEM
                 /\ f[k].load_end_addr + SECT - 1 <= MEM
                 /\ f[k].bss_end_addr <= MEM

VARIABLES
  file,         \* the kernel on the disk
  mem,
  pc, ret,      \* where bootmain is; where readseg returns to
  pa, epa, offset,  \* readseg
  n,            \* the word at which the header was found
  ready, buf,   \* the disk: RDY without BSY, the sector in its buffer
  a20, kbc,     \* the A20 gate; is the keyboard controller busy
  intr,         \* the interrupt flag
  on, root,     \* bits set in CR0, CR4 and EFER; the page table of CR3
  gdt           \* where the descriptor table is

loader == <<ret, pa, epa, offset, n>>
disk == <<ready, buf>>
gate == <<a20, kbc>>
cpu == <<intr, on, root, gdt>>
bootvars == <<file, mem, pc, loader, disk, gate, cpu>>

\* The address that reaches memory for address a.
Bus(a) == IF a20 = 0 /\ a >= EXTMEM THEN a - EXTMEM ELSE a

-----------------------------------------------------------------------------
(* bootasm.S *)

BootInit ==
  /\ file \in Images
  /\ mem = [a \in 0 .. MEM - 1 |-> JUNK]
  /\ pc = "cli" /\ ret = "start"
  /\ pa = 0 /\ epa = 0 /\ offset = 0 /\ n = 0
  /\ ready \in {0, 1} /\ buf = 0
  /\ a20 \in {0, 1} /\ kbc \in {0, 1}
  /\ intr = 1 /\ on = {} /\ root = "none" /\ gdt = "none"

\* start: the firmware has left interrupts on.
Cli ==
  /\ pc = "cli"
  /\ intr' = 0
  /\ pc' = "seta20.1"
  /\ UNCHANGED <<file, mem, loader, disk, gate, on, root, gdt>>

\* seta20.1: wait until the controller is not busy, send the command.
SetA20Command ==
  /\ pc = "seta20.1" /\ kbc = 0
  /\ kbc' = 1
  /\ pc' = "seta20.2"
  /\ UNCHANGED <<file, mem, loader, disk, a20, cpu>>

\* A byte that a busy controller is sent is lost.
SendA20 ==
  /\ a20' = IF kbc = 0 THEN 1 ELSE a20
  /\ kbc' = 1
  /\ pc' = "protect"
  /\ UNCHANGED <<file, mem, loader, disk, cpu>>

\* Slip: the byte follows its command at once.
SetA20Data_no_wait == pc = "seta20.2" /\ SendA20

SetA20Data == pc = "seta20.2" /\ kbc = 0 /\ SendA20

\* The keyboard controller (external) has dealt with what it was sent.
KbcReady ==
  /\ kbc = 1
  /\ kbc' = 0
  /\ UNCHANGED <<file, mem, pc, loader, disk, a20, cpu>>

\* The bootstrap descriptors, CR0.PE, the segments and the stack.
Protect ==
  /\ pc = "protect"
  /\ gdt' = "boot"
  /\ on' = {"PE"}
  /\ pc' = "start"
  /\ UNCHANGED <<file, mem, loader, disk, gate, intr, root>>

-----------------------------------------------------------------------------
(* readseg and readsect *)

\* readseg up to its loop, which is to start at address from.
ReadFrom(from, to, count, off, next) ==
  /\ epa' = to + count
  /\ pa' = from
  /\ offset' = off \div SECT + 1
  /\ ret' = next
  /\ pc' = "issue"

\* Slip: pa goes back by the whole offset.
readseg_back(to, count, off, next) == ReadFrom(to - off, to, count, off, next)

\* Round down to a sector boundary.
readseg(to, count, off, next) ==
  ReadFrom(to - (off % SECT), to, count, off, next)

\* readsect's command, once the disk is ready, or the end of the loop.
IssueIf(more) ==
  /\ pc = "issue"
  /\ IF more
       THEN ready = 1 /\ ready' = 0 /\ pc' = "data"
       ELSE pc' = ret /\ UNCHANGED ready
  /\ UNCHANGED <<file, mem, ret, pa, epa, offset, n, buf, gate, cpu>>

\* Slip: the loop goes on to the sector at epa.
Issue_too_far == IssueIf(pa <= epa)

Issue == IssueIf(pa < epa)

\* The disk (external) has read the sector it was asked for, or spun up.
DiskReady ==
  /\ ready = 0
  /\ ready' = 1
  /\ buf' = IF pc = "data" THEN offset ELSE buf
  /\ UNCHANGED <<file, mem, pc, loader, gate, cpu>>

\* insl into memory, and on to the next sector.
TakeData ==
  /\ mem' = [a \in 0 .. MEM - 1 |->
               IF \E k \in 0 .. SECT - 1 : a = Bus(pa + k)
                 THEN LET k == CHOOSE k \in 0 .. SECT - 1 : a = Bus(pa + k)
                      IN  (buf - 1) * SECT + k
                 ELSE mem[a]]
  /\ pa' = pa + SECT
  /\ offset' = offset + 1
  /\ pc' = "issue"
  /\ UNCHANGED <<file, ret, epa, n, disk, gate, cpu>>

\* Slip: the buffer is read without a second waitdisk.
ReadData_no_wait == pc = "data" /\ TakeData

ReadData == pc = "data" /\ ready = 1 /\ TakeData

-----------------------------------------------------------------------------
(* bootmain *)

\* Slip: any magic number will do.
IsHeader_magic(k) == mem[SCRATCH + k] \in DOMAIN file

\* x[k] is the magic number and the checksum is right.
IsHeader(k) ==
  LET w == mem[SCRATCH + k] IN w \in DOMAIN file /\ file[w].fits

hdr == file[mem[SCRATCH + n]]

ReadHeader ==
  /\ pc = "start"
  /\ readseg(SCRATCH, HDRMAX, 0, "search")
  /\ UNCHANGED <<file, mem, n, disk, gate, cpu>>

Search ==
  /\ pc = "search"
  /\ \/ \E k \in 0 .. HDRMAX - 1 :
          /\ IsHeader(k) /\ \A j \in 0 .. k - 1 : ~IsHeader(j)
          /\ n' = k /\ pc' = "load"
     \/ /\ \A k \in 0 .. HDRMAX - 1 : ~IsHeader(k)
        /\ pc' = "failed" /\ UNCHANGED n
  /\ UNCHANGED <<file, mem, ret, pa, epa, offset, disk, gate, cpu>>

\* The three checks of the header, and the second readseg.
Load ==
  /\ pc = "load"
  /\ IF Acceptable(hdr)
       THEN readseg(hdr.load_addr, hdr.load_end_addr - hdr.load_addr,
                    n - (hdr.header_addr - hdr.load_addr), "clear")
       ELSE pc' = "failed" /\ UNCHANGED <<ret, pa, epa, offset>>
  /\ UNCHANGED <<file, mem, n, disk, gate, cpu>>

\* stosb of the bss, and the call of the entry point.
Enter ==
  /\ pc = "clear"
  /\ mem' = [a \in 0 .. MEM - 1 |->
               IF a \in {Bus(b) :
                         b \in hdr.load_end_addr .. hdr.bss_end_addr - 1}
                 THEN ZERO ELSE mem[a]]
  /\ pc' = "entry"
  /\ UNCHANGED <<file, loader, disk, gate, cpu>>

-----------------------------------------------------------------------------
(* entry64.S *)

\* mboot_entry: the three pages are cleared and their four entries written.
BuildTables ==
  /\ pc = "entry"
  /\ mem' = [a \in 0 .. MEM - 1 |->
               IF a \in BOOTPT .. BOOTPT + 2 THEN TABLE ELSE mem[a]]
  /\ pc' = "entry32"
  /\ UNCHANGED <<file, loader, disk, gate, cpu>>

\* entry32mp: CR3 and the descriptor table, which is in the image.
LoadRoot ==
  /\ pc = "entry32"
  /\ root' = "boot"
  /\ gdt' = "entry"
  /\ pc' = "pae"
  /\ UNCHANGED <<file, mem, loader, disk, gate, intr, on>>

\* The parts of the address space the processor reaches: the image at its
\* physical addresses, the kernel's window onto memory, the device window.
\* The bootstrap tables map the first 1G twice; kpml4 is what paginginit_bsp
\* builds (see Paging).
Maps ==
  CASE "PG" \notin on -> {"low"}
    [] "PG" \in on /\ root = "kpml4" -> {"high", "dev"}
    [] OTHER -> IF \A k \in 0 .. 2 : mem[BOOTPT + k] = TABLE
                  THEN {"low", "high"} ELSE {}

\* Where the processor is after a step that needs these parts: without one of
\* them it faults, and no handler can run.
Reaching(parts, next) == pc' = IF parts \subseteq Maps THEN next ELSE "fault"

Enable(bit, at, next) ==
  /\ pc = at
  /\ on' = on \cup {bit}
  /\ pc' = next
  /\ UNCHANGED <<file, mem, loader, disk, gate, intr, root, gdt>>

EnablePAE == Enable("PAE", "pae", "lme")

EnableLME == Enable("LME", "lme", "pg")

\* CR0.PG, after which the next instruction is fetched through the tables.
EnablePG ==
  IF {"PE", "PAE", "LME"} \subseteq on /\ root = "boot"
    THEN Enable("PG", "pg", "far") ELSE Enable("PG", "pg", "fault")

\* ljmp through the descriptor table, and entry64low's jump.
JumpHigh ==
  /\ pc = "far"
  /\ Reaching({"low", "high"}, "high")
  /\ UNCHANGED <<file, mem, loader, disk, gate, cpu>>

\* entry64high: the segments, the stack at KERNBASE + 0x10000, and main.
EnterMain ==
  /\ pc = "high"
  /\ Reaching({"high"}, "main")
  /\ UNCHANGED <<file, mem, loader, disk, gate, cpu>>

-----------------------------------------------------------------------------

BootNext ==
  \/ Cli
  \/ SetA20Command
  \/ SetA20Data
  \/ KbcReady
  \/ Protect
  \/ ReadHeader
  \/ Search
  \/ Load
  \/ Enter
  \/ Issue
  \/ ReadData
  \/ DiskReady
  \/ BuildTables
  \/ LoadRoot
  \/ EnablePAE
  \/ EnableLME
  \/ EnablePG
  \/ JumpHigh
  \/ EnterMain

-----------------------------------------------------------------------------
(* Properties *)

BootPcs ==
  {"cli", "seta20.1", "seta20.2", "protect", "start", "issue", "data",
   "search", "load", "clear", "failed"}

EntryPcs == {"entry", "entry32", "pae", "lme", "pg", "far", "high", "main"}

BootTypeOK ==
  /\ mem \in [0 .. MEM - 1 -> Int]
  /\ ret \in {"start", "search", "clear"}
  /\ {pa, epa} \subseteq 0 .. MEM
  /\ offset \in Nat /\ buf \in Nat
  /\ n \in 0 .. HDRMAX - 1
  /\ {ready, a20, kbc, intr} \subseteq {0, 1}
  /\ on \subseteq {"PE", "PAE", "LME", "PG"}
  /\ root \in {"none", "boot", "kpml4"}
  /\ gdt \in {"none", "boot", "entry", "tls"}

\* bootmain goes on reading the header in the scratch space while, and after,
\* it loads the kernel: readseg, which copies more than asked, leaves it alone.
\* (n is 0 until the header is found; an ELF file has none at its first word.)
HeaderKept ==
  n > 0 => \A k \in 0 .. HLEN - 1 : mem[SCRATCH + n + k] = n + k

\* The kernel is entered with its whole image in place, each word where it is
\* linked, and with its bss clear, although sectors overlap both ends of the
\* image and the A20 gate may have been closed; and it is still so when main
\* starts, after the entry code has written its tables.
ImageLoaded ==
  pc \in EntryPcs =>
    /\ \A a \in hdr.load_addr .. hdr.load_end_addr - 1 :
         mem[a] = n + (a - hdr.header_addr)
    /\ \A a \in hdr.load_end_addr .. hdr.bss_end_addr - 1 : mem[a] = ZERO
=============================================================================
