------------------------------- MODULE MCBoot -------------------------------
(***************************************************************************)
(* Sectors of four words.  The file's text starts at, before or after a    *)
(* sector boundary, the header at several places behind it, with or        *)
(* without a magic number of no meaning before it; images end within a     *)
(* sector, with and without a bss.  These run with one firmware; one file  *)
(* runs with many: the made up processors with every kind of serial port,  *)
(* all MADTs of up to two entries, whole or cut short, with longer ones    *)
(* that list too many processors or IO APICs, and every way in which the   *)
(* search for the MADT can go.                                             *)
(***************************************************************************)
EXTENDS Startup

MCHeader(skip, len, bss) ==
  Header(TRUE, TRUE, 26 + skip, 26, 26 + len, 26 + len + bss, 26)

MCNoHeader == Header(FALSE, FALSE, 0, 0, 0, 0, 0)

MCFiles ==
  {[k \in {at} |-> MCHeader(skip, len, bss)] :
     at \in {4, 5, 7}, skip \in {0, 1, 4}, len \in {5, 8, 11}, bss \in {0, 3}}

MCDecoys ==
  {[k \in {1, 6} |-> IF k = 6 THEN MCHeader(2, 9, 2) ELSE MCNoHeader],
   [k \in {1, 6} |-> IF k = 6 THEN MCNoHeader ELSE MCHeader(1, 9, 2)]}

MCBad ==
  {[k \in {} |-> MCNoHeader],
   [k \in {3} |-> MCNoHeader],
   [k \in {3} |-> Header(TRUE, FALSE, 0, 0, 0, 0, 0)],
   [k \in {3} |-> Header(TRUE, TRUE, 26, 27, 36, 36, 26)],
   [k \in {3} |-> Header(TRUE, TRUE, 27, 26, 25, 36, 26)]}

MCImages == MCFiles \cup MCDecoys \cup MCBad

-----------------------------------------------------------------------------

MCDummy(port, bsp) ==
  [dummy |-> TRUE, ebda |-> <<>>, bios |-> <<>>, rsdt |-> <<>>, bsp |-> bsp,
   port |-> port]

MCFirmware(ebda, bios, rsdt, bsp) ==
  [dummy |-> FALSE, ebda |-> ebda, bios |-> bios, rsdt |-> rsdt, bsp |-> bsp,
   port |-> "none"]

MCCpu(id) == Entry("lapic", SIZEOF_LAPIC, id, TRUE)
MCIoapic == Entry("ioapic", SIZEOF_IOAPIC, 1, TRUE)

MCEntries ==
  {MCCpu(id) : id \in {0, 1, 3}} \cup
  {MCIoapic,
   Entry("lapic", SIZEOF_LAPIC, 1, FALSE),
   Entry("lapic", SIZEOF_LAPIC - 2, 1, TRUE),
   Entry("ioapic", SIZEOF_IOAPIC, 1, FALSE),
   Entry("ioapic", SIZEOF_IOAPIC - 4, 1, TRUE),
   Entry("other", 6, 0, TRUE),
   Entry("other", 0, 0, TRUE)}

MCLists ==
  BoundedSeq(MCEntries, 2) \cup
  {<<MCCpu(0), MCCpu(1), MCCpu(3)>>, <<MCIoapic, MCCpu(0), MCIoapic>>,
   <<MCIoapic, MCCpu(1), MCCpu(0)>>}

MCLen(entries) == FoldLeft(LAMBDA n0, en : n0 + en.len, 0, entries)

MCMadt(entries) == Table(0, TRUE, MCLen(entries), TRUE, entries)

\* Up to a byte of the table is missing.
MCWalks ==
  {MCFirmware(<<>>, <<Rdsp(0, 0)>>,
              <<Table(0, TRUE, MCLen(l) - cut, TRUE, l)>>, bsp) :
     l \in MCLists, cut \in {0, 1}, bsp \in {0, 1}}

MCOther(addr) == Table(addr, FALSE, 0, TRUE, <<>>)

MCSearches ==
  {MCFirmware(ebda, bios, <<MCMadt(<<MCCpu(0)>>)>>, 0) :
     ebda, bios \in {<<>>, <<Rdsp(1, 3), Rdsp(0, 0)>>, <<Rdsp(1, 0)>>,
                     <<Rdsp(0, MAX_PHYS_MEM)>>, <<Rdsp(0, 3)>>}} \cup
  {MCFirmware(<<Rdsp(256, 0)>>, <<>>, rsdt, 0) :
     rsdt \in {<<>>, <<MCOther(0)>>,
               <<MCMadt(<<MCCpu(1)>>), MCOther(0), MCMadt(<<MCCpu(0)>>)>>,
               <<MCMadt(<<MCCpu(0)>>), MCOther(MAX_PHYS_MEM)>>,
               <<MCOther(3), MCMadt(<<MCCpu(0)>>)>>,
               <<Table(0, TRUE, -1, TRUE, <<>>)>>,
               <<Table(0, TRUE, 8, FALSE, <<MCCpu(0)>>)>>}}

MCFirmwares ==
  {MCDummy(port, bsp) : port \in {"none", "ok", "stuck"}, bsp \in {0, 1}} \cup
  MCWalks \cup MCSearches

MCMachines ==
  {<<f, MCDummy("none", 0)>> : f \in MCImages} \cup
  {<<[k \in {4} |-> MCHeader(0, 5, 0)], w>> : w \in MCFirmwares}
=============================================================================
