--------------------------- MODULE StartupProofs ----------------------------
(***************************************************************************)
(* For every kernel file, sector size and memory that fit the assumptions  *)
(* of Boot, the loader keeps the header and loads the image; and for every *)
(* length of the announcement the serial line shows it in order.           *)
(***************************************************************************)
EXTENDS Startup, TLAPS

-----------------------------------------------------------------------------
(* The inductive invariant of the loader *)

Gated == {"cli", "seta20.1", "seta20.2"}

Reading(r) == pc \in {"issue", "data"} /\ ret = r

\* The header has not been looked for, or it is known.
Early == pc \in Gated \cup {"protect", "start", "search"} \/ Reading("search")
Late == pc \in {"load", "clear"} \cup EntryPcs \/ Reading("clear")

H == file[n]

Kept == \A k \in 0 .. HLEN - 1 : mem[SCRATCH + n + k] = n + k

\* Words of the file from off on are in memory from to on, up to pa, which is
\* where the sector that is read next goes.
Segment(to, off) ==
  /\ pa = to + (offset - 1) * SECT - off
  /\ to - pa < SECT
  /\ \A a \in 0 .. MEM - 1 : to <= a /\ a < pa => mem[a] = off + (a - to)

Image ==
  \A a \in 0 .. MEM - 1 :
    H.load_addr <= a /\ a < H.load_end_addr => mem[a] = n + (a - H.header_addr)

Bss ==
  \A a \in 0 .. MEM - 1 :
    H.load_end_addr <= a /\ a < H.bss_end_addr => mem[a] = ZERO

Typed ==
  /\ file \in Images
  /\ mem \in [0 .. MEM - 1 -> Int]
  /\ n \in Nat /\ {pa, epa, offset, buf} \subseteq Int

Controlled ==
  /\ pc \in Gated => "PE" \notin on
  /\ pc \notin Gated => a20 = 1
  /\ pc \in {"issue", "data"} => ret \in {"search", "clear"}
  /\ pc = "data" /\ ready = 1 => buf = offset

HeaderInv ==
  /\ Early => n = 0
  /\ n > 0 => Kept
  /\ Late => Kept /\ n \in DOMAIN file /\ H.fits

SearchInv ==
  /\ Reading("search") => Segment(SCRATCH, 0) /\ epa = SCRATCH + HDRMAX
  /\ pc = "search" => \A k \in 0 .. HDRMAX - 1 : mem[SCRATCH + k] = k

LoadInv ==
  /\ Reading("clear") =>
       /\ Acceptable(H)
       /\ Segment(H.load_addr, n - (H.header_addr - H.load_addr))
       /\ epa = H.load_end_addr
  /\ pc = "clear" => Acceptable(H) /\ Image
  /\ pc \in EntryPcs => Acceptable(H) /\ Image /\ Bss

LoaderInv == Typed /\ Controlled /\ HeaderInv /\ SearchInv /\ LoadInv

-----------------------------------------------------------------------------
(* Facts about sectors and headers *)

LEMMA DivMod ==
  ASSUME NEW a \in Nat, NEW b \in Nat \ {0}
  PROVE  /\ a \div b \in Nat /\ a % b \in 0 .. b - 1
         /\ a = ((a \div b) * b) + (a % b)
OBVIOUS

LEMMA NextSector ==
  ASSUME NEW a \in Int, NEW b \in Int
  PROVE  /\ (a - 1) * b \in Int
         /\ (a + 1 - 1) * b = (a - 1) * b + b
OBVIOUS

LEMMA Constants ==
  /\ SECT \in Nat \ {0} /\ HDRMAX \in Nat
  /\ BOOTPT \in Nat /\ SCRATCH \in Nat /\ EXTMEM \in Nat /\ MEM \in Nat
  /\ BOOTPT + 3 <= SCRATCH
  /\ SCRATCH + HDRMAX <= EXTMEM /\ EXTMEM <= MEM
BY BootAssumption

\* What is known of a header whose checksum fits.
LEMMA HeaderFacts ==
  ASSUME NEW f \in Images, NEW k \in DOMAIN f, f[k].fits
  PROVE  /\ k \in Nat /\ k + HLEN <= HDRMAX
         /\ f[k].header_addr \in Nat /\ f[k].load_addr \in Nat
         /\ f[k].load_end_addr \in Nat /\ f[k].bss_end_addr \in Nat
         /\ Acceptable(f[k]) =>
              /\ f[k].load_addr <= f[k].header_addr
              /\ f[k].load_addr <= f[k].load_end_addr
              /\ f[k].header_addr - f[k].load_addr <= k
              /\ f[k].load_addr >= SCRATCH + HDRMAX + SECT
              /\ f[k].load_end_addr + SECT - 1 <= MEM
              /\ f[k].bss_end_addr <= MEM
<1>1. k \in Nat /\ f[k] \in Headers
  BY BootAssumption
<1>2. f[k].fits =>
        /\ k + HLEN <= HDRMAX
        /\ Acceptable(f[k]) =>
             /\ f[k].header_addr - f[k].load_addr <= k
             /\ f[k].load_addr >= SCRATCH + HDRMAX + SECT
             /\ f[k].load_addr >= EXTMEM
             /\ f[k].load_end_addr + SECT - 1 <= MEM
             /\ f[k].bss_end_addr <= MEM
  BY BootAssumption
<1>3. QED
  BY <1>1, <1>2 DEF Headers, Acceptable

LEMMA InHeader ==
  ASSUME NEW x \in Nat, x + HLEN <= HDRMAX, NEW k \in 0 .. HLEN - 1
  PROVE  /\ x + k \in 0 .. HDRMAX - 1
         /\ SCRATCH + (x + k) = SCRATCH + x + k
BY Constants DEF HLEN

\* bootmain's pointer to the header points to it.
LEMMA HdrIsH ==
  ASSUME Kept, n \in Nat
  PROVE  hdr = H
<1>1. mem[SCRATCH + n + 0] = n + 0 BY DEF Kept, HLEN
<1>2. SCRATCH + n + 0 = SCRATCH + n /\ n + 0 = n BY Constants
<1>3. QED BY <1>1, <1>2 DEF hdr, H

-----------------------------------------------------------------------------
(* The loader's steps *)

\* readseg starts a segment, at most a sector before where it is to begin.
LEMMA SegmentStarts ==
  ASSUME Typed, NEW to \in Nat, NEW count \in Int, NEW off \in Nat, NEW next,
         readseg(to, count, off, next)
  PROVE  /\ pa' = to + (offset' - 1) * SECT - off
         /\ to - pa' < SECT /\ pa' <= to
         /\ pa' \in Int /\ offset' \in Int /\ epa' = to + count
         /\ pc' = "issue" /\ ret' = next
<1>1. /\ off \div SECT \in Nat /\ off % SECT \in 0 .. SECT - 1
      /\ off = ((off \div SECT) * SECT) + (off % SECT)
  BY DivMod, Constants, Zenon
<1>2. /\ epa' = to + count /\ pa' = to - (off % SECT)
      /\ offset' = off \div SECT + 1 /\ ret' = next /\ pc' = "issue"
  BY DEF readseg, ReadFrom
<1>3. offset' - 1 = off \div SECT
  BY <1>1, <1>2
<1>4. (offset' - 1) * SECT = off - (off % SECT)
  BY <1>1, <1>3, Constants
<1>5. QED
  BY <1>1, <1>2, <1>4, Constants

\* With the gate open and the right sector in the buffer, readsect copies it
\* to where it belongs, writes nothing else, and moves on by a sector.
LEMMA SectorTaken ==
  ASSUME Typed, a20 = 1, buf = offset, TakeData
  PROVE  /\ mem' \in [0 .. MEM - 1 -> Int]
         /\ \A a \in 0 .. MEM - 1 :
              mem'[a] = IF pa <= a /\ a < pa + SECT
                          THEN (offset - 1) * SECT + (a - pa) ELSE mem[a]
         /\ pa' = pa + SECT /\ offset' = offset + 1
         /\ (offset' - 1) * SECT = (offset - 1) * SECT + SECT
<1>0. /\ mem \in [0 .. MEM - 1 -> Int] /\ pa \in Int /\ offset \in Int
      /\ (offset - 1) * SECT \in Int
      /\ (offset + 1 - 1) * SECT = (offset - 1) * SECT + SECT
  BY NextSector, Constants DEF Typed
<1>1. mem' = [a \in 0 .. MEM - 1 |->
                IF \E k \in 0 .. SECT - 1 : a = Bus(pa + k)
                  THEN LET k == CHOOSE k \in 0 .. SECT - 1 : a = Bus(pa + k)
                       IN  (buf - 1) * SECT + k
                  ELSE mem[a]]
  BY DEF TakeData
<1>2. ASSUME NEW a \in 0 .. MEM - 1
      PROVE  mem'[a] = IF pa <= a /\ a < pa + SECT
                         THEN (offset - 1) * SECT + (a - pa) ELSE mem[a]
  <2>1. CASE pa <= a /\ a < pa + SECT
    <3>1. a - pa \in 0 .. SECT - 1 /\ a = Bus(pa + (a - pa))
      BY <2>1, <1>0, Constants DEF Bus
    <3>2. \A k \in 0 .. SECT - 1 : a = Bus(pa + k) => k = a - pa
      BY <1>0, Constants DEF Bus
    <3>3. (CHOOSE k \in 0 .. SECT - 1 : a = Bus(pa + k)) = a - pa
      BY <3>1, <3>2
    <3>4. QED BY <2>1, <3>1, <3>3, <1>1
  <2>2. CASE ~(pa <= a /\ a < pa + SECT)
    <3>1. ~\E k \in 0 .. SECT - 1 : a = Bus(pa + k)
      BY <2>2, <1>0, Constants DEF Bus
    <3>2. QED BY <2>2, <3>1, <1>1
  <2>3. QED BY <2>1, <2>2
<1>3. mem' \in [0 .. MEM - 1 -> Int]
  <2>1. \A a \in 0 .. MEM - 1 : mem'[a] \in Int
    BY <1>0, <1>2, Constants
  <2>2. mem' = [a \in 0 .. MEM - 1 |-> mem'[a]] BY <1>1
  <2>3. QED BY <2>1, <2>2
<1>4. pa' = pa + SECT /\ offset' = offset + 1 BY DEF TakeData
<1>5. QED BY <1>0, <1>2, <1>3, <1>4

\* Steps that change neither memory nor the loader's variables keep the
\* invariant, if where they lead to promises no more than where they are.
LEMMA Settled ==
  ASSUME LoaderInv, Controlled', buf' \in Int,
         UNCHANGED <<file, mem, ret, pa, epa, offset, n>>,
         \/ pc' = pc
         \/ /\ pc \in Gated \cup {"protect"}
            /\ pc' \in Gated \cup {"protect", "start"}
         \/ pc = "issue" /\ pc' = "data"
         \/ pc \in EntryPcs /\ pc' \in EntryPcs
         \/ pc' \notin (BootPcs \ {"failed"}) \cup EntryPcs
  PROVE  LoaderInv'
<1>1. Typed' BY DEF LoaderInv, Typed
<1>2. Kept' = Kept /\ H' = H /\ Image' = Image /\ Bss' = Bss
  BY DEF Kept, H, Image, Bss
<1>3. (Early' => Early) /\ (Late' => Late)
  BY DEF Early, Late, Reading, Gated, BootPcs, EntryPcs
<1>4. HeaderInv'
  BY <1>2, <1>3 DEF LoaderInv, HeaderInv
<1>5. SearchInv'
  BY DEF LoaderInv, SearchInv, Reading, Segment, BootPcs, EntryPcs, Gated
<1>6. LoadInv'
  <2>1. Segment(H.load_addr, n - (H.header_addr - H.load_addr))' <=>
        Segment(H.load_addr, n - (H.header_addr - H.load_addr))
    BY DEF Segment, H
  <2>2. /\ Reading("clear")' => Reading("clear")
        /\ (pc = "clear")' => pc = "clear"
        /\ (pc \in EntryPcs)' => pc \in EntryPcs
    BY DEF Reading, BootPcs, EntryPcs, Gated
  <2>3. Acceptable(H)' = Acceptable(H) BY <1>2 DEF H
  <2>4. QED BY <1>2, <2>1, <2>2, <2>3 DEF LoaderInv, LoadInv, H
<1>7. QED BY <1>1, <1>4, <1>5, <1>6 DEF LoaderInv

LEMMA ReadHeaderKeeps == LoaderInv /\ ReadHeader => LoaderInv'
<1> SUFFICES ASSUME LoaderInv, ReadHeader PROVE LoaderInv'
  OBVIOUS
<1>1. /\ pc = "start" /\ readseg(SCRATCH, HDRMAX, 0, "search")
      /\ UNCHANGED <<file, mem, n, buf, ready, a20>>
  BY DEF ReadHeader, disk, gate
<1>2. /\ pa' = SCRATCH + (offset' - 1) * SECT - 0 /\ pa' <= SCRATCH
      /\ SCRATCH - pa' < SECT /\ pa' \in Int /\ offset' \in Int
      /\ epa' = SCRATCH + HDRMAX /\ pc' = "issue" /\ ret' = "search"
  BY <1>1, SegmentStarts, Constants DEF LoaderInv
<1>3. Typed' BY <1>1, <1>2, Constants DEF LoaderInv, Typed
<1>4. Controlled' BY <1>1, <1>2 DEF LoaderInv, Controlled, Gated
<1>5. Early /\ n = 0
  BY <1>1 DEF Early, LoaderInv, HeaderInv
<1>6. HeaderInv'
  BY <1>1, <1>2, <1>5 DEF HeaderInv, Late, Reading, EntryPcs
<1>7. SearchInv'
  <2>0. pa' \in Int /\ pa' <= SCRATCH BY <1>2
  <2>1. \A a \in 0 .. MEM - 1 : ~(SCRATCH <= a /\ a < pa')
    BY <2>0, Constants
  <2>2. Segment(SCRATCH, 0)' BY <1>2, <2>1 DEF Segment
  <2>3. QED BY <1>2, <2>2 DEF SearchInv
<1>8. LoadInv'
  BY <1>2 DEF LoadInv, Reading, EntryPcs
<1>9. QED BY <1>3, <1>4, <1>6, <1>7, <1>8 DEF LoaderInv

LEMMA SearchKeeps == LoaderInv /\ Search => LoaderInv'
<1> SUFFICES ASSUME LoaderInv, Search PROVE LoaderInv'
  OBVIOUS
<1>1. /\ pc = "search" /\ pc' \in {"load", "failed"}
      /\ UNCHANGED <<file, mem, ret, pa, epa, offset, buf, ready, a20>>
  BY DEF Search, disk, gate
<1>2. \A k \in 0 .. HDRMAX - 1 : mem[SCRATCH + k] = k
  BY <1>1 DEF LoaderInv, SearchInv
<1>3. Controlled' BY <1>1 DEF LoaderInv, Controlled, Gated
<1>4. CASE \E k \in 0 .. HDRMAX - 1 : IsHeader(k) /\ n' = k /\ pc' = "load"
  <2>1. n' \in 0 .. HDRMAX - 1 /\ IsHeader(n') /\ pc' = "load" BY <1>4
  <2>2. n' \in DOMAIN file /\ file[n'].fits
    BY <1>2, <2>1 DEF IsHeader
  <2>3. n' \in Nat /\ n' + HLEN <= HDRMAX
    BY <2>2, HeaderFacts DEF LoaderInv, Typed
  <2>4. \A k \in 0 .. HLEN - 1 : mem[SCRATCH + n' + k] = n' + k
    <3> SUFFICES ASSUME NEW k \in 0 .. HLEN - 1
                 PROVE  mem[SCRATCH + n' + k] = n' + k
      OBVIOUS
    <3>1. /\ n' + k \in 0 .. HDRMAX - 1
          /\ SCRATCH + (n' + k) = SCRATCH + n' + k
      BY <2>3, InHeader, Zenon
    <3>2. mem[SCRATCH + (n' + k)] = n' + k BY <3>1, <1>2
    <3>3. QED BY <3>1, <3>2
  <2>5. Typed' BY <1>1, <2>3 DEF LoaderInv, Typed
  <2>6. HeaderInv'
    BY <1>1, <2>1, <2>2, <2>4
       DEF HeaderInv, Kept, Early, Reading, Gated, H
  <2>7. SearchInv' /\ LoadInv'
    BY <2>1 DEF SearchInv, LoadInv, Reading, EntryPcs
  <2>8. QED BY <1>3, <2>5, <2>6, <2>7 DEF LoaderInv
<1>5. CASE pc' = "failed" /\ n' = n
  BY <1>1, <1>3, <1>5, Settled DEF LoaderInv, Typed, BootPcs, EntryPcs
<1>6. QED BY <1>4, <1>5 DEF Search

LEMMA LoadKeeps == LoaderInv /\ Load => LoaderInv'
<1> SUFFICES ASSUME LoaderInv, Load PROVE LoaderInv'
  OBVIOUS
<1>1. /\ pc = "load"
      /\ UNCHANGED <<file, mem, n, buf, ready, a20>>
  BY DEF Load, disk, gate
<1>2. Kept /\ n \in DOMAIN file /\ file[n].fits /\ file \in Images
  BY <1>1 DEF LoaderInv, HeaderInv, Late, H, Typed
<1>3. hdr = H BY <1>2, HdrIsH, HeaderFacts
<1>4. CASE Acceptable(H)
  <2> DEFINE to == H.load_addr
             off == n - (H.header_addr - H.load_addr)
  <2>1. /\ to \in Nat /\ off \in Nat /\ H.load_end_addr \in Nat
        /\ to + (H.load_end_addr - to) = H.load_end_addr
    BY <1>2, <1>4, HeaderFacts DEF H
  <2>2. readseg(to, H.load_end_addr - to, off, "clear")
    BY <1>3, <1>4 DEF Load
  <2>3. /\ pa' = to + (offset' - 1) * SECT - off /\ pa' <= to
        /\ to - pa' < SECT /\ pa' \in Int /\ offset' \in Int
        /\ epa' = H.load_end_addr /\ pc' = "issue" /\ ret' = "clear"
    <3>1. H.load_end_addr - to \in Int BY <2>1
    <3> HIDE DEF to, off
    <3>2. QED BY <2>1, <2>2, <3>1, SegmentStarts DEF LoaderInv
  <2>4. to' = to /\ off' = off /\ H' = H BY <1>1 DEF H
  <2>5. Typed' BY <1>1, <2>1, <2>3 DEF LoaderInv, Typed
  <2>6. Controlled' BY <1>1, <2>3 DEF LoaderInv, Controlled, Gated
  <2>7. HeaderInv' BY <1>1, <1>2, <2>3
    DEF HeaderInv, Early, Reading, Gated, Kept, H
  <2>8. SearchInv' BY <2>3 DEF SearchInv, Reading
  <2>9. LoadInv'
    <3>1. \A a \in 0 .. MEM - 1 : ~(to <= a /\ a < pa')
      <4>1. to \in Nat /\ pa' \in Int /\ pa' <= to BY <2>1, <2>3
      <4> HIDE DEF to
      <4>2. QED BY <4>1, Constants
    <3>2. Segment(to, off)' BY <2>3, <2>4, <3>1 DEF Segment
    <3>3. Acceptable(H)' BY <1>4, <2>4 DEF Acceptable
    <3>4. QED BY <2>3, <2>4, <3>2, <3>3 DEF LoadInv, EntryPcs
  <2>10. QED BY <2>5, <2>6, <2>7, <2>8, <2>9 DEF LoaderInv
<1>5. CASE ~Acceptable(H)
  <2>1. pc' = "failed" /\ UNCHANGED <<ret, pa, epa, offset>>
    BY <1>3, <1>5 DEF Load
  <2>2. Controlled' BY <1>1, <2>1 DEF LoaderInv, Controlled, Gated
  <2>3. QED
    BY <1>1, <2>1, <2>2, Settled DEF LoaderInv, Typed, BootPcs, EntryPcs
<1>6. QED BY <1>4, <1>5

LEMMA IssueKeeps == LoaderInv /\ Issue => LoaderInv'
<1> SUFFICES ASSUME LoaderInv, Issue PROVE LoaderInv'
  OBVIOUS
<1>1. /\ pc = "issue" /\ a20' = a20
      /\ UNCHANGED <<file, mem, ret, pa, epa, offset, n, buf>>
  BY DEF Issue, IssueIf, gate
<1>2. buf \in Int /\ pa \in Int /\ epa \in Int /\ n \in Nat /\ file \in Images
  BY DEF LoaderInv, Typed
<1>3. CASE pa < epa
  <2>1. pc' = "data" /\ ready' = 0 BY <1>3 DEF Issue, IssueIf
  <2>2. Controlled' BY <1>1, <2>1 DEF LoaderInv, Controlled, Gated
  <2>3. QED BY <1>1, <1>2, <2>1, <2>2, Settled
<1>4. CASE ~(pa < epa)
  <2>1. pc' = ret /\ ready' = ready BY <1>4 DEF Issue, IssueIf
  <2>2. ret \in {"search", "clear"}
    BY <1>1 DEF LoaderInv, Controlled
  <2>3. Typed' BY <1>1 DEF LoaderInv, Typed
  <2>4. Controlled' BY <1>1, <2>1, <2>2 DEF LoaderInv, Controlled, Gated
  <2>5. CASE ret = "search"
    <3>1. n = 0 /\ Segment(SCRATCH, 0) /\ epa = SCRATCH + HDRMAX
      BY <1>1, <2>5 DEF LoaderInv, HeaderInv, SearchInv, Early, Reading
    <3>2. \A a \in 0 .. MEM - 1 :
            SCRATCH <= a /\ a < pa => mem[a] = 0 + (a - SCRATCH)
      BY <3>1 DEF Segment
    <3>3. \A k \in 0 .. HDRMAX - 1 : mem[SCRATCH + k] = k
      <4> SUFFICES ASSUME NEW k \in 0 .. HDRMAX - 1
                   PROVE  mem[SCRATCH + k] = k
        OBVIOUS
      <4>1. /\ SCRATCH + k \in 0 .. MEM - 1 /\ SCRATCH <= SCRATCH + k
            /\ SCRATCH + k < SCRATCH + HDRMAX
            /\ 0 + ((SCRATCH + k) - SCRATCH) = k
        BY Constants
      <4>2. pa >= SCRATCH + HDRMAX BY <1>2, <1>4, <3>1
      <4>3. SCRATCH + k < pa BY <1>2, <4>1, <4>2, Constants
      <4>4. QED BY <3>2, <4>1, <4>3
    <3>4. SearchInv'
      BY <1>1, <2>1, <2>5, <3>3 DEF SearchInv, Reading
    <3>5. HeaderInv'
      BY <1>1, <2>1, <2>5, <3>1 DEF HeaderInv, Late, Reading, EntryPcs
    <3>6. LoadInv' BY <2>1, <2>5, <1>1 DEF LoadInv, Reading, EntryPcs
    <3>7. QED BY <2>3, <2>4, <3>4, <3>5, <3>6 DEF LoaderInv
  <2>6. CASE ret = "clear"
    <3> DEFINE to == H.load_addr
               off == n - (H.header_addr - H.load_addr)
    <3>1. Kept /\ n \in DOMAIN file /\ H.fits
      BY <1>1, <2>6 DEF LoaderInv, HeaderInv, Late, Reading
    <3>2. Acceptable(H) /\ Segment(to, off) /\ epa = H.load_end_addr
      BY <1>1, <2>6 DEF LoaderInv, LoadInv, Reading
    <3>3. /\ to \in Nat /\ H.header_addr \in Nat /\ off \in Nat
      BY <1>2, <3>1, <3>2, HeaderFacts DEF H
    <3>4. Image
      <4> SUFFICES ASSUME NEW a \in 0 .. MEM - 1, to <= a, a < H.load_end_addr
                   PROVE  mem[a] = n + (a - H.header_addr)
        BY DEF Image
      <4>1. a < pa BY <1>2, <1>4, <3>2, Constants
      <4>2. mem[a] = off + (a - to) BY <3>2, <4>1 DEF Segment
      <4>3. off + (a - to) = n + (a - H.header_addr)
        BY <1>2, <3>3, Constants
      <4>4. QED BY <4>2, <4>3
    <3>5. H' = H /\ Kept' = Kept /\ Image' = Image
      BY <1>1 DEF H, Kept, Image
    <3>6. HeaderInv'
      BY <1>1, <2>1, <2>6, <3>1, <3>5
         DEF HeaderInv, Early, Reading, Gated
    <3>7. SearchInv' BY <2>1, <2>6 DEF SearchInv, Reading
    <3>8. LoadInv'
      BY <2>1, <2>6, <3>2, <3>4, <3>5 DEF LoadInv, Reading, EntryPcs, H
    <3>9. QED BY <2>3, <2>4, <3>6, <3>7, <3>8 DEF LoaderInv
  <2>7. QED BY <2>2, <2>5, <2>6
<1>5. QED BY <1>3, <1>4

\* What readsect appends to a segment.
LEMMA SegmentGrows ==
  ASSUME Typed, a20 = 1, buf = offset, TakeData,
         NEW to \in Nat, NEW off \in Nat, Segment(to, off)
  PROVE  /\ pa' = to + (offset' - 1) * SECT - off
         /\ to - pa' < SECT
         /\ \A a \in 0 .. MEM - 1 :
              to <= a /\ a < pa' => mem'[a] = off + (a - to)
<1> DEFINE base == (offset - 1) * SECT
<1>0. pa \in Int /\ base \in Int
  BY NextSector, Constants DEF Typed
<1>1. pa = to + base - off /\ to - pa < SECT
  BY DEF Segment
<1>2. /\ \A a \in 0 .. MEM - 1 :
           mem'[a] = IF pa <= a /\ a < pa + SECT
                       THEN base + (a - pa) ELSE mem[a]
      /\ pa' = pa + SECT /\ (offset' - 1) * SECT = base + SECT
  BY SectorTaken
<1> HIDE DEF base
<1>3. pa' = to + (offset' - 1) * SECT - off
  <2>1. pa + SECT = to + (base + SECT) - off
    BY <1>0, <1>1, Constants
  <2>2. QED BY <1>2, <2>1
<1>4. to - pa' < SECT BY <1>0, <1>1, <1>2, Constants
<1>5. ASSUME NEW a \in 0 .. MEM - 1, to <= a, a < pa'
      PROVE  mem'[a] = off + (a - to)
  <2>1. CASE a < pa
    <3>1. mem'[a] = mem[a] BY <1>0, <1>2, <2>1, Constants
    <3>2. QED BY <2>1, <3>1, <1>5 DEF Segment
  <2>2. CASE pa <= a
    <3>1. mem'[a] = base + (a - pa) BY <1>2, <1>5, <2>2
    <3>2. base + (a - pa) = off + (a - to) BY <1>0, <1>1, Constants
    <3>3. QED BY <3>1, <3>2
  <2>3. QED BY <1>0, <2>1, <2>2, Constants
<1>6. QED BY <1>3, <1>4, <1>5

LEMMA ReadDataKeeps == LoaderInv /\ ReadData => LoaderInv'
<1> SUFFICES ASSUME LoaderInv, ReadData PROVE LoaderInv'
  OBVIOUS
<1>1. /\ pc = "data" /\ pc' = "issue" /\ TakeData
      /\ UNCHANGED <<file, ret, epa, n, buf, ready, a20>>
  BY DEF ReadData, TakeData, disk, gate
<1>2. Typed /\ a20 = 1 /\ buf = offset /\ ret \in {"search", "clear"}
  BY DEF ReadData, LoaderInv, Controlled, Gated
<1>3. /\ mem' \in [0 .. MEM - 1 -> Int]
      /\ \A a \in 0 .. MEM - 1 : a < pa => mem'[a] = mem[a]
      /\ pa' = pa + SECT /\ offset' = offset + 1
  <2>1. pa \in Int BY <1>2 DEF Typed
  <2>2. QED BY <1>1, <1>2, <2>1, SectorTaken, Constants
<1>4. Typed' BY <1>1, <1>2, <1>3, Constants DEF Typed
<1>5. Controlled' BY <1>1, <1>2 DEF Controlled, Gated
<1>6. CASE ret = "search"
  <2>1. n = 0 /\ Segment(SCRATCH, 0) /\ epa = SCRATCH + HDRMAX
    BY <1>1, <1>6 DEF LoaderInv, HeaderInv, SearchInv, Early, Reading
  <2>2. Segment(SCRATCH, 0)'
    BY <1>1, <1>2, <2>1, SegmentGrows, Constants DEF Segment
  <2>3. SearchInv' BY <1>1, <2>1, <2>2 DEF SearchInv
  <2>4. HeaderInv'
    BY <1>1, <1>6, <2>1 DEF HeaderInv, Late, Reading, EntryPcs
  <2>5. LoadInv' BY <1>1, <1>6 DEF LoadInv, Reading, EntryPcs
  <2>6. QED BY <1>4, <1>5, <2>3, <2>4, <2>5 DEF LoaderInv
<1>7. CASE ret = "clear"
  <2> DEFINE to == H.load_addr
             off == n - (H.header_addr - H.load_addr)
  <2>1. Kept /\ n \in DOMAIN file /\ H.fits
    BY <1>1, <1>7 DEF LoaderInv, HeaderInv, Late, Reading
  <2>2. Acceptable(H) /\ Segment(to, off) /\ epa = H.load_end_addr
    BY <1>1, <1>7 DEF LoaderInv, LoadInv, Reading
  <2>3. /\ n \in Nat /\ n + HLEN <= HDRMAX
        /\ to \in Nat /\ off \in Nat /\ to >= SCRATCH + HDRMAX + SECT
    BY <1>2, <2>1, <2>2, HeaderFacts DEF H, Typed
  <2>4. H' = H /\ to' = to /\ off' = off /\ n' = n BY <1>1 DEF H
  <2>5. /\ pa' = to + (offset' - 1) * SECT - off
        /\ to - pa' < SECT
        /\ \A a \in 0 .. MEM - 1 :
             to <= a /\ a < pa' => mem'[a] = off + (a - to)
    <3> HIDE DEF to, off
    <3>1. QED BY <1>1, <1>2, <2>2, <2>3, SegmentGrows
  <2>6. Segment(to, off)' BY <2>4, <2>5 DEF Segment
  <2>7. Kept'
    <3> SUFFICES ASSUME NEW k \in 0 .. HLEN - 1
                 PROVE  mem'[SCRATCH + n + k] = n + k
      BY <2>4 DEF Kept
    <3>1. /\ n + k \in 0 .. HDRMAX - 1
          /\ SCRATCH + (n + k) = SCRATCH + n + k
      BY <2>3, InHeader
    <3>2. pa \in Int /\ to - pa < SECT BY <1>2, <2>2 DEF Typed, Segment
    <3> HIDE DEF to
    <3>3. pa > SCRATCH + HDRMAX BY <2>3, <3>2, Constants
    <3>4. SCRATCH + n + k \in 0 .. MEM - 1 /\ SCRATCH + n + k < pa
      BY <3>1, <3>2, <3>3, Constants
    <3>5. QED BY <1>3, <2>1, <3>4 DEF Kept
  <2>8. HeaderInv'
    BY <1>1, <1>7, <2>1, <2>4, <2>7
       DEF HeaderInv, Early, Reading, Gated
  <2>9. SearchInv' BY <1>1, <1>7 DEF SearchInv, Reading
  <2>10. LoadInv'
    <3>1. Acceptable(H)' BY <2>2, <2>4 DEF Acceptable
    <3>2. (epa = H.load_end_addr)' BY <1>1, <2>2, <2>4
    <3>3. QED BY <1>1, <2>4, <2>6, <3>1, <3>2 DEF LoadInv, EntryPcs
  <2>11. QED BY <1>4, <1>5, <2>8, <2>9, <2>10 DEF LoaderInv
<1>8. QED BY <1>2, <1>6, <1>7

LEMMA EnterKeeps == LoaderInv /\ Enter => LoaderInv'
<1> SUFFICES ASSUME LoaderInv, Enter PROVE LoaderInv'
  OBVIOUS
<1>1. /\ pc = "clear" /\ pc' = "entry"
      /\ UNCHANGED <<file, ret, pa, epa, offset, n, buf, ready, a20>>
  BY DEF Enter, loader, disk, gate
<1>2. Typed /\ a20 = 1 BY <1>1 DEF LoaderInv, Controlled, Gated
<1>3. /\ Kept /\ n \in DOMAIN file /\ H.fits
      /\ Acceptable(H) /\ Image
  BY <1>1 DEF LoaderInv, HeaderInv, LoadInv, Late
<1>4. /\ n \in Nat /\ n + HLEN <= HDRMAX
      /\ H.load_addr \in Nat /\ H.load_end_addr \in Nat
      /\ H.bss_end_addr \in Nat /\ H.load_addr <= H.load_end_addr
      /\ H.load_addr >= SCRATCH + HDRMAX + SECT
  BY <1>2, <1>3, HeaderFacts DEF H, Typed
<1>5. hdr = H BY <1>3, <1>4, HdrIsH
<1>6. mem' = [a \in 0 .. MEM - 1 |->
                IF H.load_end_addr <= a /\ a < H.bss_end_addr
                  THEN ZERO ELSE mem[a]]
  <2>1. \A b \in H.load_end_addr .. H.bss_end_addr - 1 : Bus(b) = b
    BY <1>2 DEF Bus
  <2>2. \A a \in 0 .. MEM - 1 :
          a \in {Bus(b) : b \in H.load_end_addr .. H.bss_end_addr - 1} <=>
          H.load_end_addr <= a /\ a < H.bss_end_addr
    BY <1>4, <2>1, Constants
  <2>3. QED BY <1>5, <2>2 DEF Enter
<1>7. H' = H BY <1>1 DEF H
<1>8. Typed'
  <2>1. ZERO \in Int BY Constants DEF ZERO
  <2>2. QED BY <1>1, <1>2, <1>6, <2>1 DEF Typed
<1>9. Controlled' BY <1>1, <1>2 DEF Controlled, Gated
<1>10. Image'
  BY <1>1, <1>3, <1>4, <1>6, <1>7, Constants DEF Image
<1>11. Bss' BY <1>6, <1>7 DEF Bss
<1>12. Kept'
  <2> SUFFICES ASSUME NEW k \in 0 .. HLEN - 1
               PROVE  mem'[SCRATCH + n + k] = n + k
    BY <1>1 DEF Kept
  <2>1. /\ n + k \in 0 .. HDRMAX - 1
        /\ SCRATCH + (n + k) = SCRATCH + n + k
    BY <1>4, InHeader
  <2>2. /\ SCRATCH + n + k \in 0 .. MEM - 1
        /\ SCRATCH + n + k < H.load_end_addr
    BY <1>4, <2>1, Constants
  <2>3. mem'[SCRATCH + n + k] = mem[SCRATCH + n + k]
    BY <1>4, <1>6, <2>2, Constants
  <2>4. QED BY <1>3, <2>3 DEF Kept
<1>13. HeaderInv' BY <1>1, <1>3, <1>7, <1>12
  DEF HeaderInv, Early, Reading, Gated
<1>14. SearchInv' BY <1>1 DEF SearchInv, Reading
<1>15. LoadInv'
  <2>1. Acceptable(H)' BY <1>3, <1>7 DEF Acceptable
  <2>2. QED BY <1>1, <1>10, <1>11, <2>1 DEF LoadInv, Reading
<1>16. QED BY <1>8, <1>9, <1>13, <1>14, <1>15 DEF LoaderInv

LEMMA BuildTablesKeeps == LoaderInv /\ BuildTables => LoaderInv'
<1> SUFFICES ASSUME LoaderInv, BuildTables PROVE LoaderInv'
  OBVIOUS
<1>1. /\ pc = "entry" /\ pc' = "entry32"
      /\ UNCHANGED <<file, ret, pa, epa, offset, n, buf, ready, a20>>
      /\ mem' = [a \in 0 .. MEM - 1 |->
                   IF a \in BOOTPT .. BOOTPT + 2 THEN TABLE ELSE mem[a]]
  BY DEF BuildTables, loader, disk, gate
<1>2. Typed /\ a20 = 1 BY <1>1 DEF LoaderInv, Controlled, Gated
<1>3. /\ Kept /\ n \in DOMAIN file /\ H.fits
      /\ Acceptable(H) /\ Image /\ Bss
  BY <1>1 DEF LoaderInv, HeaderInv, LoadInv, Late, EntryPcs
<1>4. /\ n \in Nat /\ n + HLEN <= HDRMAX
      /\ H.load_addr \in Nat /\ H.load_end_addr \in Nat
      /\ H.load_addr <= H.load_end_addr
      /\ H.load_addr >= SCRATCH + HDRMAX + SECT
  BY <1>2, <1>3, HeaderFacts DEF H, Typed
<1>5. \A a \in 0 .. MEM - 1 : SCRATCH <= a => mem'[a] = mem[a]
  BY <1>1, Constants
<1>6. H' = H BY <1>1 DEF H
<1>7. Typed'
  <2>1. TABLE \in Int BY Constants DEF TABLE
  <2>2. QED BY <1>1, <1>2, <2>1 DEF Typed
<1>8. Controlled' BY <1>1, <1>2 DEF Controlled, Gated
<1>9. Image' /\ Bss'
  <2>1. \A a \in 0 .. MEM - 1 : H.load_addr <= a => SCRATCH <= a
    BY <1>4, Constants
  <2>2. \A a \in 0 .. MEM - 1 : H.load_end_addr <= a => H.load_addr <= a
    BY <1>4, Constants
  <2>3. QED BY <1>1, <1>3, <1>5, <1>6, <2>1, <2>2 DEF Image, Bss
<1>10. Kept'
  <2> SUFFICES ASSUME NEW k \in 0 .. HLEN - 1
               PROVE  mem'[SCRATCH + n + k] = n + k
    BY <1>1 DEF Kept
  <2>1. /\ n + k \in 0 .. HDRMAX - 1
        /\ SCRATCH + (n + k) = SCRATCH + n + k
    BY <1>4, InHeader
  <2>2. SCRATCH + n + k \in 0 .. MEM - 1 /\ SCRATCH <= SCRATCH + n + k
    BY <1>4, <2>1, Constants
  <2>3. QED BY <1>3, <1>5, <2>2 DEF Kept
<1>11. HeaderInv' BY <1>1, <1>3, <1>6, <1>10
  DEF HeaderInv, Early, Reading, Gated
<1>12. SearchInv' BY <1>1 DEF SearchInv, Reading
<1>13. LoadInv'
  <2>1. Acceptable(H)' BY <1>3, <1>6 DEF Acceptable
  <2>2. QED BY <1>1, <1>9, <2>1 DEF LoadInv, Reading
<1>14. QED BY <1>7, <1>8, <1>11, <1>12, <1>13 DEF LoaderInv

LEMMA BootKeeps == LoaderInv /\ BootNext => LoaderInv'
<1> SUFFICES ASSUME LoaderInv, BootNext PROVE LoaderInv'
  OBVIOUS
<1>0. buf \in Int /\ offset \in Int /\ Controlled
  BY DEF LoaderInv, Typed
<1> USE DEF loader, disk, gate, cpu
<1>1. CASE Cli \/ SetA20Command \/ SetA20Data \/ KbcReady \/ Protect
  <2>1. /\ UNCHANGED <<file, mem, ret, pa, epa, offset, n, buf, ready>>
        /\ \/ pc' = pc
           \/ /\ pc \in Gated \cup {"protect"}
              /\ pc' \in Gated \cup {"protect", "start"}
    BY <1>1 DEF Cli, SetA20Command, SetA20Data, SendA20, KbcReady, Protect,
                Gated
  <2>2. Controlled'
    BY <1>0, <1>1, <2>1
       DEF Controlled, Cli, SetA20Command, SetA20Data, SendA20, KbcReady,
           Protect, Gated
  <2>3. QED BY <1>0, <2>1, <2>2, Settled, SMTT(30)
<1>2. CASE DiskReady
  <2>1. UNCHANGED <<file, mem, ret, pa, epa, offset, n, pc, a20, on>>
    BY <1>2 DEF DiskReady
  <2>2. buf' \in Int /\ (pc = "data" => buf' = offset)
    BY <1>0, <1>2 DEF DiskReady
  <2>3. Controlled' BY <1>0, <2>1, <2>2 DEF Controlled
  <2>4. QED BY <2>1, <2>2, <2>3, Settled
<1>3. CASE \/ LoadRoot \/ EnablePAE \/ EnableLME \/ EnablePG
           \/ JumpHigh \/ EnterMain
  <2>1. /\ UNCHANGED <<file, mem, ret, pa, epa, offset, n, buf, ready, a20>>
        /\ pc \in EntryPcs /\ pc' \in EntryPcs \cup {"fault"}
    BY <1>3 DEF LoadRoot, EnablePAE, EnableLME, EnablePG, Enable, JumpHigh,
                EnterMain, Reaching, EntryPcs
  <2>2. Controlled' BY <1>0, <2>1, SMTT(30) DEF Controlled, Gated, EntryPcs
  <2>3. QED BY <1>0, <2>1, <2>2, Settled, SMTT(30) DEF BootPcs, EntryPcs
<1>4. QED
  BY <1>1, <1>2, <1>3, ReadHeaderKeeps, SearchKeeps, LoadKeeps, EnterKeeps,
     IssueKeeps, ReadDataKeeps, BuildTablesKeeps
     DEF BootNext

-----------------------------------------------------------------------------
(* The rest of the startup *)

\* The kernel's startup, the devices and interrupts leave memory, as far as
\* the loader's promises go, alone.
LEMMA OtherSteps ==
  ASSUME LoaderInv, Next, ~BootNext
  PROVE  /\ UNCHANGED <<file, mem, ret, pa, epa, offset, n, buf, ready, a20>>
         /\ \/ pc' = pc /\ on' = on
            \/ /\ pc \notin Gated
               /\ pc' \notin (BootPcs \ {"failed"}) \cup EntryPcs
<1> USE DEF still, bootvars, loader, disk, gate, cpu
<1>1. CASE UartStep \/ AcpiCall \/ AcpiRun \/ IpiDelivered \/ TimerFires
  BY <1>1 DEF UartStep, AcpiCall, AcpiRun, IpiDelivered, TimerFires
<1>2. CASE UartEarlyInit \/ KallocInit \/ PagingInit \/ AcpiReturn
  BY <1>2, SMTT(30)
     DEF UartEarlyInit, KallocInit, PagingInit, AcpiReturn, Reaching, Gated,
         BootPcs, EntryPcs
<1>3. CASE LapicInit \/ LapicReady \/ TrapFind
  BY <1>3, SMTT(30)
     DEF LapicInit, LapicWrites, LapicReady, TrapFind, WithLapicId, Reaching,
         Gated, BootPcs, EntryPcs
<1>4. CASE TrapTables \/ TrapSegments \/ ProcInit \/ IdleMain
  BY <1>4, SMTT(30)
     DEF TrapTables, TrapSegments, ProcInit, IdleMain, Reaching, Gated,
         BootPcs, EntryPcs
<1>5. CASE Interrupt
  <2>1. pc \in Gated => "PE" \notin on BY DEF LoaderInv, Controlled
  <2>2. QED BY <1>5, <2>1 DEF Interrupt, Gated, BootPcs, EntryPcs
<1>6. QED BY <1>1, <1>2, <1>3, <1>4, <1>5, SMTT(30) DEF Next

LEMMA LoaderInductive == LoaderInv /\ [Next]_vars => LoaderInv'
<1> SUFFICES ASSUME LoaderInv, [Next]_vars PROVE LoaderInv'
  OBVIOUS
<1>1. CASE BootNext BY <1>1, BootKeeps
<1>2. CASE Next /\ ~BootNext
  <2>1. buf \in Int /\ Controlled BY DEF LoaderInv, Typed
  <2>2. Controlled'
    BY <1>2, <2>1, OtherSteps, SMTT(30) DEF Controlled, Gated, BootPcs
  <2>3. QED BY <1>2, <2>1, <2>2, OtherSteps, Settled, ZenonT(30)
<1>3. CASE UNCHANGED vars
  <2>1. UNCHANGED <<file, mem, ret, pa, epa, offset, n, buf, ready, a20, pc,
                    on>>
    BY <1>3 DEF vars, bootvars, loader, disk, gate, cpu
  <2>2. buf \in Int /\ Controlled BY DEF LoaderInv, Typed
  <2>3. Controlled' BY <2>1, <2>2 DEF Controlled
  <2>4. QED BY <2>1, <2>2, <2>3, Settled
<1>4. QED BY <1>1, <1>2, <1>3

LEMMA LoaderInitial == Init => LoaderInv
<1> SUFFICES ASSUME Init PROVE LoaderInv
  OBVIOUS
<1>1. BootInit BY DEF Init
<1>2. JUNK \in Int BY Constants DEF JUNK
<1>3. Typed BY <1>1, <1>2 DEF BootInit, Typed
<1>4. QED
  BY <1>1, <1>3
     DEF BootInit, LoaderInv, Controlled, HeaderInv, SearchInv, LoadInv, Late,
         Reading, Gated, EntryPcs

\* The loader's invariant holds of every machine from power on.
THEOREM LoaderCorrect == Spec => []LoaderInv
BY LoaderInitial, LoaderInductive, PTL DEF Spec

\* Whatever the sector size and the image, readseg's copies of whole sectors
\* leave the header that bootmain works from alone.
THEOREM HeaderStays == Spec => []HeaderKept
<1>1. LoaderInv => HeaderKept
  BY DEF LoaderInv, HeaderInv, Kept, HeaderKept
<1>2. QED BY <1>1, LoaderCorrect, PTL

\* Every image that has an acceptable header is in place, with its bss clear,
\* when the kernel is entered and until main starts.
THEOREM ImageInPlace == Spec => []ImageLoaded
<1>1. LoaderInv => ImageLoaded
  <2> SUFFICES ASSUME LoaderInv, pc \in EntryPcs
               PROVE  /\ \A a \in hdr.load_addr .. hdr.load_end_addr - 1 :
                           mem[a] = n + (a - hdr.header_addr)
                      /\ \A a \in hdr.load_end_addr .. hdr.bss_end_addr - 1 :
                           mem[a] = ZERO
    BY DEF ImageLoaded
  <2>1. /\ Kept /\ n \in DOMAIN file /\ H.fits /\ file \in Images
        /\ Acceptable(H) /\ Image /\ Bss
    BY DEF LoaderInv, HeaderInv, LoadInv, Late, Typed
  <2>2. /\ n \in Nat /\ H.load_addr \in Nat /\ H.load_end_addr \in Nat
        /\ H.bss_end_addr \in Nat /\ H.load_addr <= H.load_end_addr
        /\ H.load_end_addr + SECT - 1 <= MEM /\ H.bss_end_addr <= MEM
    BY <2>1, HeaderFacts DEF H
  <2>3. hdr = H BY <2>1, <2>2, HdrIsH
  <2>4. \A a \in H.load_addr .. H.load_end_addr - 1 :
          a \in 0 .. MEM - 1 /\ H.load_addr <= a /\ a < H.load_end_addr
    BY <2>2, Constants
  <2>5. \A a \in H.load_end_addr .. H.bss_end_addr - 1 :
          a \in 0 .. MEM - 1 /\ H.load_end_addr <= a /\ a < H.bss_end_addr
    BY <2>2, Constants
  <2>6. QED BY <2>1, <2>3, <2>4, <2>5 DEF Image, Bss
<1>2. QED BY <1>1, LoaderCorrect, PTL
-----------------------------------------------------------------------------
(* The serial line *)

Held == IF thr = 0 THEN 0 ELSE 1

\* What is on the line and in the register is in order and older than p, and
\* with what was lost makes up all that was given to uartputc.
UartInv ==
  /\ line \in Seq(Nat) /\ thr \in Nat /\ p \in Nat /\ lost \in Nat
  /\ thr < p
  /\ \A j \in 1 .. Len(line) : line[j] < p /\ (thr # 0 => line[j] < thr)
  /\ \A j, k \in 1 .. Len(line) : j < k => line[j] < line[k]
  /\ Len(line) + lost + Held = p - 1

LEMMA PutcKeeps == UartInv /\ Putc => UartInv'
<1> SUFFICES ASSUME UartInv, Putc PROVE UartInv'
  OBVIOUS
<1>1. /\ thr' = p /\ p' = p + 1 /\ line' = line
      /\ lost' = IF thr # 0 THEN lost + 1 ELSE lost
  BY DEF Putc, Send
<1>2. /\ line \in Seq(Nat) /\ thr \in Nat /\ p \in Nat /\ lost \in Nat
      /\ thr < p /\ Len(line) \in Nat
      /\ Len(line) + lost + Held = p - 1
  BY DEF UartInv
<1>3. Held' = 1 BY <1>1, <1>2 DEF Held
<1>4. Len(line) + lost' + 1 = p
  BY <1>1, <1>2 DEF Held
<1>5. \A j \in 1 .. Len(line) : line[j] \in Nat /\ line[j] < p
  BY <1>2 DEF UartInv
<1>6. \A j \in 1 .. Len(line) : line[j] < p + 1
  BY <1>2, <1>5
<1>7. lost' \in Nat /\ p + 1 - 1 = p /\ p < p + 1 /\ p + 1 \in Nat
  BY <1>1, <1>2
<1>8. \A j, k \in 1 .. Len(line) : j < k => line[j] < line[k]
  BY DEF UartInv
<1>9. QED BY <1>1, <1>2, <1>3, <1>4, <1>5, <1>6, <1>7, <1>8 DEF UartInv

LEMMA TransmitKeeps ==
  ASSUME UartInv, NEW port, Transmit(port)
  PROVE  UartInv'
<1>1. /\ thr # 0 /\ thr' = 0 /\ line' = Append(line, thr)
      /\ p' = p /\ lost' = lost
  BY DEF Transmit
<1>2. /\ line \in Seq(Nat) /\ thr \in Nat /\ p \in Nat /\ lost \in Nat
      /\ thr < p /\ Len(line) \in Nat
      /\ Len(line) + lost + 1 = p - 1
  BY <1>1 DEF UartInv, Held
<1>3. /\ line' \in Seq(Nat) /\ Len(line') = Len(line) + 1
      /\ line'[Len(line) + 1] = thr
      /\ \A j \in 1 .. Len(line) : line'[j] = line[j]
  BY <1>1, <1>2
<1>4. \A j \in 1 .. Len(line) : line[j] \in Nat /\ line[j] < thr
  BY <1>1, <1>2 DEF UartInv
<1>5. \A j \in 1 .. Len(line') : line'[j] < p
  BY <1>2, <1>3, <1>4
<1>6. \A j, k \in 1 .. Len(line') : j < k => line'[j] < line'[k]
  <2> SUFFICES ASSUME NEW j \in 1 .. Len(line'), NEW k \in 1 .. Len(line'),
                      j < k
               PROVE  line'[j] < line'[k]
    OBVIOUS
  <2>1. j \in 1 .. Len(line) /\ line'[j] = line[j] BY <1>2, <1>3
  <2>2. CASE k = Len(line) + 1 BY <1>3, <1>4, <2>1, <2>2
  <2>3. CASE k # Len(line) + 1
    <3>1. k \in 1 .. Len(line) + 1 BY <1>3
    <3>2. k \in 1 .. Len(line) BY <1>2, <2>3, <3>1
    <3>3. QED BY <1>3, <2>1, <3>2 DEF UartInv
  <2>4. QED BY <2>2, <2>3
<1>7. Len(line') + lost + 0 = p - 1 BY <1>2, <1>3
<1>8. QED BY <1>1, <1>2, <1>3, <1>5, <1>6, <1>7 DEF UartInv, Held

LEMMA UartInductive == UartInv /\ [Next]_vars => UartInv'
<1> SUFFICES ASSUME UartInv, [Next]_vars PROVE UartInv'
  OBVIOUS
<1>1. CASE UNCHANGED <<p, thr, line, lost>>
  BY <1>1 DEF UartInv, Held
<1>2. CASE UartStep
  <2>1. CASE Poll BY <1>1, <2>1, SMTT(30) DEF Poll
  <2>2. QED BY <1>2, <2>1, PutcKeeps, TransmitKeeps DEF UartStep
<1>3. CASE Next /\ ~UartStep
  BY <1>1, <1>3, ZenonT(30)
     DEF Next, uartvars, UartEarlyInit, uartearlyinit, KallocInit, PagingInit,
         AcpiCall, AcpiRun, AcpiReturn, LapicInit, LapicWrites, IpiDelivered,
         TimerFires, LapicReady, TrapFind, TrapTables, TrapSegments, ProcInit,
         IdleMain, Interrupt
<1>4. CASE UNCHANGED vars
  BY <1>1, <1>4 DEF vars, uartvars
<1>5. QED BY <1>2, <1>3, <1>4

\* For an announcement of any length and any number of polls, uartputc loses
\* characters but neither repeats nor reorders them.
THEOREM LineStaysInOrder == Spec => []LineInOrder
<1>1. Init => UartInv
  BY DEF Init, UartInit, UartInv, Held
<1>2. UartInv => LineInOrder
  <2> SUFFICES ASSUME UartInv PROVE LineInOrder
    OBVIOUS
  <2>1. CASE thr = 0
    <3>1. line \o <<>> = line /\ DOMAIN line = 1 .. Len(line)
      BY DEF UartInv
    <3>2. Len(line) + lost = p - 1 BY <2>1 DEF UartInv, Held
    <3>3. QED BY <2>1, <3>1, <3>2 DEF UartInv, LineInOrder
  <2>2. CASE thr # 0
    <3> DEFINE all == line \o <<thr>>
    <3>1. /\ DOMAIN all = 1 .. Len(line) + 1 /\ Len(all) = Len(line) + 1
          /\ all[Len(line) + 1] = thr
          /\ \A j \in 1 .. Len(line) : all[j] = line[j]
      BY DEF UartInv
    <3>2. Len(all) + lost = p - 1 BY <2>2, <3>1 DEF UartInv, Held
    <3> HIDE DEF all
    <3>3. \A j, k \in DOMAIN all : j < k => all[j] < all[k]
      <4> SUFFICES ASSUME NEW j \in DOMAIN all, NEW k \in DOMAIN all, j < k
                   PROVE  all[j] < all[k]
        OBVIOUS
      <4>1. Len(line) \in Nat BY DEF UartInv
      <4>2. j \in 1 .. Len(line) /\ all[j] = line[j] BY <3>1, <4>1
      <4>3. CASE k = Len(line) + 1 BY <2>2, <3>1, <4>2, <4>3 DEF UartInv
      <4>4. CASE k # Len(line) + 1
        <5>1. k \in 1 .. Len(line) /\ all[k] = line[k] BY <3>1, <4>1, <4>4
        <5>2. QED BY <4>2, <5>1 DEF UartInv
      <4>5. QED BY <4>3, <4>4
    <3>4. QED BY <2>2, <3>2, <3>3 DEF LineInOrder, all
  <2>3. QED BY <2>1, <2>2
<1>3. QED BY <1>1, <1>2, UartInductive, PTL DEF Spec
=============================================================================
