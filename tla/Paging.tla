------------------------------- MODULE Paging -------------------------------
(***************************************************************************)
(* Page tables (src/kernel/paging.c) on the page allocator of Kalloc, from *)
(* kallocinit to the last spawnuser: kallocinit, paginginit_bsp and        *)
(* uvminit as main runs them, and the paging_map of spawnuser for the      *)
(* stack of each user thread.  Virtual addresses are page numbers, and the *)
(* index at each level is the digit of the number in base PG_NENT.  The    *)
(* code makes no huge pages, so PF_PS and its checks are left out.  Only   *)
(* main and then one thread at a time run this code, and no interrupt      *)
(* handler touches what it uses.                                           *)
(***************************************************************************)
EXTENDS Kalloc, FiniteSets

CONSTANTS
  LEVELS,         \* levels of page tables
  KERNBASE,       \* first page of the window onto physical memory
  DEVBASE, NDEV,  \* first page and size of the device window
  DEVSPACE,       \* physical page of the first device page
  Images          \* possible layouts of the loaded image, see Image

\* An image: the first frame past it (end rounded up), the frames ubegin to
\* uend of the .user section, and the frame of each ustacks[p].
Image(e, ub, ue, us) == [end |-> e, ubegin |-> ub, uend |-> ue, ustacks |-> us]

VPages == 0 .. PG_NENT ^ LEVELS - 1

ASSUME PagingAssumption ==
  /\ LEVELS \in Nat /\ LEVELS >= 2
  /\ KERNBASE .. KERNBASE + NFRAME - 1 \subseteq VPages
  /\ DEVBASE .. DEVBASE + NDEV - 1 \subseteq VPages

P2V(f) == KERNBASE + f

\* PML4_IDX, PDPT_IDX, PD_IDX and PT_IDX are the levels 4 to 1.
PT_IDX(va, level) == (va \div PG_NENT ^ (level - 1)) % PG_NENT

-----------------------------------------------------------------------------
(* Page tables.  Operations that allocate return the new memory m and the  *)
(* table pt; when kalloc's ASSERT has failed m.ok is FALSE.                *)

\* Slip: tables above the last level are closed to user code.
mayalloc_no_user(m, pt, i) ==
  IF m.page[pt][i].p = 1
    THEN [m |-> m, pt |-> m.page[pt][i].pa]
    ELSE LET n == kalloc(m)
         IN  IF n.ok
               THEN [m |-> [n EXCEPT !.page[pt][i] = Ent(m.freelist, 1, 0)],
                     pt |-> m.freelist]
               ELSE [m |-> n, pt |-> pt]

safe_nextpt_mayalloc(m, pt, i) ==
  IF m.page[pt][i].p = 1
    THEN [m |-> m, pt |-> m.page[pt][i].pa]
    ELSE LET n == kalloc(m)
         IN  IF n.ok
               THEN [m |-> [n EXCEPT !.page[pt][i] = Ent(m.freelist, 1, 1)],
                     pt |-> m.freelist]
               ELSE [m |-> n, pt |-> pt]

\* Descend to the last level's table, allocating what is missing.
RECURSIVE Descend(_, _, _, _)
Descend(m, pt, va, level) ==
  IF level = 1 \/ ~m.ok
    THEN [m |-> m, pt |-> pt]
    ELSE LET n == safe_nextpt_mayalloc(m, pt, PT_IDX(va, level))
         IN  Descend(n.m, n.pt, va, level - 1)

\* The last entry is overwritten whatever it was.
paging_map_4K(m, pml4, va, pa, w, u) ==
  LET d == Descend(m, pml4, va, LEVELS)
  IN  IF d.m.ok
        THEN [d.m EXCEPT !.page[d.pt][PT_IDX(va, 1)] = Ent(pa, w, u)]
        ELSE d.m

\* pt_deepcopy_level, its loop over the entries from i on; new is the table
\* being filled.
RECURSIVE CopyEntries(_, _, _, _, _)
CopyEntries(m, pt, new, level, i) ==
  IF ~m.ok \/ i = PG_NENT
    THEN m
    ELSE LET e == m.page[pt][i]
             n == kalloc(m)
             c == IF level = 2
                    THEN [n EXCEPT !.page[m.freelist] = n.page[e.pa]]
                    ELSE CopyEntries(n, e.pa, m.freelist, level - 1, 0)
         IN  IF e.p = 0
               THEN CopyEntries(m, pt, new, level, i + 1)
               ELSE IF ~n.ok
                 THEN n
                 ELSE CopyEntries([c EXCEPT !.page[new][i] =
                                     Ent(m.freelist, e.w, e.u)],
                                  pt, new, level, i + 1)

\* Slip: the entries are copied and the tables below are shared.
shallow_copy(m, pt) ==
  LET n == kalloc(m)
  IN  IF n.ok THEN [n EXCEPT !.page[m.freelist] = n.page[pt]] ELSE n

\* The memory after pt_root_deepcopy; the new root is m.freelist.
pt_root_deepcopy(m, pt) ==
  LET n == kalloc(m)
  IN  IF n.ok THEN CopyEntries(n, pt, m.freelist, LEVELS, 0) ELSE n

-----------------------------------------------------------------------------
(* What the processor makes of a page table. *)

Unmapped == [pa |-> -1, w |-> 0, u |-> 0]
Absent == [va \in {} |-> Unmapped]

\* The walk: every level must be present, and rights are those that all
\* levels grant.
RECURSIVE Walk(_, _, _, _, _, _)
Walk(m, pt, va, level, w, u) ==
  LET e == m.page[pt][PT_IDX(va, level)]
  IN  CASE e.p = 0 -> Unmapped
        [] e.p = 1 /\ level = 1 -> [pa |-> e.pa, w |-> w * e.w, u |-> u * e.u]
        [] OTHER -> Walk(m, e.pa, va, level - 1, w * e.w, u * e.u)

Translate(m, pml4) ==
  [va \in VPages |->
     IF pml4 = NULL THEN Unmapped ELSE Walk(m, pml4, va, LEVELS, 1, 1)]

\* The frames of the tables under pt, pt included.
RECURSIVE TablesUnder(_, _, _)
TablesUnder(m, pt, level) ==
  {pt} \cup
  IF level = 1 THEN {}
  ELSE UNION {TablesUnder(m, m.page[pt][i].pa, level - 1) :
                i \in {j \in Entries : m.page[pt][j].p = 1}}

Tables(m, pml4) == IF pml4 = NULL THEN {} ELSE TablesUnder(m, pml4, LEVELS)

-----------------------------------------------------------------------------
(* Boot *)

VARIABLES
  ram,            \* physical memory and the allocator
  kpml4, upml4,   \* the roots, NULL before they exist
  cr3,            \* the loaded root; NULL stands for the boot loader's
  image,          \* the layout of the loaded image
  pc,             \* the boot step, "up" after uvminit, "panic"
  it              \* the page the step's loop is at

vars == <<ram, kpml4, upml4, cr3, image, pc, it>>

Init ==
  /\ ram = PowerOn
  /\ kpml4 = NULL /\ upml4 = NULL /\ cr3 = NULL
  /\ image \in Images
  /\ pc = "kallocinit"
  /\ it = NFRAME - 1

\* A step that computes m stops the kernel when an ASSERT failed in it.
Store(m, next) ==
  IF m.ok
    THEN ram' = m /\ pc' = next
    ELSE ram' = [ram EXCEPT !.ok = FALSE] /\ pc' = "panic"

\* Slip: the loop goes one frame too far down, into the image.
kallocinit_into_image ==
  /\ pc = "kallocinit"
  /\ IF it >= image.end - 1
       THEN ram' = kfree(ram, it) /\ it' = it - 1 /\ UNCHANGED pc
       ELSE UNCHANGED ram /\ it' = 0 /\ pc' = "pml4"
  /\ UNCHANGED <<kpml4, upml4, cr3, image>>

\* One turn of kallocinit's loop, from the last frame down.
kallocinit ==
  /\ pc = "kallocinit"
  /\ IF it >= image.end
       THEN ram' = kfree(ram, it) /\ it' = it - 1 /\ UNCHANGED pc
       ELSE UNCHANGED ram /\ it' = 0 /\ pc' = "pml4"
  /\ UNCHANGED <<kpml4, upml4, cr3, image>>

\* paginginit_bsp: the root, the window onto memory, the device window, lcr3.
AllocPml4 ==
  /\ pc = "pml4"
  /\ Store(kalloc(ram), "kern")
  /\ kpml4' = IF ram.freelist # NULL THEN ram.freelist ELSE kpml4
  /\ UNCHANGED <<upml4, cr3, image, it>>

\* A turn of paging_map's loop, which maps va to pa while there are more pages
\* to map, or its end: on to step next, whose own loop starts at page start.
paging_map(root, va, pa, w, u, more, next, start) ==
  IF more
    THEN Store(paging_map_4K(ram, root, va, pa, w, u), pc) /\ it' = it + 1
    ELSE pc' = next /\ it' = start /\ UNCHANGED ram

\* Slip: the loop maps one frame past the end of memory.
MapKern_past_end ==
  /\ pc = "kern"
  /\ paging_map(kpml4, P2V(it), it, 1, 0, it <= NFRAME, "dev", 0)
  /\ UNCHANGED <<kpml4, upml4, cr3, image>>

MapKern ==
  /\ pc = "kern"
  /\ paging_map(kpml4, P2V(it), it, 1, 0, it < NFRAME, "dev", 0)
  /\ UNCHANGED <<kpml4, upml4, cr3, image>>

MapDev ==
  /\ pc = "dev"
  /\ paging_map(kpml4, DEVBASE + it, DEVSPACE + it, 0, 0, it < NDEV, "uvminit",
                image.ubegin)
  /\ cr3' = IF it < NDEV THEN cr3 ELSE kpml4
  /\ UNCHANGED <<kpml4, upml4, image>>

\* uvminit: the copy, then the .user section.
UvmCopy ==
  /\ pc = "uvminit"
  /\ LET m == pt_root_deepcopy(ram, kpml4)
     IN  /\ Store(m, "user")
         /\ upml4' = IF m.ok THEN ram.freelist ELSE upml4
  /\ UNCHANGED <<kpml4, cr3, image, it>>

MapUser ==
  /\ pc = "user"
  /\ paging_map(upml4, P2V(it), it, 1, 1, it < image.uend, "up", 0)
  /\ UNCHANGED <<kpml4, upml4, cr3, image>>

\* spawnuser maps the new thread's stack, USTACK_PAGES = 1 page.
spawnuser(f) ==
  /\ pc = "up"
  /\ Store(paging_map_4K(ram, upml4, P2V(f), f, 1, 1), "up")
  /\ UNCHANGED <<kpml4, upml4, cr3, image, it>>

Next ==
  \/ kallocinit
  \/ AllocPml4
  \/ MapKern
  \/ MapDev
  \/ UvmCopy
  \/ MapUser
  \/ \E f \in image.ustacks : spawnuser(f)

Spec == Init /\ [][Next]_vars

-----------------------------------------------------------------------------
(* Properties *)

TypeOK ==
  /\ ram.page \in [Frames -> [Entries -> [p : {0, 1}, pa : Int, w : {0, 1},
                                         u : {0, 1}]]]
  /\ ram.next \in [Frames -> Frames \cup {NULL}]
  /\ ram.freelist \in Frames \cup {NULL}
  /\ ram.nfreepages \in 0 .. NFRAME
  /\ {kpml4, upml4, cr3} \subseteq Frames \cup {NULL}
  /\ image \in Images
  /\ pc \in {"kallocinit", "pml4", "kern", "dev", "uvminit", "user", "up",
            "panic"}
  /\ it \in -1 .. NFRAME

\* Once kallocinit is done every frame past the image is either on the free
\* list, once, or a table of one of the two page tables, and of one only; no
\* frame of the image is any of these; and nfreepages counts the list.
FramesAccounted ==
  LET free == FreeFrames(ram)
      kt   == Tables(ram, kpml4)
      ut   == Tables(ram, upml4)
  IN  pc # "kallocinit" =>
        /\ free \cup kt \cup ut = image.end .. NFRAME - 1
        /\ free \cap kt = {} /\ free \cap ut = {} /\ kt \cap ut = {}
        /\ ram.nfreepages = Cardinality(free)

\* Once paginginit_bsp has loaded kpml4, and whatever uvminit and spawnuser
\* map afterwards, P2V reaches every frame for writing in both page tables:
\* the kernel can still write its page tables and the free list.
WindowComplete ==
  \A root \in {kpml4, upml4} \ {NULL} :
    cr3 # NULL =>
      \A f \in Frames : /\ Translate(ram, root)[P2V(f)].pa = f
                        /\ Translate(ram, root)[P2V(f)].w = 1

\* User code can reach the .user section as soon as uvminit is done, and
\* otherwise no page but the stacks of user threads.
UserReach ==
  LET section == image.ubegin .. image.uend - 1
      open == {va \in VPages : Translate(ram, upml4)[va].u = 1}
  IN  /\ upml4 # NULL =>
           open \subseteq {P2V(f) : f \in section \cup image.ustacks}
      /\ pc = "up" => {P2V(f) : f \in section} \subseteq open

KernelMapping(va) ==
  {[pa |-> f, w |-> 1, u |-> 0] : f \in {g \in Frames : P2V(g) = va}} \cup
  {[pa |-> DEVSPACE + d, w |-> 0, u |-> 0] :
     d \in {e \in 0 .. NDEV - 1 : DEVBASE + e = va}}

UserMapping(k) == [pa |-> k.pa, w |-> 1, u |-> 1]

UserVPages == UNION {{P2V(f) : f \in (i.ubegin .. i.uend - 1) \cup i.ustacks} :
                       i \in Images}

Abstract ==
  INSTANCE AddressSpace
    WITH UserPages <- UserVPages, Kernel <- KernelMapping, User <- UserMapping,
         kmap <- Translate(ram, kpml4),
         umap <- IF upml4 = NULL THEN Absent ELSE Translate(ram, upml4)

\* The page tables implement two independent address spaces: each paging_map
\* changes one page of one of them, pt_root_deepcopy yields an equal map, and
\* nothing done to upml4 shows through kpml4.
ImplementsAddressSpace == Abstract!Spec
=============================================================================
