------------------------------- MODULE Kalloc -------------------------------
(***************************************************************************)
(* The page allocator (src/kernel/kalloc.c): physical memory as an array   *)
(* of frames, and the list of the free ones threaded through them.  A      *)
(* value m of RamType is the whole of it:                                  *)
(*   m.page[f]     what frame f holds, seen as a page table                *)
(*   m.next[f]     the struct freeframe at the start of frame f            *)
(*   m.freelist, m.nfreepages    the allocator                             *)
(*   m.ok          no ASSERT has failed                                    *)
(* An address is its frame number: kfree's ALIGNED always holds.           *)
(***************************************************************************)
EXTENDS Integers

CONSTANTS
  NFRAME,   \* MAX_PHYS_MEM in frames
  PG_NENT   \* entries of a page table

ASSUME KallocAssumption == NFRAME \in Nat /\ PG_NENT \in Nat \ {0}

Frames == 0 .. NFRAME - 1
Entries == 0 .. PG_NENT - 1
NULL == -1

\* An entry: present, the frame or device page it points to, its PF_W, PF_U.
Ent(pa, w, u) == [p |-> 1, pa |-> pa, w |-> w, u |-> u]
NoEnt == [p |-> 0, pa |-> 0, w |-> 0, u |-> 0]

Zeroed == [i \in Entries |-> NoEnt]

\* What a frame holds before anybody has written it: anything, say entries
\* that look present.
Junk == [i \in Entries |-> Ent(0, 1, 1)]

PowerOn == [page |-> [f \in Frames |-> Junk], next |-> [f \in Frames |-> NULL],
            freelist |-> NULL, nfreepages |-> 0, ok |-> TRUE]

kfree(m, f) ==
  [m EXCEPT !.next[f] = m.freelist,
            !.freelist = f,
            !.nfreepages = m.nfreepages + 1]

\* Slip: the frame is handed out as it is.
kalloc_no_memset(m) ==
  IF m.freelist = NULL
    THEN [m EXCEPT !.ok = FALSE]
    ELSE [m EXCEPT !.freelist = m.next[m.freelist],
                   !.nfreepages = m.nfreepages - 1]

\* The memory after kalloc; the frame it returns is m.freelist.
kalloc(m) ==
  IF m.freelist = NULL
    THEN [m EXCEPT !.ok = FALSE]
    ELSE [m EXCEPT !.freelist = m.next[m.freelist],
                   !.nfreepages = m.nfreepages - 1,
                   !.page[m.freelist] = Zeroed]

\* The frames on the free list, by following it.
RECURSIVE ChainFrom(_, _, _)
ChainFrom(m, f, n) ==
  IF f = NULL \/ n = 0 THEN {} ELSE {f} \cup ChainFrom(m, m.next[f], n - 1)

FreeFrames(m) == ChainFrom(m, m.freelist, NFRAME)
=============================================================================
