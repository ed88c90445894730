---------------------------- MODULE AddressSpace ----------------------------
(***************************************************************************)
(* What paging promises: two address spaces, each a map from virtual pages *)
(* to a page and its rights.  The kernel's is filled first, then copied to *)
(* be the user's; from then on the kernel's never changes, and the only    *)
(* change to the user's is that a page of UserPages that it already maps   *)
(* becomes accessible to user code, at the same place.                     *)
(***************************************************************************)
CONSTANTS VPages, UserPages, Unmapped, Absent, Kernel(_), User(_)

VARIABLES kmap, umap

Init == kmap = [v \in VPages |-> Unmapped] /\ umap = Absent

\* Kernel(v) are the mappings page v may get for the kernel alone.
MapKernel ==
  /\ umap = Absent
  /\ \E v \in VPages : \E k \in Kernel(v) : kmap' = [kmap EXCEPT ![v] = k]
  /\ UNCHANGED umap

Copy ==
  /\ umap = Absent
  /\ umap' = kmap
  /\ UNCHANGED kmap

\* User(k) is the mapping k opened to user code.
GrantUser ==
  /\ umap # Absent
  /\ \E v \in UserPages :
       /\ umap[v] # Unmapped
       /\ umap' = [umap EXCEPT ![v] = User(umap[v])]
  /\ UNCHANGED kmap

Next == MapKernel \/ Copy \/ GrantUser

Spec == Init /\ [][Next]_<<kmap, umap>>
=============================================================================
