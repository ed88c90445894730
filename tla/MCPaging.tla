------------------------------ MODULE MCPaging ------------------------------
(***************************************************************************)
(* Three levels of five entries; the window onto memory starts in the      *)
(* middle of a second-level table.  One image leaves too few free frames   *)
(* for the copy.                                                           *)
(***************************************************************************)
EXTENDS Paging

MCImages == {Image(4, 1, 2, {2, 3}), Image(4, 1, 3, {3}),
             Image(5, 1, 1, {2, 3, 4}), Image(6, 2, 4, {0, 4, 5}),
             Image(12, 2, 4, {5})}
=============================================================================
