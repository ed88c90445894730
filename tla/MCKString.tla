----------------------------- MODULE MCKString -----------------------------
(* Two byte values: the NUL and one that is negative as a char.  memset gets *)
(* a value wider than a byte.                                                *)
EXTENDS KString

MCFills == {BYTE + 1}
=============================================================================
