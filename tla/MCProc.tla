------------------------------- MODULE MCProc -------------------------------
(***************************************************************************)
(* Proc for TLC.  The tables are small and the numbers passed by callers   *)
(* are the ones around the conditions of spawn and sleep.                  *)
(***************************************************************************)
EXTENDS Proc

MCPrios == {0, 256}
MCSleepArgs == {-1, 0, 1, 2}
MCPriosOne == {0}
MCSleepTwo == {1, 2}
MCSleepOne == {1}
=============================================================================
