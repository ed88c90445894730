------------------------------- MODULE MCCTest -------------------------------
(* The interval is shorter than the timer's period, as 1 ms is to 10 ms, and *)
(* no multiple of it; the counters run at 2 to 3.                            *)
EXTENDS CTest

MCPrios == {0}
MCSleepArgs == {}
=============================================================================
