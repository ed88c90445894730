----------------------------- MODULE MCMinCTest -----------------------------
(* A sample below MIN_INIT and one above. *)
EXTENDS MinCTest

MCPrios == {0}
MCSleepArgs == {1, 2}
MCSamples == {1, 3}
=============================================================================
