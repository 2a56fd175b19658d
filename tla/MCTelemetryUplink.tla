------------------------- MODULE MCTelemetryUplink -------------------------
(* Instances of TelemetryUplink for TLC.                                   *)
EXTENDS TelemetryUplink, TLC

\* Requests are interchangeable; the agents are not, Init chooses among them.
Symmetry == Permutations(Slots)
=============================================================================
