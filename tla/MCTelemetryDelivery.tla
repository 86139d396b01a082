------------------------- MODULE MCTelemetryDelivery -------------------------
(* Instances of TelemetryDelivery for TLC.                                 *)
EXTENDS TelemetryDelivery, TLC

CONSTANTS p1, p2, r1, r2

SameRun  == [p \in Peers |-> r1]
TwoRuns  == p1 :> r1 @@ p2 :> r2
=============================================================================
