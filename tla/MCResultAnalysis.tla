-------------------------- MODULE MCResultAnalysis --------------------------
(* Instances of ResultAnalysis for TLC. *)
EXTENDS ResultAnalysis
=============================================================================
