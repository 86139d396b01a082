---------------------------- MODULE MCRunArchive ----------------------------
(* Instances of RunArchive for TLC. *)
EXTENDS RunArchive
=============================================================================
