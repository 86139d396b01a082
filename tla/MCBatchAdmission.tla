--------------------------- MODULE MCBatchAdmission ---------------------------
(* Instances of BatchAdmission for TLC; the constants are plain numbers.   *)
EXTENDS BatchAdmission
=============================================================================
