---------------------------- MODULE MCRunLifecycle ----------------------------
(* Instances of RunLifecycle for TLC; the constants are plain numbers.     *)
EXTENDS RunLifecycle
=============================================================================
