------------------------------- MODULE MCCleanup -------------------------------
(* Instances of Cleanup for TLC. *)
EXTENDS Cleanup

===============================================================================
