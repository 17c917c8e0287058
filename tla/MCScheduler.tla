----------------------------- MODULE MCScheduler -----------------------------
(* Instances of Scheduler for TLC; the constants are set in the .cfg files. *)
EXTENDS Scheduler
=============================================================================
