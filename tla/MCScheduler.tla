---------------------------- MODULE MCScheduler ----------------------------
(* Scheduler with a few tasks at a time. *)
EXTENDS Scheduler
=============================================================================
