----------------------------- MODULE MCScheduler -----------------------------
(* Instances of Scheduler for TLC: the idle task and up to three more.       *)
EXTENDS Scheduler
=============================================================================
