---------------------------- MODULE MCScheduler ----------------------------
(* The scheduler on a small instance; the .cfg files choose a DS or a DSi. *)
EXTENDS Scheduler
=============================================================================
