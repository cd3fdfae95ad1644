---------------------------- MODULE MCLineWorker ----------------------------
(* The line worker with counters that wrap after three dispatches.         *)
EXTENDS LineWorker
=============================================================================
