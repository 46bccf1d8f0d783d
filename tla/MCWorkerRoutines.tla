-------------------------- MODULE MCWorkerRoutines --------------------------
(* Model checking WorkerRoutines with two databases. *)
EXTENDS WorkerRoutines, TLC
=============================================================================
