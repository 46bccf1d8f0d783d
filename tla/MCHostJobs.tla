----------------------------- MODULE MCHostJobs -----------------------------
(* HostJobs as TLC runs it; all constants are given in the .cfg files. *)
EXTENDS HostJobs
=============================================================================
