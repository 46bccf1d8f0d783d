-------------------------- MODULE MCFirebirdProbes --------------------------
(* FirebirdProbes for TLC: the constants are in the cfg. *)
EXTENDS FirebirdProbes
=============================================================================
