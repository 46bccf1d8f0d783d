--------------------------- MODULE MCCentralLink ---------------------------
(* CentralLink for TLC: the constants are in the cfg. *)
EXTENDS CentralLink
=============================================================================
