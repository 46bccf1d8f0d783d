------------------------------ MODULE MCHaSync ------------------------------
(* HaSync as TLC runs it: the settings that requests bring disable sync,   *)
(* change its mode, or name another host.                                  *)
EXTENDS HaSync

MCBodies == {[enabled |-> FALSE, mode |-> "physical", host |-> "A"],
             [enabled |-> TRUE, mode |-> "backup_restore", host |-> "A"],
             [enabled |-> TRUE, mode |-> "physical", host |-> "B"]}
=============================================================================
