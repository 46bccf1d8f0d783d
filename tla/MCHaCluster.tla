---------------------------- MODULE MCHaCluster ----------------------------
(* Values for the constants of HaCluster that a .cfg file cannot write. *)
EXTENDS HaCluster, TLC

NoRoleChange     == {}
RecoveredStandby == {<<"recovery", "standby">>}
AnyRoleChange    == {<<r, s>> \in Role \X Role : r # s}

TaskSymmetry == Permutations(Task)
=============================================================================
