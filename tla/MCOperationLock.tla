-------------------------- MODULE MCOperationLock --------------------------
(* The symmetry of the requests, for model checking OperationLock. *)
EXTENDS OperationLock, TLC

ReqSymmetry == Permutations(Req)
=============================================================================
