-------------------------- MODULE MCStagedResponse --------------------------
(* Instances of StagedResponse for model checking. *)
EXTENDS StagedResponse, TLC

Symmetry == Permutations(REQ)
=============================================================================
