-------------------------- MODULE MCMutationStore --------------------------
(* Instances of MutationStore for TLC. *)
EXTENDS MutationStore

CONSTANTS e1, v1, b1

ASSUME StoreConstants == ConstantsAssumption
=============================================================================
