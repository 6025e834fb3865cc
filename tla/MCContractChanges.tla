-------------------------- MODULE MCContractChanges --------------------------
(***************************************************************************)
(* ContractChanges for TLC: requests and terms are interchangeable.        *)
(***************************************************************************)
EXTENDS ContractChanges, TLC

Symmetry == Permutations(Requests) \cup Permutations(Terms)
=============================================================================
