------------------------- MODULE MCDelegatorService -------------------------
(* Symmetry set for TLC's runs of DelegatorService. *)
EXTENDS DelegatorService, TLC

SafetySymmetry == Permutations(Ids) \cup Permutations(Calls)
=============================================================================
