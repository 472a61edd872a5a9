-------------------------- MODULE MCExecutorService --------------------------
(* Symmetry sets for TLC's runs of ExecutorService. *)
EXTENDS ExecutorService, TLC

SlotSymmetry == Permutations(Calls)
SafetySymmetry == Permutations(Ids) \cup Permutations(Calls)
=============================================================================
