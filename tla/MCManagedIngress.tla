------------------------- MODULE MCManagedIngress -------------------------
(* ManagedIngress with interchangeable handlers.                           *)
EXTENDS ManagedIngress, TLC

Symmetry == Permutations(Handlers)
===========================================================================
