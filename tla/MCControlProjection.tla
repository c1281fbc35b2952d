------------------------ MODULE MCControlProjection ------------------------
(* ControlProjection on small sets of handlers and operation ids.           *)
EXTENDS ControlProjection, TLC

Symmetry == Permutations(Handlers) \cup Permutations(Operations)
=============================================================================
