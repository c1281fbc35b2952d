-------------------------- MODULE MCMultiLifecycle --------------------------
(* Components that form a chain: each depends on the one before it. *)
EXTENDS MultiLifecycle

Chain == [x \in Comps |-> IF x = 1 THEN {} ELSE {x - 1}]
=============================================================================
