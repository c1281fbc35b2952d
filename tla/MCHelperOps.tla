----------------------------- MODULE MCHelperOps -----------------------------
(* A small instance of HelperOps: two scopes, of which one receives plain   *)
(* and repair requests, and two goroutines.                                 *)
EXTENDS HelperOps, TLC

CONSTANTS s1, s2

OneScopeRequests == { [scope |-> s1, repair |-> FALSE],
                      [scope |-> s1, repair |-> TRUE] }

MCRequests == { [scope |-> s1, repair |-> FALSE],
                [scope |-> s1, repair |-> TRUE],
                [scope |-> s2, repair |-> FALSE] }

Symmetry == Permutations(OpIds) \cup Permutations(Workers)
=============================================================================
