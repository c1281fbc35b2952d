------------------------- MODULE MCServiceExposure -------------------------
(* ServiceExposure with two services: one with a port of the dynamic range  *)
(* and a default exposure, one with a fixed port, which lies in that range. *)
EXTENDS ServiceExposure, TLC

CONSTANTS app1, app2

MCDeclared ==
    1 :> [transport |-> "tcp", default |-> "loopback", fixed |-> 0] @@
    2 :> [transport |-> "tcp", default |-> "none", fixed |-> 2]

\* One application at rest; or two, where app2 was given by default the port that the
\* internal service of app1 retains.
MCStarts ==
    {app1 :> (1 :> [mode |-> "loopback", port |-> 1] @@ 2 :> [mode |-> "internal", port |-> 2]) @@
     app2 :> NoRows,
     app1 :> (1 :> [mode |-> "internal", port |-> 1] @@ 2 :> [mode |-> "lan", port |-> 2]) @@
     app2 :> (1 :> [mode |-> "loopback", port |-> 1] @@ 2 :> [mode |-> "internal", port |-> 2])}

Symmetry == Permutations(Handlers)
=============================================================================
