SPECIFICATION Spec
CONSTANTS
    N = 2
    Deps <- Chain
    Requests = {"install", "update", "recreate", "start", "stop", "restart", "remove"}
    MaxGen = 3
    MaxOps = 3
    MaxFaults = 1
    MaxLostSteps = 1
    MaxCrashes = 1
    MaxDrift = 1
INVARIANTS
    NothingForgotten
    RepliesAreTrue
    StartupNeverStuck
PROPERTIES
    AuthorityMoves
