SPECIFICATION FairSpec
CONSTANTS
    Requests = {"install", "update", "recreate", "start", "stop", "restart", "remove",
                "reconcile", "start_active", "cleanup_resources", "acknowledge_retained_missing"}
    MaxGen = 3
    MaxOps = 3
    MaxFaults = 1
    MaxCrashes = 2
    MaxDrift = 1
    MaxFlaps = 1
    MaxResolves = 0
INVARIANTS
    NothingForgotten
PROPERTIES
    ActiveSurvives
    AuthorityMoves
    OperationsEnd
