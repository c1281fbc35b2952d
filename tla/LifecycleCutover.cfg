SPECIFICATION Spec
CONSTANTS
    Requests = {"install", "update", "recreate", "start", "stop", "restart", "remove",
                "reconcile", "start_active", "cleanup_resources", "acknowledge_retained_missing"}
    MaxGen = 3
    MaxOps = 4
    MaxFaults = 2
    MaxCrashes = 1
    MaxDrift = 1
    MaxFlaps = 0
    MaxResolves = 1
INVARIANTS
    OneGenerationRuns
    OneAuthority
    RepliesAreTrue
