SPECIFICATION FairSpec
CONSTANTS
    Slots = 2
    Components = 2
    Kinds = {"restore", "start", "stop", "repair"}
    MaxOps = 2
    MaxFaults = 2
    MaxCrashes = 2
    MaxResolves = 1
INVARIANTS
    OldKept
PROPERTIES
    NeverStartsMixed
    RepliesAreTrue
    RestoreEnds
