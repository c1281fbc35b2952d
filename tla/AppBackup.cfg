SPECIFICATION FairSpec
CONSTANTS
    Components = 3
    Ephemeral = {2}
    Strategies = {"metadata-only", "cold-sqlite-filesystem"}
    MaxBackups = 2
    MaxRestores = 1
    MaxWrites = 1
    MaxChanges = 1
    MaxFaults = 1
    MaxCrashes = 1
INVARIANTS
    ColdCopyIsOneInstant
    NeverSilentlyDown
PROPERTIES
    RestoreIsExact
    RepliesAreTrue
    BackupEnds
