SPECIFICATION Spec
CONSTANTS
    Handlers = {h1, h2}
    Routes = {r1, r2}
    Restored = {r1}
    Remote = {r2}
    Kinds = {"create", "create_disabled", "delete", "reconcile", "restore"}
    MaxGen = 4
    MaxFaults = 2
    MaxRequests = 2
SYMMETRY Symmetry
INVARIANTS
    DivergenceIsRecorded
    AnswersAreTrue
    QuietDuringRestore
PROPERTIES
    SuccessIsDelivered
CHECK_DEADLOCK FALSE
