SPECIFICATION Spec
CONSTANTS
    OpIds = {o1, o2, o3}
    s1 = s1
    s2 = s2
    Scopes = {s1, s2}
    Requests <- MCRequests
    Workers = {w1, w2}
    NoOp = NoOp
    NoRequest = NoRequest
    MaxCrashes = 1
    MaxFaults = 1
SYMMETRY Symmetry
INVARIANTS
    LeaseMatchesReceipt
    ExclusiveExecutor
    NoFalseAbsence
    DurableReply
PROPERTIES
    ReceiptsFinal
    TokensMonotone
    ImplementsLedger
