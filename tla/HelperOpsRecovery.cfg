SPECIFICATION FairSpec
CONSTANTS
    OpIds = {o1, o2}
    s1 = s1
    s2 = s2
    Scopes = {s1}
    Requests <- OneScopeRequests
    Workers = {w1}
    NoOp = NoOp
    NoRequest = NoRequest
    MaxCrashes = 3
    MaxFaults = 0
PROPERTIES
    Settles
