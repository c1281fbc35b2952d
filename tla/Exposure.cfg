SPECIFICATION Spec
CONSTANTS
    app1 = app1
    app2 = app2
    Handlers = {h1, h2}
    Installations = {app1, app2}
    Composite = {app2}
    Services = {1, 2}
    Declared <- MCDeclared
    Ports = {1, 2}
    Starts <- MCStarts
    MaxRequests = 3
    MaxFaults = 1
SYMMETRY Symmetry
INVARIANTS
    ReservedOnce
PROPERTIES
    OthersKept
CHECK_DEADLOCK FALSE
