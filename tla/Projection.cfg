SPECIFICATION Spec
CONSTANTS
    Handlers = {h1, h2}
    Operations = {o1, o2}
    MaxRequests = 3
    MaxFaults = 2
SYMMETRY Symmetry
INVARIANTS
    StatusIsTrue
    CommittedIsOwed
PROPERTIES
    GenerationNeverBack
CHECK_DEADLOCK FALSE
