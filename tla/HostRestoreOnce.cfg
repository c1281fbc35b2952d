SPECIFICATION Spec
CONSTANTS
    N = 4
    Archives = {a, b}
    Original = o
    Absent = absent
    MaxInterrupts = 1
INVARIANTS
    AllOrNothing
    OldStateKept
PROPERTY
    SuccessMeansRestored
