SPECIFICATION Spec
CONSTANTS
    N = 4
    Archives = {a}
    Original = o
    Absent = absent
    MaxInterrupts = 2
INVARIANT
    AllOrNothing
