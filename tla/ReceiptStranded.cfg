CONSTANTS
    Convs = {c1}
    Keys = {k1, k2}
    MaxCalls = 2
    Faults = {"drop"}
SPECIFICATION Spec
SYMMETRY SymmetryOfKeys
CHECK_DEADLOCK FALSE
INVARIANTS
    DeferredIsAwaited
