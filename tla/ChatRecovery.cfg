CONSTANTS
    Convs = {c1}
    Keys = {k1, k2}
    MaxCalls = 2
    Faults = {"drop", "fail", "expire", "lost"}
SPECIFICATION Spec
SYMMETRY SymmetryOfKeys
CHECK_DEADLOCK FALSE
INVARIANTS
    RunIsFollowed
PROPERTIES
    LoadingIsRead
