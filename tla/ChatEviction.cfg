CONSTANTS
    Convs = {c1, c2}
    Keys = {k1}
    MaxCalls = 2
    Faults = {"vanish", "expire", "forbidden", "disk", "reload", "remount"}
SPECIFICATION Spec
SYMMETRY Symmetry
CHECK_DEADLOCK FALSE
INVARIANTS
    IntentKept
    NoHiddenPending
    GivenUpStaysClosed
    RecoveringIsRead
PROPERTIES
    KeepsLifecycle
