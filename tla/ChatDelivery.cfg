CONSTANTS
    Convs = {c1, c2}
    Keys = {k1, k2}
    MaxCalls = 2
    Faults = {"lost", "refuse"}
SPECIFICATION Spec
SYMMETRY Symmetry
CHECK_DEADLOCK FALSE
INVARIANTS
    IntentKept
    GivenUpIsCancelled
    DeferredIsAwaited
    RunNotEnded
PROPERTIES
    KnownReceiptNotReposted
