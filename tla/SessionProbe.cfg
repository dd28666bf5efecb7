CONSTANTS
    Subjects = {A, B}
    Hooks = {h1, h2}
    MaxSessions = 1
    MaxMarks = 2
    StorageFails = TRUE
SPECIFICATION Spec
SYMMETRY Symmetry
CHECK_DEADLOCK FALSE
INVARIANTS
    TypeOK
    NoBlindRefresh
    BoundaryIsCurrent
    SingleRecheck
    RecheckIsAwaited
PROPERTIES
    AdmitsOnlySeen
