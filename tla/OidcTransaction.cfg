CONSTANTS
    Logins = {l1, l2}
    Starts = {s1, s2}
    Callbacks = {c1, c2}
    MaxPending = 1
SPECIFICATION Spec
SYMMETRY Symmetry
CHECK_DEADLOCK FALSE
INVARIANTS
    TypeOK
    PendingKeepsProofs
    SerialStartsWithinBudget
PROPERTIES
    TransactionSpec
