SPECIFICATION Spec
CONSTANTS
    Sessions = {s1}
    Requests = {r1, r2, r3, r4}
    ReservationSpan = 1
    SessionAge = 2
    MaxTime = 2
SYMMETRY Symmetry
INVARIANTS
    NoRefreshReplay
    ActiveCredentialCurrent
    RevokeTakesCurrent
    CookieNeverAhead
    WinnerUndisturbed
CHECK_DEADLOCK FALSE
