SPECIFICATION FairSpec
CONSTANTS
    Sessions = {s1, s2}
    Requests = {r1, r2, r3}
    ReservationSpan = 1
    SessionAge = 1
    MaxTime = 1
INVARIANTS
    SignedOutStaysOut
PROPERTIES
    RequestAnswered
    LifetimeSpec
CHECK_DEADLOCK FALSE
