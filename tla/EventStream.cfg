SPECIFICATION Spec
CONSTANTS
  Length = 5
  Terminal = {2, 5}
  Lag = 1
  MaxBad = 1
  MaxFaults = 2
  MaxRuns = 2
INVARIANTS
  TypeOK
  NothingLost
  LiveIsFollowed
  RecoveryIsAlone
PROPERTY EventuallyCurrent
CHECK_DEADLOCK FALSE
