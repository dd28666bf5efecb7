SPECIFICATION Spec
CONSTANTS
  Length = 4
  Terminal = {2, 4}
  Lag = 0
  MaxBad = 0
  MaxFaults = 1
  MaxRuns = 2
INVARIANT ReconnectingHasStream
CHECK_DEADLOCK FALSE
