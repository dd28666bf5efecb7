SPECIFICATION Spec
CONSTANTS
  Items = {i1, i2}
  Answers = {yes}
  MaxPauses = 2
  MaxCommands = 2
  MaxAttempts = 3
  MaxReads = 2
  MaxStates = 4
  MaxFaults = 2
INVARIANTS
  TypeOK
  SentForItsPause
  OneCommandPerPause
  ErrorIsCurrent
PROPERTY LockIsReleased
CHECK_DEADLOCK FALSE
