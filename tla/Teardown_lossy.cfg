SPECIFICATION FairSpec
CHECK_DEADLOCK FALSE
CONSTANTS
  CloseTimeout = 3
  CloseRetries = 3
  LingerTime = 2
  MaxLosses = 8
INVARIANTS
  TypeOK
  AckedIsHeard
  EndsInTime
PROPERTIES
  ClosingEnds
