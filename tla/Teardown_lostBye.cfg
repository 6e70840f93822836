SPECIFICATION Spec
CHECK_DEADLOCK FALSE
CONSTANTS
  CloseTimeout = 3
  CloseRetries = 3
  LingerTime = 2
  MaxLosses = 1
INVARIANTS
  NoStrayClose
