SPECIFICATION Spec
CHECK_DEADLOCK FALSE
CONSTANTS
  Blocks = 3
  WindowSize = 2
  FlowGrowAcks = 1
  MaxRetries = 1
  MaxDrops = 3
  MaxResets = 1
  ProbeRetries = 1
  RstRetries = 1
  Settings <- LateOnly
INVARIANTS
  RefusedMeansNotInstalled
