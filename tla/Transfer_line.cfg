SPECIFICATION FairSpec
CHECK_DEADLOCK FALSE
CONSTANTS
  Blocks = 4
  WindowSize = 2
  FlowGrowAcks = 1
  MaxRetries = 3
  MaxDrops = 3
  MaxResets = 1
  ProbeRetries = 1
  RstRetries = 2
  Settings <- AnySetting
INVARIANTS
  TypeOK
  OneFlight
  AckedIsCommitted
  DoneMeansComplete
  NoResetWithoutRepetition
  LossIsRecovered
  VerifiedMeansReceived
PROPERTIES
  Termination
  DeliversFile
