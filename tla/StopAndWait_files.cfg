SPECIFICATION FairSpec
CHECK_DEADLOCK FALSE
CONSTANTS
  Blocks = 3
  MaxRetries = 3
  MaxTimeouts = 3
  CheckpointEvery = 2
  MaxGets = 2
  Settings <- AnySetting
INVARIANTS
  TypeOK
  NoGap
  CheckpointTrails
  LossIsRecovered
PROPERTIES
  Termination
  DeliversFile
