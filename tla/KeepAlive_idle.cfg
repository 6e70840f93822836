SPECIFICATION FairSpec
CHECK_DEADLOCK FALSE
CONSTANTS
  Interval = 3
  Timeout = 9
  Retries = 2
  BeaconIntervals = {2, 10}
  PicoBeacon = 2
  PicoTimeout = 15
  Latency = 1
  Echoes = {FALSE, TRUE}
  Cuttable = {"toU", "toP"}
  MaxLosses = 3
INVARIANTS
  TypeOK
  LiveLinkKept
  DeadLinkFound
  GetSurvives
PROPERTIES
  DeadLinkEnds
