SPECIFICATION Spec
CHECK_DEADLOCK FALSE
CONSTANTS
  Interval = 5
  Timeout = 20
  Retries = 3
  BeaconIntervals = {4}
  PicoBeacon = 4
  PicoTimeout = 30
  Latency = 0
  Echoes = {FALSE}
  Cuttable = {"toU"}
  MaxLosses = 0
INVARIANTS
  BlameIsRight
