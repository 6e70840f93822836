SPECIFICATION FairSpec
CHECK_DEADLOCK FALSE
CONSTANTS
  Base = 3
  KeyLength = 2
  MinMatch = 3
  LastBytes = 2
  LastStart = 4
  Inputs <- Blocks
  MaxDamage = 1
INVARIANTS
  TypeOK
  RoundTrip
  WithinBlock
  EndsInLiterals
PROPERTIES
  CodecEnds
