SPECIFICATION FairSpec
CHECK_DEADLOCK FALSE
CONSTANTS
  HelloRetries = 4
  Offers <- AnyOffer
  ServerLimit <- Uncommon
  FileSizes <- SomeSizes
  FrameOverhead = 64
  Mtus <- MeasuredMtus
  FrameCost = 625
  ByteCost = 16
  Settings <- AnySetting
INVARIANTS
  TypeOK
  SessionMeansAnswered
  Agreement
  FlightFits
PROPERTIES
  GreetingSurvives
  HandshakeEnds
