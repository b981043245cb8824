CONSTANTS
  N = 3
  PipeSize = 1
  MaxFaults = 2
  NoFile = NoFile
  Rate <- Rates
  MaxDuration = 1000
  MaxBytes = 2
  MaxSize = 1
SPECIFICATION FairAttemptSpec
CHECK_DEADLOCK FALSE
INVARIANTS
  VideosAreFinished
  NothingIsLeft
  ReviewIsShown
  EvidenceDecidesNothing
  TelemetryIsTrue
PROPERTIES
  AttemptEnds
