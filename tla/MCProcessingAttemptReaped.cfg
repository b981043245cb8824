CONSTANTS
  N = 3
  PipeSize = 1
  MaxFaults = 2
  NoFile = NoFile
  Rate <- Rates
  MaxDuration = 1000
  MaxBytes = 2
  MaxSize = 1
SPECIFICATION AttemptSpec
CHECK_DEADLOCK FALSE
INVARIANT DescendantsAreReaped
