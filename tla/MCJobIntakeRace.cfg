CONSTANTS
  r1 = r1
  r2 = r2
  r3 = r3
  c1 = c1
  k1 = k1
  k2 = k2
  good = good
  other = other
  short = short
  NoJob = NoJob
  NoObject = NoObject
  Request <- TwoRequests
  Configuration <- OneConfiguration
  MaxFaults = 0
  Confirmation <- TwoConfirmations
  Content <- RightAndWrongSize
  Declared <- Right
  MaxPuts = 2
  MaxUploadFaults = 0
SPECIFICATION IntakeSpec
CHECK_DEADLOCK FALSE
INVARIANT UnavailableMeansUnpublished
