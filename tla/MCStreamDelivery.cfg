CONSTANTS
  p1 = p1
  p2 = p2
  NoThread = NoThread
  Process <- TwoProcesses
  Concurrency = 1
  Entries = 3
  Malformed <- LastEntry
  Stalls = TRUE
  MaxFaults = 2
SPECIFICATION FairSpec
CHECK_DEADLOCK FALSE
INVARIANTS
  NothingForgotten
  UndisturbedIsExclusive
PROPERTIES
  EveryEntryAcknowledged
  StopEndsProcess
