CONSTANTS
  p1 = p1
  p2 = p2
  NoThread = NoThread
  Process <- TwoProcesses
  Concurrency = 1
  Entries = 1
  Malformed <- NoEntry
  Stalls = FALSE
  MaxFaults = 1
SPECIFICATION Spec
CHECK_DEADLOCK FALSE
INVARIANT LeasedIsNotReclaimable
