CONSTANTS
  p1 = p1
  p2 = p2
  f1 = f1
  f2 = f2
  t1 = t1
  t2 = t2
  None = None
  Project <- TwoProjects
  File <- TwoFiles
  Tap <- OneTap
  MaxInFlight = 2
  MaxFaults = 1
CHECK_DEADLOCK FALSE
SPECIFICATION FairSpec
INVARIANTS
  BelongsTogether
PROPERTIES
  ShownNeverGoesBack
  EndIsShown
