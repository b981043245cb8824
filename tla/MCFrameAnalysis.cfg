CONSTANTS
  None = None
  Job <- Jobs
  MaxIntervals = 2
  MaxCandidates = 2
SPECIFICATION AnalysisSpec
CHECK_DEADLOCK FALSE
INVARIANTS
  DetectsOnGrid
  GuidedByFollowedAthlete
  EvidenceIsSound
  ToldAsItWas
