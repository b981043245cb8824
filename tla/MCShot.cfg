CONSTANTS
  Shot <- Shots
  Side = 8
  MaxSpeed = 1
  MaxAcceleration = 1
  DeadZone <- Quarter
  MotionUnit = 24
  Absent = Absent
  Annotations <- People
SPECIFICATION ShotSpec
CHECK_DEADLOCK FALSE
INVARIANTS
  ExcessIsUnavoidable
  NoNeedlessPan
  ReportMatchesTrace
  BlameIsJust
