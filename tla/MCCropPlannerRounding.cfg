CONSTANTS
  Source <- LandscapeSource
  Aspect <- Square
  FullScale = 4
  Box <- Athletes
  Target <- Half
  Unit = 8
  ScaleEnter = 4
  ScaleExit = 2
  CenterEnter = 2
  CenterExit = 1
  Momentum = 1
  None = None
SPECIFICATION Spec
INVARIANT
  NeverRefuses
