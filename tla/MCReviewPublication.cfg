CONSTANTS
  a1 = a1
  a2 = a2
  a3 = a3
  NoAttempt = NoAttempt
  Attempt <- TwoAttempts
  MaxFaults = 2
SPECIFICATION Spec
CHECK_DEADLOCK FALSE
INVARIANTS
  OneReviewLinked
  ObjectsFollowLinks
PROPERTIES
  FrozenWhenTerminal
