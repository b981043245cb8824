CONSTANTS
  a1 = a1
  a2 = a2
  a3 = a3
  NoAttempt = NoAttempt
  Attempt <- OneAttempt
  MaxFaults = 0
SPECIFICATION Spec
SYMMETRY AttemptSymmetry
CHECK_DEADLOCK FALSE
INVARIANT ValidationFailureIsTraced
