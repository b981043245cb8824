CONSTANTS
  w1 = w1
  w2 = w2
  w3 = w3
  NoWorker = NoWorker
  Worker <- TwoWorkers
  Compatible <- TwoWorkers
  Failures <- TransientFailures
  MaxFaults = 1
SPECIFICATION Spec
CHECK_DEADLOCK FALSE
INVARIANT TransientNeverFails
