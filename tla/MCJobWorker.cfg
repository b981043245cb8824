CONSTANTS
  w1 = w1
  w2 = w2
  w3 = w3
  NoWorker = NoWorker
  Worker <- ThreeWorkers
  Compatible <- TwoWorkers
  Failures <- AllFailures
  MaxFaults = 2
SPECIFICATION FairSpec
CHECK_DEADLOCK FALSE
INVARIANTS
  AckOnlyTerminal
  CompletedByFinalizer
  LiveOwnerAccepted
PROPERTIES
  TerminalIsFinal
  NoStageSkipped
  ImplementsLifecycle
  EventuallySettled
