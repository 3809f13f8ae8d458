\* Three steps, two concurrent stop requests, one restart or abandoned claim.
SPECIFICATION FairSpec
CONSTANTS
  N = 3
  Stops = {s1, s2}
  MaxFaults = 1
INVARIANTS
  TypeOK
  DeliveredInOrder
  FailureHalts
  StopIsPrompt
  CountsMatchSteps
  CompletedRunIsSettled
PROPERTIES
  KeepsPromise
  ClaimedTaskSettles
  UnstoppedRunFinishes
\* A finished run has no further step.
CHECK_DEADLOCK FALSE
