\* One stop request in the window between the claim and the start.
SPECIFICATION Spec
CONSTANTS
  N = 1
  Stops = {s1}
  MaxFaults = 0
PROPERTY StoppedIsFinal
CHECK_DEADLOCK FALSE
