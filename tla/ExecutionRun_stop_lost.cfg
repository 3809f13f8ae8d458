\* One step and one stop request are enough.
SPECIFICATION FairSpec
CONSTANTS
  N = 1
  Stops = {s1}
  MaxFaults = 0
PROPERTY StoppedRunEnds
CHECK_DEADLOCK FALSE
