SPECIFICATION FairSpec
CONSTANTS
  p1 = p1
  p2 = p2
  s1 = s1
  s2 = s2
  s3 = s3
  None = None
  Projects = {p1, p2}
  Scans = {s1, s2, s3}
  ProjectOf <- TwoProjects
  FaultKinds = {"crash", "error"}
  MaxFaults = 1
INVARIANTS
  TypeOK
  ScanMatchesTask
  PublishedWhole
  VersionsDense
  RunningIsOwned
PROPERTIES
  SettledIsFinal
  QueueDrains
CHECK_DEADLOCK FALSE
