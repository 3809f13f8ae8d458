SPECIFICATION AttendedSpec
CONSTANTS
  p1 = p1
  p2 = p2
  s1 = s1
  s2 = s2
  s3 = s3
  None = None
  Projects = {p1}
  Scans = {s1}
  ProjectOf <- OneProject
  FaultKinds = {"error"}
  MaxFaults = 1
PROPERTY ClaimedScanSettles
CHECK_DEADLOCK FALSE
