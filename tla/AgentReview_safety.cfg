SPECIFICATION FairSpec
CONSTANTS
  c1 = c1
  c2 = c2
  r1 = r1
  r2 = r2
  e1 = e1
  e2 = e2
  None = None
  Cases = {c1, c2}
  Reviews = {r1, r2}
  Edits = {e1, e2}
  MaxFaults = 1
INVARIANTS
  TypeOK
  CasesMatchRun
  CheckpointsArePrefix
  AsksAreBounded
PROPERTIES
  RunIsDecided
CHECK_DEADLOCK FALSE
