SPECIFICATION Spec
CONSTANTS
  c1 = c1
  c2 = c2
  r1 = r1
  r2 = r2
  e1 = e1
  e2 = e2
  None = None
  Cases = {c1, c2}
  Reviews = {r1, r2}
  Edits = {}
  MaxFaults = 0
PROPERTIES
  ReviewIsFinal
CHECK_DEADLOCK FALSE
