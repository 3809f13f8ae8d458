\* Two workers, three chunks in batches of two, one retry request, two crashes.
SPECIFICATION FairSpec
CONSTANTS
  Chunks = {c1, c2, c3}
  Tasks = {t1, t2}
  First = t1
  Retries = {r1}
  Workers = {w1, w2}
  BatchSize = 2
  MaxAttempts = 2
  None = None
  MaxCrashes = 2
INVARIANTS
  TypeOK
  CallsAreBounded
  BatchesAreDisjoint
PROPERTIES
  SucceededIsFinal
  SuccessIsComplete
  TasksSettle
CHECK_DEADLOCK FALSE
