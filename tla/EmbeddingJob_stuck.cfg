SPECIFICATION Spec
CONSTANTS
  Chunks = {c1, c2, c3}
  Tasks = {t1}
  First = t1
  Retries = {r1}
  Workers = {w1}
  BatchSize = 2
  MaxAttempts = 2
  None = None
  MaxCrashes = 0
INVARIANT FailedBatchIsRetryable
CHECK_DEADLOCK FALSE
