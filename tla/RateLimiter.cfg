CONSTANTS
  Replicas = {r1, r2}
  Limit = 2
  Window = 4
  Second = 3
  Skew = 1
  MaxTime = 11
  MaxSeq = 8
SPECIFICATION Spec
INVARIANTS WindowBound
PROPERTY RetryAfterHonoured
