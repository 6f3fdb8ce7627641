CONSTANTS
  Requests = {r1, r2}
  KeyTTL = 3
  TenantTTL = 2
  MaxAge = 5
  Interval = 1
  MaxWait = 2
  MaxTime = 8
SPECIFICATION Spec
SYMMETRY RequestSymmetry
CONSTRAINT SentinelOrOneRequest
INVARIANTS KeyAge TenantAge CredentialAge VerdictFollowed
CHECK_DEADLOCK FALSE
