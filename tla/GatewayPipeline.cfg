SPECIFICATION FairSpec
CONSTANTS
  Requests = {r1}
  MaxAttempts = 2
  Faults = {"tenant_db", "redis", "body", "adapter", "usage_db", "crash"}
INVARIANTS
  TypeOK
  GovernedDispatch
  UsageLogFaithful
PROPERTY
  EveryRequestAnswered
CHECK_DEADLOCK FALSE
