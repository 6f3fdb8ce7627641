CONSTANTS
  MaxCalls = 2
  MaxEvents = 4
SPECIFICATION Spec
INVARIANTS SuccessNeedsFinish CallsKeptApart UsageAgrees
PROPERTIES FollowsLifecycle StreamEnds
CHECK_DEADLOCK FALSE
