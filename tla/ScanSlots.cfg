SPECIFICATION FairSpec
CONSTANTS
  Interactive = {i1, i2}
  Bulk = {b1, b2, b3}
  WorkerCounts = {1, 2, 3}
INVARIANTS
  PermitsConserved
  NoLostWakeup
PROPERTIES
  NoBorrowPastWaiter
  QueuedIsServed
