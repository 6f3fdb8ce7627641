SPECIFICATION FairSpec
CONSTANTS
  Calls = {c1, c2}
  Tools = {"listed", "unlisted"}
  BreakglassTools = {"listed"}
  FailureThreshold = 2
  Cooldown = 3
  OpaTimeout = 2
  ProbeGetsObject = TRUE
INVARIANTS
  TypeOK
  ProbeExclusive
  ClosedBelowThreshold
  RunsOnlyIfAuthorised
  RepliesMatchRun
  AuditAgreesWithReply
PROPERTIES
  EveryCallAnswered
  HalfOpenResolves
  SidecarRecovery
