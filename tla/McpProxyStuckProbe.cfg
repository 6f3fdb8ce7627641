SPECIFICATION FairSpec
CONSTANTS
  Calls = {c1, c2}
  Tools = {"listed"}
  BreakglassTools = {"listed"}
  FailureThreshold = 2
  Cooldown = 3
  OpaTimeout = 2
  ProbeGetsObject = FALSE
PROPERTY
  HalfOpenResolves
