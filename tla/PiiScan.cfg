CONSTANTS
  MaxContentBytes = 5
  ChunkOverlapBytes = 2
  MaxLength = 5
  MaxValues = 2
SPECIFICATION Spec
INVARIANTS NothingExposed RedactsExactly
PROPERTIES ScanAdvances
CHECK_DEADLOCK FALSE
