SPECIFICATION Spec
CONSTANTS
  Ids = {d1, d2}
  NoId = NoId
  Calls = {c1, c2, c3}
  MaxStarts = 2
  CleanupOnInitialize = FALSE
  DetachReleases = TRUE
  DiskFaults = FALSE
  SilentEnd = TRUE
SYMMETRY SafetySymmetry
INVARIANTS TypeOK FailedLeavesNothing CompletedIsReclaimed
PROPERTY LoadedIsKept
CHECK_DEADLOCK FALSE
