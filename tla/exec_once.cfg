SPECIFICATION Spec
CONSTANTS
  Ids = {d1, d2}
  NoId = NoId
  Calls = {c1, c2, c3}
  MaxConcurrent = 1
  MaxEmitters = 1
  MaxStarts = 2
  CleanupOnInitialize = TRUE
  CleanupFails = TRUE
  DiskFaults = FALSE
  PeerErrors = FALSE
SYMMETRY SafetySymmetry
INVARIANTS DoneMeansCompleted CompletedIsDurable EndedIsDetached
CHECK_DEADLOCK FALSE
