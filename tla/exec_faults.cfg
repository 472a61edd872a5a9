SPECIFICATION Spec
CONSTANTS
  Ids = {d1}
  NoId = NoId
  Calls = {c1, c2, c3}
  MaxConcurrent = 1
  MaxEmitters = 2
  MaxStarts = 3
  CleanupOnInitialize = FALSE
  CleanupFails = TRUE
  DiskFaults = TRUE
  PeerErrors = TRUE
SYMMETRY SafetySymmetry
INVARIANT ExecutorInv
PROPERTY OutcomeFinal
CHECK_DEADLOCK FALSE
