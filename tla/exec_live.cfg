SPECIFICATION FairSpec
CONSTANTS
  Ids = {d1}
  NoId = NoId
  Calls = {c1, c2}
  MaxConcurrent = 1
  MaxEmitters = 2
  MaxStarts = 2
  CleanupOnInitialize = TRUE
  CleanupFails = TRUE
  DiskFaults = FALSE
  PeerErrors = FALSE
INVARIANT ActiveHasWorker
PROPERTIES ActiveEnds SubscriberHears
CHECK_DEADLOCK FALSE
