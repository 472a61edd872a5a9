SPECIFICATION FairSpec
CONSTANTS
  Ids = {d1}
  NoId = NoId
  Calls = {c1, c2, c3}
  MaxStarts = 2
  CleanupOnInitialize = TRUE
  DetachReleases = FALSE
  DiskFaults = TRUE
  SilentEnd = FALSE
INVARIANT StartedIsHeard
PROPERTIES MachineEndIsFinal StartedEnds
CHECK_DEADLOCK FALSE
