SPECIFICATION FairSpec
CONSTANTS
  Ids = {d1}
  SignFails = TRUE
  DiskFaults = TRUE
  UnmountFails = TRUE
  Crashes = TRUE
INVARIANTS UsableIsKnown CopiesAreTracked EndedIsUnmounted
PROPERTIES RevokedIsGone MountSettles
CHECK_DEADLOCK FALSE
