SPECIFICATION Spec
CONSTANTS
  Ids = {d1, d2}
  MaxRuns = 2
  None = None
INVARIANTS TypeOK SnapshotIsOwn PendingIsIntact AppliedIsOwn
CHECK_DEADLOCK FALSE
