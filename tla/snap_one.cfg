SPECIFICATION Spec
CONSTANTS
  s1 = s1
  s2 = s2
  a = a
  b = b
  Snapshots = {s1, s2}
  Files = {a, b}
  Contents <- TwoSnapshots
  Original = Original
  Nothing = Nothing
  Requests = {r1}
  Consumer = Consumer
  Timer = Timer
  MaxStarts = 2
  DiskFaults = TRUE
INVARIANTS PendingIsStored NothingLeft
PROPERTY AppliedIsWhole
CHECK_DEADLOCK FALSE
