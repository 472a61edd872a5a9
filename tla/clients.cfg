SPECIFICATION FairSpec
CONSTANTS
  Servers = {m1, m2}
  Scripts = {s1}
  Ids = {d1, d2}
  None = None
INVARIANTS OneService CancelledHaveEnded
PROPERTY ScriptEnds
CHECK_DEADLOCK FALSE
