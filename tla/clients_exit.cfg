SPECIFICATION Spec
CONSTANTS
  Servers = {m1}
  Scripts = {s1}
  Ids = {d1}
  None = None
PROPERTY OutlivesScript
CHECK_DEADLOCK FALSE
