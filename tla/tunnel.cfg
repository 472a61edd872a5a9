SPECIFICATION FairSpec
CONSTANTS
  Sockets = {s1, s2, s3}
  NoSocket = NoSocket
  Requests = {r1, r2}
  SseStreams = {x1, x2}
  Reconnect = TRUE
  MaxRetries = 2
INVARIANTS OneConnection StreamsFollowConnection SilenceIsReported
PROPERTIES StopIsFinal ComesBack
CHECK_DEADLOCK FALSE
