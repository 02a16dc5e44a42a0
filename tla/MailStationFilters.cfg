SPECIFICATION Spec
CONSTANTS
  Server = {s1, s2}
  Req = {r1, r2}
  NoReq = NoReq
  MaxBox = 4
  PendingSize = 0
  Traced = TRUE
  FailMode = "failfast"
  Filtered = TRUE
  Buffered = FALSE
  ConnectErrors = TRUE
INVARIANT FilteredOnce
PROPERTY SilentAfterShutdown
