SPECIFICATION FairSpec
CONSTANTS
  Server = {s1}
  Req = {r1, r2}
  NoReq = NoReq
  MaxBox = 4
  PendingSize = 1
  Traced = FALSE
  FailMode = "failfast"
  Filtered = FALSE
  Buffered = TRUE
  ConnectErrors = FALSE
INVARIANT OneLinkPerServer
INVARIANT NoStrandedRequests
INVARIANT HeldOnce
PROPERTY NothingLost
