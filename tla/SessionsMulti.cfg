SPECIFICATION FairSpec
CONSTANTS
  Sid = {s1, s2, s3}
  Uid = {u1, u2}
  NoUid = NoUid
  SingleSession = FALSE
  MaxConnections = 0
  HostFilter = TRUE
  AsyncFilter = TRUE
INVARIANT ManyAgree
PROPERTY EndedIsDisconnected
CHECK_DEADLOCK FALSE
