SPECIFICATION Spec
CONSTANTS
  Sid = {s1, s2, s3, s4}
  Uid = {u1, u2}
  NoUid = NoUid
  SingleSession = TRUE
  MaxConnections = 2
  HostFilter = TRUE
  AsyncFilter = FALSE
INVARIANT UidMapAgrees
INVARIANT OneSessionPerUser
INVARIANT LoginsAgree
CHECK_DEADLOCK FALSE
