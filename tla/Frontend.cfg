SPECIFICATION Spec
CONSTANTS
  MaxConn = 2
  Req = {r1}
  NoReq = NoReq
  Reconnect = TRUE
  MaxAttempts = 1
  DisconnectOnTimeout = TRUE
  s1 = s1 s2 = s2 s3 = s3 f1 = f1 f2 = f2
  Session = {s1}
  NoSession = NoSession
  ErrorHandlers = TRUE
  Configurations <- ConfigurationsDef
  r1 = r1
  r2 = r2
  Route = {r1, r2}
  ClientProtos <- ClientProtosDef
  ServerProtos <- ServerProtosDef
  Dict <- DictDef
  MaxVersion = 1
  MaxStarts = 2
  MaxWire = 1
  MaxMsg = 2
  Server = {s1, s2, s3}
  Call = {c1, c2}
  Field = {f1, f2}
  Point <- PointDef
  Digest <- DigestDef
  Options <- OptionsDef
  Traced = TRUE
  MaxWeight = 2
  MaxReplaced = 1
  MaxKeys = 6
  MaxPicks = 3
  Peer = {p1, p2}
  UserHandshake = TRUE
  MaxSockets = 3
  MaxAnswers = 2
  MaxHeard = 6
  MaxJobs = 3
  MaxTime = 1
  Periods = {0, 1}
  Counts = {0, 2}
  MaxCalls = 3
  Cron = {c1}
  NoCron = NoCron
INVARIANTS NoTimerLeft OneResponse ReadAsWritten JobsRun
PROPERTIES CutNoticed RequestAnswered ProtosFollow RoutesHold
CHECK_DEADLOCK FALSE
