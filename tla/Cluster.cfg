SPECIFICATION Spec
CONSTANTS
  Process = {"launcher", "master", "relay", "frontend"}
  StartCall = {1, 2}
  StopCall = {1, 2}
  Twice = {"master"}
  Modules = 2
  UseDict = TRUE
  Buffered = TRUE
  Hooks = {"beforeStartup", "afterStartup", "beforeShutdown"}
  Server = {s1, own}
  Own = own
  Command = {k1, k2}
  AutoRestart = {s1}
  MaxCrashes = 1
  Monitor = {s1, s2}
  Frontend = {s1}
  Request = {r1}
  MaxCuts = 2
  AdminConn = {c1, c2}
  AdminId = {id1}
  AdminIdOf <- AdminIdOfDef
  Operators = {c1}
  Conn = {c1, c2, c3, c4}
  Id = {id1, id2}
  Type = {front, back}
  IdOf <- IdOfDef
  TypeOf <- TypeOfDef
  AddressOf <- AddressOfDef
  Tokens <- TokensDef
  OwnTokens <- OwnTokensDef
  c1 = c1 c2 = c2 c3 = c3 c4 = c4 id1 = id1 id2 = id2
  front = front back = back h1 = h1 h2 = h2 h3 = h3 k1 = k1 k2 = k2
  NoConn = NoConn NoAddress = NoAddress NoToken = NoToken
  Agent = {a1}
  MaxSockets = 3
  MaxTimers = 2
  MaxEvents = 4
  m1 = m1 m2 = m2 x1 = x1
  Machine = {x1}
  Node = {m1, m2}
  MachineOf <- MachineOfDef
  ReqOf <- ReqOfDef
  Page = {p1}
  Span = {1, 2}
  MaxCount = 1
  MaxRuns = 2
  Profiled = {s1}
  MaxJobs = 1
  MaxTaken = 3
INVARIANT AnsweredOnce
INVARIANT MapsAgree
INVARIANT OneSocket
INVARIANT NewestProfile
PROPERTY StartsInOrder
PROPERTY StopEnds
PROPERTY CommandsAnswered
PROPERTY AgentsReturn
CHECK_DEADLOCK FALSE
