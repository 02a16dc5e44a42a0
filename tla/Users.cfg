SPECIFICATION Spec
CONSTANTS
  f1 = f1 f2 = f2 u1 = u1 u2 = u2 s1 = s1 s2 = s2
  Frontend = {f1, f2}
  Own = f1
  Uid = {u1}
  Session = {s1, s2}
  Home <- HomeDef
  User <- UserDef
  Scheduler <- SchedulerDef
  Number = {1}
  MaxListed = 2
  Copy = {c1, c2}
  Key = {k1}
  Value = {0}
  SingleSession = TRUE
  NoUid = NoUid
  MaxCalls = 2
  On <- OnDef
  StatusUid = {u1, u2}
  CleanOnStartUp = TRUE
  MaxStarts = 2
  MaxPushes = 1
  MaxCommands = 1
  Entry = {e1, e2}
  OfUser = {e2}
  MaxValue = 2
  MaxSent = 3
  MaxCount = 1
  MaxCrashes = 1
  Name = {n1, n2}
  Object = {o1, o2}
  Member <- MemberDef
  Sidless <- SidlessDef
  NoObject = NoObject
  MaxWrites = 2
INVARIANTS EveryMember SessionsAgree NewestIsKept
PROPERTY PushReturns
CHECK_DEADLOCK FALSE
