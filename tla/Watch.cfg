SPECIFICATION Spec
CONSTANTS
  Server = {master, s1}
  Master = master
  NoServer = NoServer
  LateCloses = FALSE
  Respawn = FALSE
  FaultPlan <- ProcessFaultFirst
INVARIANT DirectoryAgrees
INVARIANT LatchesCount
INVARIANT KnowsAll
CHECK_DEADLOCK FALSE
