SPECIFICATION FairSpec
CONSTANTS
  Server = {master, s1}
  Master = master
  NoServer = NoServer
  LateCloses = FALSE
  Respawn = TRUE
  FaultPlan <- OneFault
INVARIANT BackAgrees
PROPERTY Returns
CHECK_DEADLOCK FALSE
