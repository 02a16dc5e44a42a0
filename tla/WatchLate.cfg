SPECIFICATION Spec
CONSTANTS
  Server = {master, s1}
  Master = master
  NoServer = NoServer
  LateCloses = TRUE
  Respawn = FALSE
  FaultPlan <- OneFaultOrSilence
INVARIANT LateAgrees
CHECK_DEADLOCK FALSE
