SPECIFICATION FairServiceSpec
CONSTANTS
  r1 = r1
  r2 = r2
  Requests = {r1, r2}
  MaxInflight = 1
  Cap = 0
  Deployments <- MCDeployments
  HandlerTime = 1
  Graceful = 2
  MaxApps = 2
INVARIANTS
  SlotsExact
  RefusedIffTooBig
  ServesWhatItLoaded
  LeavesNothing
  DrainFinishes
PROPERTIES
  ShutdownEnds
CHECK_DEADLOCK FALSE
