SPECIFICATION ServiceSpec
CONSTANTS
  r1 = r1
  r2 = r2
  Requests = {r1}
  MaxInflight = 1
  Cap = 0
  Deployments <- MCDeployments
  HandlerTime = 1
  Graceful = 2
  MaxApps = 1
INVARIANTS
  AdmittedFinishes
CHECK_DEADLOCK FALSE
