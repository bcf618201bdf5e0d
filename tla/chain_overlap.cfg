SPECIFICATION Spec
CONSTANTS
  e1 = e1
  e2 = e2
  p1 = p1
  p2 = p2
  s1 = s1
  s2 = s2
  Executions = {e1, e2}
  Projects = {p1}
  ProjectOf <- OneTenant
  Schedulers = {s1, s2}
  CheckpointInterval = 1
  Settle = 0
  Timeout = 2
  Retention = 9
  maxIntervalsPerTick = 1
  ClientSkew = 0
  MaxClock = 3
  MaxEvents = 0
  MaxWasted = 0
INVARIANTS
  ChainVerifies
  SubChainsVerify
  LinksReachTheLog
  ChainedAtMostOnce
PROPERTIES
  ImplementsLedger
SYMMETRY OneTenantSymmetry
VIEW NothingPruned
