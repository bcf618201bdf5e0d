SPECIFICATION FairSpec
CONSTANTS
  e1 = e1
  e2 = e2
  p1 = p1
  p2 = p2
  s1 = s1
  s2 = s2
  Executions = {e1}
  Projects = {p1}
  ProjectOf <- OneTenant
  Schedulers = {s1}
  CheckpointInterval = 1
  Settle = 1
  Timeout = 2
  Retention = 2
  maxIntervalsPerTick = 2
  ClientSkew = 1
  MaxClock = 3
  MaxEvents = 1
  MaxWasted = 1
INVARIANTS
  NoOmission
PROPERTIES
  CatchesUp
