SPECIFICATION FairSpec
CONSTANTS
  b1 = b1
  b2 = b2
  p1 = p1
  p2 = p2
  e1 = e1
  e2 = e2
  Processes = {b1}
  Projects = {p1}
  Executions = {e1, e2}
  Ceilings = {2}
  Budgeted = {e1}
  Supervised = {e1}
  Corrected = {e1}
  MaxMonth = 2
  MaxCost = 1
  MaxFaults = 1
INVARIANTS
  OneNoticePerMonth
  HaltHasACause
PROPERTIES
  BreachIsAnnounced
  FanOutHalts
