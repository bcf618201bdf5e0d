SPECIFICATION Spec
CONSTANTS
  s1 = s1
  s2 = s2
  r1 = r1
  g1 = g1
  Schedulers = {s1, s2}
  Requests = {r1}
  Groups = {g1}
  Included = 0
  AnalysisPrice = 1
  HobbyAIAnalysisLimit = 1
  MinCharge = 2
  BillingCapUSD = 2
  Period = 2
  RetryCadence = 2
  FailureCeiling = 2
  KeyLife = 1
  Removals = TRUE
  MaxClock = 3
  MaxCustomers = 1
  MaxInFlight = 1
  MaxCrashes = 0
  MaxErrors = 0
CHECK_DEADLOCK FALSE
INVARIANTS
  OneChargePerPeriod
  MeterStops
SYMMETRY Symmetry
