SPECIFICATION Spec
CONSTANTS
  s1 = s1
  s2 = s2
  r1 = r1
  g1 = g1
  Schedulers = {s1}
  Requests = {r1}
  Groups = {}
  Included = 0
  AnalysisPrice = 1
  HobbyAIAnalysisLimit = 1
  MinCharge = 1
  BillingCapUSD = 1
  Period = 6
  RetryCadence = 2
  FailureCeiling = 2
  KeyLife = 1
  Removals = FALSE
  MaxClock = 15
  MaxCustomers = 2
  MaxInFlight = 1
  MaxCrashes = 1
  MaxErrors = 1
CHECK_DEADLOCK FALSE
INVARIANTS
  AttemptsAreSpaced
  DetachesOnlyAtCeiling
  OverdueIsBounded
