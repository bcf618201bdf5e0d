SPECIFICATION Spec
CONSTANTS
  w1 = w1
  w2 = w2
  Workers = {w1}
  Included = 1
  TeamAIAnalysisLimit = 0
  BillingCapUSD = 1
  Windows = {2, 3}
  MaxSubscriptions = 1
  MaxPeriod = 2
  MaxUse = 2
  MaxRedeliveries = 1
  MaxErrors = 1
CHECK_DEADLOCK FALSE
INVARIANTS
  RetentionFitsTier
  TierFollowsSubscription
  OverageInvoicedOnce
