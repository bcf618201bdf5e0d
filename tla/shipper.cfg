SPECIFICATION Spec
CONSTANTS
  x1 = x1
  f1 = f1
  f2 = f2
  Executions = {x1}
  Flushes = {f1}
  Events = 3
  MaxQueue = 2
  BatchSize = 2
  MaxRetries = 1
  Unencodable <- Bad
  OverCap <- Long
CHECK_DEADLOCK FALSE
INVARIANTS
  WorksThroughInOrder
  FlushThenStats
PROPERTIES
  Drains
