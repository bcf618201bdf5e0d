SPECIFICATION Spec
CONSTANTS
  d1 = d1
  d2 = d2
  Dispatches = {d1, d2}
  Modes <- MixedModes
  Window = 4
  MaxAttempts = 2
  PerAttemptTimeout = 1
  InitialBackoff = 1
  BackoffMultiplier = 2
  DispatchTimeout = 4
  ShutdownTimeout = 2
  MaxClock = 6
  MaxRestarts = 1
  MaxErrors = 1
CHECK_DEADLOCK FALSE
INVARIANTS
  ThrottleHolds
  DispatchIsBounded
  OneDeadReceiverDelaysNobody
SYMMETRY Symmetry
