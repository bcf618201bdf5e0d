SPECIFICATION LifecycleSpec
CONSTANTS
  r1 = r1
  r2 = r2
  Requests = {r1, r2}
  Terminal = {"completed", "halted"}
  Overlap = FALSE
  MaxClock = 6
  MaxPauses = 3
INVARIANTS
  WaitingIsPaused
  PausedTimeFitsTheRun
PROPERTIES
  TerminalIsFinal
