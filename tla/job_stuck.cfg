SPECIFICATION Spec
CONSTANTS
  Start = Start
  Cancellers = {}
  Retriers = {}
  NoRun = NoRun
  NumTargets = 1
  ProgressEvery = 2
  EarlyPickup = FALSE
  MaxCrashes = 0
INVARIANTS RunningHasRun
CHECK_DEADLOCK FALSE
