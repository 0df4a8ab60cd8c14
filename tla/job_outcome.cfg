SPECIFICATION FairSpec
CONSTANTS
  Start = Start
  Cancellers = {c1}
  Retriers = {}
  NoRun = NoRun
  NumTargets = 1
  ProgressEvery = 2
  EarlyPickup = FALSE
  MaxCrashes = 0
PROPERTIES OutcomeSticks
CHECK_DEADLOCK FALSE
