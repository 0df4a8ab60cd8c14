SPECIFICATION FairSpec
CONSTANTS
  Start = Start
  Cancellers = {c1,c2}
  Retriers = {}
  NoRun = NoRun
  NumTargets = 2
  ProgressEvery = 2
  EarlyPickup = FALSE
  MaxCrashes = 1
  
PROPERTIES RunsEnd Settles
CHECK_DEADLOCK FALSE
