SPECIFICATION Spec
CONSTANTS
  Start = Start
  Cancellers = {c1}
  Retriers = {r1}
  NoRun = NoRun
  NumTargets = 1
  ProgressEvery = 2
  EarlyPickup = FALSE
  MaxCrashes = 1
INVARIANTS TypeOK SnapshotIffCompleted CompletedHasSnapshot
CHECK_DEADLOCK FALSE
