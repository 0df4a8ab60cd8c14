SPECIFICATION RotSpec
CONSTANTS
  RotCount = 2
  RotKinds <- RotKindSet
  RotLists <- RotListSet
  RotDevices <- RotCreds
INVARIANTS CorrectProfileIsTried
CHECK_DEADLOCK FALSE
