SPECIFICATION FairSpec
CONSTANTS
  s1 = s1
  s2 = s2
  x = x
  y = y
  sn = sn
  e1 = e1
  mx = mx
  my = my
  Sessions = {s1, s2}
  Addresses = {x, y}
  Serials = {sn}
  Ports = {e1}
  Macs = {mx, my}
  None = None
  Unknown = Unknown
  Targets <- MCTargets
  Reports <- MCReports
  MaxFails = 1
INVARIANTS NoUniqueViolation LinkEndsExist
PROPERTIES  StableIds RunsEnd
CHECK_DEADLOCK FALSE
