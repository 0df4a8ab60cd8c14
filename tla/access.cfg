SPECIFICATION AccessSpec
CONSTANTS
  AuthUsers = {u1}
  AuthRequests = {r1, r2}
  AccessTtl = 1
  RefreshTtl = 2
  MaxTokens = 3
  MaxLogins = 1
  MaxAuthTime = 2
  NoToken = NoToken
  Clients = {c1, c2}
  Limit = 2
  Window = 2
  MaxTime = 5
  p1 = p1
  p2 = p2
  CredDevices = {d1}
  Profiles = {p1, p2}
  NewProfiles = {p2}
  Seeds = {x1}
  Binders = {b1}
  Writers = {w1}
  Assigners = {g1}
  IdLists <- CredIdLists
  NoBind = NoBind
  MaxCalls = 4
  RotCount = 2
  RotKinds <- RotKindSet
  RotLists <- RotListSet
  RotDevices <- RotCreds
  MaxRelease = 2
  MaxKeys = 2
  MaxStops = 2
  NoEnv = NoEnv
  NoDb = NoDb
INVARIANTS OverlapsOnly  SeedProfileFirst  CompleteIsCurrent
PROPERTIES ImplementsSlidingWindow SetReplaces AssignReaches
CHECK_DEADLOCK FALSE
