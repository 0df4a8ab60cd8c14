SPECIFICATION Spec
CONSTANTS
  Polled = {p1}
  Syslog = {t1}
  Sweeps = {w1,w2}
  Messages = {m1}
  NumDest = 2
  NoSession = NoSession
  MaxFlips = 2
  MaxEdits = 1
  MaxFailures = 1
SYMMETRY Symmetry
INVARIANTS  CommittedIsNotified
PROPERTY ImplementsRecord
CHECK_DEADLOCK FALSE
