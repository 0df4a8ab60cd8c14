SPECIFICATION FairSpec
CONSTANTS
  Polled = {}
  Syslog = {t1,t2}
  Sweeps = {}
  Messages = {m1,m2}
  NumDest = 1
  NoSession = NoSession
  MaxFlips = 0
  MaxEdits = 1
  MaxFailures = 1
PROPERTIES SessionsEnd
CHECK_DEADLOCK FALSE
