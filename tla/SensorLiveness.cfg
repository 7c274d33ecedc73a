SPECIFICATION FairSpec
CONSTANTS
  Sessions = {s1}
  Captures = {c1}
  Callers = {t1, t2}
  Busy = {c1}
  NoCapture = NoCapture
  NoSession = NoSession
PROPERTIES StopsComplete KeptUntilReset
CHECK_DEADLOCK FALSE
