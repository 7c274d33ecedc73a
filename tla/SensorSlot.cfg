SPECIFICATION Spec
CONSTANTS
  Sessions = {s1, s2}
  Captures = {c1, c2}
  Callers = {t1, t2}
  Busy = {}
  NoCapture = NoCapture
  NoSession = NoSession
SYMMETRY SensorSymmetry
INVARIANTS TypeOK ActiveSlot ForgottenIsSettled
PROPERTIES EndsAreFinal
CHECK_DEADLOCK FALSE
