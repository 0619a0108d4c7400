SPECIFICATION Spec
CONSTANTS
  User = {u1, u2}
  Client = {c1, c2}
  Token = {t1, t2, t3}
  Worker = {w1}
  None = None
  TTL = 1
  MaxTime = 1
SYMMETRY Symmetric
PROPERTIES
  AlarmEndsEverySession
  ImplementsLedger
