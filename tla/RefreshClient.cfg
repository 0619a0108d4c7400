SPECIFICATION ClientSpec
CONSTANTS
  User = {u1}
  Client = {c1}
  Token = {t1, t2, t3}
  Worker = {w1, w2}
  Device = {d1, d2}
  None = None
  TTL = 1
  MaxTime = 1
SYMMETRY Symmetric
CONSTRAINT FewTokensLate
INVARIANTS
  ClientTypeOK
  OnlyDocumentedAnswers
  NoFalseAlarm
PROPERTIES
  ServerSpec
