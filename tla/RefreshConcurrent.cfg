SPECIFICATION Spec
CONSTANTS
  User = {u1}
  Client = {c1, c2}
  Token = {t1, t2, t3}
  Worker = {w1, w2}
  None = None
  TTL = 1
  MaxTime = 0
SYMMETRY Symmetric
INVARIANTS
  TypeOK
  RotationLineage
  DeliveredIsStored
  RevokedBeforeReply
  LogoutSticks
  ReplayNeverRotates
PROPERTIES
  RowsOnlyConsumed
