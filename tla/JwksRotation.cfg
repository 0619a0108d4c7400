SPECIFICATION Spec
CONSTANTS
  Kid = {kid1, kid2}
  Process = {p1}
  None = None
  TTL = 2
  MaxAge = 2
  Lifespan = 1
  CacheMaxAge = 3
  Cooldown = 2
  MaxTime = 3
SYMMETRY Symmetric
INVARIANTS
  TypeOK
  RotationRollsOut
  AcceptedStaysAccepted
  RetiredKeyDies
