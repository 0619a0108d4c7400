SPECIFICATION AccountSpec
CONSTANTS
  Email = {e1}
  User = {u1}
  Link = {l1, l2}
  Worker = {w1}
  None = None
  TTL = 1
  GRACE = 0
  MaxTime = 0
INVARIANTS
  DeactivatedStaysOut
