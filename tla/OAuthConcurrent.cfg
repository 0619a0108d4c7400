SPECIFICATION Spec
CONSTANTS
  Identity = {i1, i2}
  Email = {e1, e2}
  User = {u1, u2}
  LinkId = {l1, l2}
  Worker = {w1, w2}
  None = None
SYMMETRY Symmetric
INVARIANTS
  TypeOK
  LinkOutlivesEmail
  DeactivatedStaysOut
  NoUnlinkedAccount
