\* The challenges run out, and then the system may rest.
CHECK_DEADLOCK FALSE
SPECIFICATION Spec
CONSTANTS
  User = {u1, u2}
  Client = {c1}
  Credential = {k1}
  RowId = {r1, r2}
  Challenge = {h1, h2, h3}
  Worker = {w1, w2}
  None = None
  TTL = 1
  MaxTime = 1
SYMMETRY Symmetric
INVARIANTS
  TypeOK
  OneRowPerCredential
  ReplayNeverSignsIn
  DeletedNeverSignsIn
  DeactivatedStaysOut
  DeletedStaysDeleted
PROPERTIES
  OnlyOwnerDeletes
