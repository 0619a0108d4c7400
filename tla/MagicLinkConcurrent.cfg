SPECIFICATION FairSpec
CONSTANTS
  Email = {e1}
  User = {u1, u2}
  Link = {l1, l2}
  Worker = {w1, w2}
  None = None
  TTL = 1
  GRACE = 0
  MaxTime = 2
INVARIANTS
  TypeOK
  ReplayNeverRedeems
  UsedLinkNamesItsUser
  OneAccountPerEmail
  AcknowledgedLinkStored
PROPERTIES
  RequestsEnd
  CleanupSparesRedeemable
