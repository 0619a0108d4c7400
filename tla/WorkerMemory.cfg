SPECIFICATION Spec
CONSTANTS
  Key = {k1}
  Origin = {o1}
  Worker = {w1, w2}
  None = None
  Max = 2
  Window = 1
  TTL = 2
  MaxTime = 2
  MaxRestarts = 1
SYMMETRY Symmetric
INVARIANTS
  WindowBudget
  OnlyAdmittedCount
  EffectiveBudget
  StaleAtMostTTL
