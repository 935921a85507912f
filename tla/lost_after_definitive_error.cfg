SPECIFICATION Spec

CONSTANTS
  p1 = p1
  p2 = p2
  k1 = k1
  k2 = k2
  Placements = {p1}
  Keys = {k1}
  Sweeps = {s1}
  KeyOf <- OneKey
  KindOf <- OneSync
  MaxAttempts = 2
  MaxDay = 1
  SettledSweeps = TRUE
  DefinitiveErrors = FALSE

INVARIANTS
  RejectedIsTrue

CHECK_DEADLOCK FALSE
