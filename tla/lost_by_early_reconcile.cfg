SPECIFICATION Spec

CONSTANTS
  p1 = p1
  p2 = p2
  k1 = k1
  k2 = k2
  Placements = {p1}
  Keys = {k1}
  Sweeps = {s1}
  KeyOf <- OneKey
  KindOf <- OneSync
  MaxAttempts = 1
  MaxDay = 0
  SettledSweeps = FALSE
  DefinitiveErrors = TRUE

INVARIANTS
  EndedNeverLost

CHECK_DEADLOCK FALSE
