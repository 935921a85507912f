SPECIFICATION FairSpec

CONSTANTS
  p1 = p1
  p2 = p2
  k1 = k1
  k2 = k2
  Placements = {p1}
  Keys = {k1}
  Sweeps = {s1, s2}
  KeyOf <- OneKey
  KindOf <- OneReplace
  MaxAttempts = 2
  MaxDay = 1
  SettledSweeps = TRUE
  DefinitiveErrors = TRUE

PROPERTIES
  KeepsFate
  DoubtEnds

CHECK_DEADLOCK FALSE
