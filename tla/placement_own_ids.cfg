SPECIFICATION Spec

CONSTANTS
  p1 = p1
  p2 = p2
  k1 = k1
  k2 = k2
  Placements = {p1, p2}
  Keys = {k1, k2}
  Sweeps = {s1}
  KeyOf <- OwnKeys
  KindOf <- SyncAndAsync
  MaxAttempts = 2
  MaxDay = 1
  SettledSweeps = TRUE
  DefinitiveErrors = TRUE

INVARIANTS
  TypeOK
  NeverLost
  NotPlacedIsTrue
  ExitTruthful
PROPERTIES
  KeepsFate

CHECK_DEADLOCK FALSE
