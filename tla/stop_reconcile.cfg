SPECIFICATION Spec

CONSTANTS
  Commands = {c1, c2}
  Strangers = {o1}
  Sweeps = {s1}
  FieldsOf <- Alike
  Window = 0
  Skew = 0
  MaxTime = 1
  QuietSweeps = TRUE

INVARIANTS
  TypeOK
  AssignedOnce
  OwnOrderFirst
  StopNeverLost

CHECK_DEADLOCK FALSE
