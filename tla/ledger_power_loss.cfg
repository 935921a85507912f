SPECIFICATION Spec

CONSTANTS
  Procs = {a, b}
  Existing = {1,2}
  MaxMonth = 2
  MaxRecord = 2
  ShortWrites = FALSE
  PowerFails = TRUE

INVARIANTS
  AckedReadable

CHECK_DEADLOCK FALSE
