SPECIFICATION Spec

CONSTANTS
  Procs = {a, b}
  Existing = {1}
  MaxMonth = 2
  MaxRecord = 2
  ShortWrites = TRUE
  PowerFails = FALSE

INVARIANTS
  TypeOK
  ScanComplete
  RepairHarmless

CHECK_DEADLOCK FALSE
