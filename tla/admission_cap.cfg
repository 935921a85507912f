SPECIFICATION FairSpec

CONSTANTS
  a = a
  b = b
  c = c
  Nobody = Nobody
  Commands = {a, b, c}
  KindOf <- MixedKinds
  Others = {other}
  MaxOpen = 1
  MaxAttempts = 1
  LateRequests = TRUE

INVARIANTS
  TypeOK
  KnownWithinCap
  SwitchStopsCommands

PROPERTIES
  LockPasses

CHECK_DEADLOCK FALSE
