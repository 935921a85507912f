SPECIFICATION PacingSpec

CONSTANTS
  Calls = {c1, c2}
  StaticLimit <- MCStatic
  TariffGroups <- MCGroups
  BurstCap = 2
  MaxWait = 3
  Deadlines = {1, 9}
  MaxRefresh = 1
  MaxTime = 5
  Requests = 2
  ReplayLimit = 2
  ReplayWindow = 4
  Watchdog = 7
  BackoffCap = 5
  MaxSend = 2
  MaxFailures = 3
  MaxClock = 14

INVARIANTS
  PacingTypeOK
  WithinTariff
  NoOrphanDebt
  ArrivalsWithinCap
  NoReconnectStorm

CHECK_DEADLOCK FALSE
