SPECIFICATION Spec
CONSTANTS
  Period = 6
  CreateTicks = 2
  Latency = 0
  MaxChildren = 2
  MaxDeaths = 2
  MaxTime = 26
  IsRoot = TRUE
INVARIANTS
  TypeOK
  OnlyTheDeadAreReported
  DeathsAreReportedInTime
CHECK_DEADLOCK FALSE
