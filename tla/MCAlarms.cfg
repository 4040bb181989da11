SPECIFICATION ReportsSpec
CONSTANTS
  Commands <- FreshCommands
  Script <- NoScript
  MaxPid = 2
  MaxCommands = 4
  MaxCrashes = 1
  ForksFail = TRUE
  Window = 1
  FalseAlarms = TRUE
INVARIANTS
  OnlyErasedAreKilled
  DeathReportedOnce
  DeadStaysSilent
CHECK_DEADLOCK FALSE
