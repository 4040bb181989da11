SPECIFICATION FairFreshSpec
CONSTANTS
  Commands <- BranchCommands
  Script <- NoScript
  MaxPid = 3
  MaxCommands = 4
  MaxCrashes = 1
  ForksFail = TRUE
  Window = 1
  FalseAlarms = FALSE
PROPERTIES
  CrashIsReported
CHECK_DEADLOCK FALSE
