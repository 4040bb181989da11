SPECIFICATION FairFreshSpec
CONSTANTS
  Commands <- StarCommands
  Script <- NoScript
  MaxPid = 3
  MaxCommands = 4
  MaxCrashes = 0
  ForksFail = FALSE
  Window = 2
  FalseAlarms = FALSE
INVARIANTS
  AlwaysFindsARecord
PROPERTIES
  ExecOfExistingIsAnswered
CHECK_DEADLOCK FALSE
