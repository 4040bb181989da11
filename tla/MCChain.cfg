SPECIFICATION ChainSpec
CONSTANTS
  Commands <- ChainCommands
  Script <- NoScript
  MaxPid = 3
  MaxCommands = 5
  MaxCrashes = 0
  ForksFail = FALSE
  Window = 2
  FalseAlarms = FALSE
INVARIANTS
  AlwaysFindsARecord
PROPERTIES
  ImplementsService
CHECK_DEADLOCK FALSE
