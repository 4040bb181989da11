SPECIFICATION Spec
CONSTANTS
  Commands <- GeneralCommands
  Script <- NoScript
  MaxPid = 3
  MaxCommands = 4
  MaxCrashes = 0
  ForksFail = TRUE
  Window = 2
  FalseAlarms = FALSE
INVARIANTS
  TypeOK
  TreeShape
  TreeAsCommanded
  CreateOkIsGenuine
  ExecOkIsGenuine
  ExecutedOncePerNode
CHECK_DEADLOCK FALSE
