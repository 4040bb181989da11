SPECIFICATION ScriptSpec
CONSTANTS
  Commands <- NoCommands
  Script <- TwoAnswersScript
  MaxPid = 4
  MaxCommands = 6
  MaxCrashes = 0
  ForksFail = FALSE
  Window = 1
  FalseAlarms = FALSE
INVARIANT
  ServerStaysOperational
CHECK_DEADLOCK FALSE
