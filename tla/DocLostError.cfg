SPECIFICATION ScriptSpec
CONSTANTS
  Commands <- NoCommands
  Script <- LostErrorScript
  MaxPid = 4
  MaxCommands = 6
  MaxCrashes = 0
  ForksFail = FALSE
  Window = 1
  FalseAlarms = FALSE
INVARIANT
  EveryCommandIsAnswered
CHECK_DEADLOCK FALSE
