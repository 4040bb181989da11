SPECIFICATION Spec
CONSTANTS
  One = 100
  Decimal = 10
  Precision = 100000
  Spacings <- MCSpacings
  MaxDouble = 159998400
  Commands <- MCCommands
  OtherLines <- MCOtherLines
  Others <- MCOthers
  Pids = {4711}
  Depth = 3
  MaxLines = 2
\* After print the client waits for what never comes.
CHECK_DEADLOCK FALSE
INVARIANTS
  TypeOK
  LineIsUnderstood
  MessagesSurvive
  SumIsShown
