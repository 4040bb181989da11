SPECIFICATION FairSpec
CONSTANTS
  Msg = {a, b}
  HighWater = 2
  MaxPushes = 4
  MaxCrashes = 1
INVARIANTS
  TypeOK
  DispatcherNeverWaits
  FlushLosesNothing
PROPERTIES
  ImplementsChannel
  StopEnds
  PushedIsPulled
CHECK_DEADLOCK FALSE
