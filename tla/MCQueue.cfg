SPECIFICATION FairSpec
CONSTANTS
  T = {x, y}
  Producers = {p1, p2}
  Consumers = {c1, c2}
  MaxPushes = 3
INVARIANTS
  TypeOK
  PopFindsAnItem
  Fifo
  NoLostWakeup
PROPERTIES
  WaitersAreServed
CHECK_DEADLOCK FALSE
