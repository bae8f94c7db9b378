SPECIFICATION FairSpec
CONSTANTS
  MaxRelayed = 3
  MaxPings = 2
INVARIANTS
  NoLostWakeup
  RelayedInOrder
  WritesUnlessRaced
PROPERTIES
  RelayProgress
CHECK_DEADLOCK FALSE
