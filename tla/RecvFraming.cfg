SPECIFICATION FairSpec
CONSTANTS
  H = 6
  TooLong = 12
  ReadMax = 8
  Lens = {0, 1, 9, 12}
  MaxMessages = 3
  MaxConnect = 2
INVARIANTS
  InFrame
  OneRead
PROPERTIES
  DeliverySpec
  HandledInTime
CHECK_DEADLOCK FALSE
