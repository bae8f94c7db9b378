SPECIFICATION Spec
CONSTANTS
  H = 6
  TooLong = 9
  ReadMax = 5
  Lens = {0, 5}
  MaxMessages = 3
  MaxConnect = 2
INVARIANTS
  ParsesTheStream
CHECK_DEADLOCK FALSE
