SPECIFICATION Spec
CONSTANTS
  Sessions = {s1, s2}
  Ids = {1, 2}
  MaxEvents = 4
  MaxConnect = 2
INVARIANTS
  KnownWhenNamed
CHECK_DEADLOCK FALSE
