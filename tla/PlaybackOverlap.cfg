SPECIFICATION Spec
CONSTANTS
  Threads = {t1, t2}
  MaxLen = 1
  Base = 2
  Digits = 2
  MaxKey = 2
INVARIANTS
  NonceAlwaysOnce
CHECK_DEADLOCK FALSE
