SPECIFICATION Spec
CONSTANTS
  Threads = {t1, t2}
  MaxLen = 2
  Base = 2
  Digits = 2
  MaxKey = 2
INVARIANTS
  FlagHasThread
  BreaksOffForAReason
  CrashOnlyAbandoned
  NonceOnce
CHECK_DEADLOCK FALSE
