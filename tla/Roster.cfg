SPECIFICATION Spec
CONSTANTS
  Sessions = {s1, s2}
  Ids = {1, 2}
  MaxEvents = 4
  MaxConnect = 2
INVARIANTS
  UniqueEntries
  PointersAlive
  RosterMatches
  CrashOnlyStale
CHECK_DEADLOCK FALSE
