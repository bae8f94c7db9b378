SPECIFICATION Spec
CONSTANTS
  MaxSend = 4
  MaxRecv = 3
  MaxConnect = 2
INVARIANTS
  InitialMessagesSent
CHECK_DEADLOCK FALSE
