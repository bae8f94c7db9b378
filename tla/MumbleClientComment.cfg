SPECIFICATION Spec
CONSTANTS
  MaxSend = 4
  MaxRecv = 3
  MaxConnect = 2
INVARIANTS
  CommentsOnlyAuthenticated
CHECK_DEADLOCK FALSE
