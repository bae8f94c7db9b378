SPECIFICATION FairSpec
CONSTANTS
  MaxSend = 5
  MaxRecv = 3
  MaxConnect = 2
INVARIANTS
  OneWrite
  FifoOnce
  HandshakeFirst
  QueueHasWriter
  KeepAlive
  CrashOnlyOffline
PROPERTIES
  NothingAfterTorn
  OutboxSpec
  SendProgress
  DisconnectDrains
CHECK_DEADLOCK FALSE
