CONSTANTS
  AES_BLOCK_SIZE = 3
  ByteBits = 1
  Poly <- MCPoly
  AES <- MCAES
  Nonces <- MCNonces
  Messages <- MCMessages
  Order = 7
  Three = 3
  Log <- MCLog
SPECIFICATION Spec
INVARIANTS RoundTrip ChangeDetected OffsetsDiffer
CHECK_DEADLOCK FALSE
