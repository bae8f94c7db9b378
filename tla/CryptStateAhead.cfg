SPECIFICATION Spec
CONSTANTS
  Base = 6
  Half = 3
  Window = 3
  UIntMod = 32
  Nonces <- MCNonces
  MaxSent = 9
  MaxKeys = 2
  MaxGood = 7
  MaxSyncs = 1
INVARIANTS
  AheadIsGood
CHECK_DEADLOCK FALSE
