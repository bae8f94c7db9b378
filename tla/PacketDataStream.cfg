CONSTANTS
  Samples <- MCSamples
  Blocks <- MCBlocks
  Bytes = {129, 248}
  Types = {"int", "ushort", "char", "uint64", "float"}
  Capacity = 11
  MaxCalls = 3
SPECIFICATION Spec
INVARIANTS Readable CutNoticed UndersizeExact
CHECK_DEADLOCK FALSE
