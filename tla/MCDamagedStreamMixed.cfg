SPECIFICATION Spec
CONSTANTS
  ChunkSizes = {2}
  MaxRead = 2
  MayMix = TRUE
  MayBreak = FALSE
  Sealed <- MCSealed
  Wires <- MCWires
INVARIANT MixedUseIsCaught
