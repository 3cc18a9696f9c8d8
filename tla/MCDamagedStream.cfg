SPECIFICATION FairSpec
CONSTANTS
  ChunkSizes = {1, 2}
  MaxRead = 2
  MayMix = FALSE
  MayBreak = TRUE
  Sealed <- MCSealed
  Wires <- MCWires
INVARIANTS TypeOK DeliversInOrder EOFIsWholePlaintext LocatesDamage CutIsNotTampering
PROPERTIES FailStop WriteToReturns
