SPECIFICATION FairSpec
CONSTANTS
  ChunkSize = 2
  MaxInput = 7
  SinkFaults = {"lost", "torn", "kept"}
INVARIANTS TypeOK NonceUsedOnce OpenedIsInOrder EOFIsComplete CleanCloseOpens
PROPERTY CallsReturn
