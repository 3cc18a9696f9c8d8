SPECIFICATION FairPipeSpec
CONSTANTS
  ChunkSize = 2
  MaxInput = 4
  SinkFaults = {"lost", "torn", "kept"}
  MaxFaults = 2
INVARIANTS UndamagedDecrypts SuccessIsComplete
PROPERTIES ImplementsCopy JobsReturn
