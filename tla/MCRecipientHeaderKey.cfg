SPECIFICATION Spec
CONSTANTS
  a = a
  b = b
  weak = weak
  Ids = {a, b, weak}
  WeakIds = {weak}
  MaxCount = 2
  MaxChunk = 2
  DefaultChunk = 1
  ChunkArgs <- MCChunkArgs
  MaxRecipients = 3
  MaxIdentities = 2
CHECK_DEADLOCK FALSE
INVARIANT KeyZeroedAfterUse
