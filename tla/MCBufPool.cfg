SPECIFICATION Spec
CONSTANTS
  w1 = w1
  w2 = w2
  r1 = r1
  a1 = a1
  a2 = a2
  a3 = a3
  a4 = a4
  b1 = b1
  b2 = b2
  Nil = Nil
  Writers = {w1, w2}
  Readers = {r1}
  Arrays = {a1, a2, a3, a4, b1, b2}
  CapOf <- MCCapOf
  PoolCap = 2
  WriterChunks = {2}
  ReaderChunks = {1, 2}
  RetryReads = FALSE
  CloseFailedReads = FALSE
SYMMETRY MCSymmetry
INVARIANTS TypeOK NoSharedBuffer PoolIsWiped ReadFromFits
