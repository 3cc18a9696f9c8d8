SPECIFICATION Spec
CONSTANTS
  b1 = b1  b2 = b2  b3 = b3  b4 = b4
  t1 = t1  t2 = t2
  r1 = r1  r2 = r2
  k1 = k1
  Null = Null
  MaxDropped = 1
  Threads = {t1, t2}
  Results = {r1, r2}
  Keypairs = {k1}
  Blocks = {b1, b2, b3, b4}
SYMMETRY Symmetry
INVARIANTS TypeOK NoBadAccess NothingLost SettledStructs
CHECK_DEADLOCK FALSE
