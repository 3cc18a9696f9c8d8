SPECIFICATION Spec
CONSTANTS
  p1 = p1
  p2 = p2
  f1 = f1
  f2 = f2
  f3 = f3
  f4 = f4
  Procs = {p1, p2}
  Files = {f1, f2, f3, f4}
  Params <- MCParams
INVARIANTS TypeOK TmpIsOwn NoOrphan
PROPERTY IsRegister
SYMMETRY MCSymmetry
