SPECIFICATION TableSpec
CONSTANTS
  t1 = t1
  t2 = t2
  t3 = t3
  a = a
  b = b
  none = none
  Threads = {t1, t2, t3}
  Values = {a, b}
  NoValue = none
  MaxSize = 2
  CntMod = 8
  MaxSwaps = 6
SYMMETRY MCSymmetry
INVARIANTS
  ChainIntact
  OneOwner
  LiveFound
  RemovedNotFound
