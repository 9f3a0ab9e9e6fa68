SPECIFICATION Spec
CONSTANTS
  t1 = t1
  t2 = t2
  zero = zero
  a = a
  Threads = {t1, t2}
  PoolSize = 2
  MaxPages = 3
  MaxPins = 1
  InitialSize = 0
  Data = {zero, a}
  Zero = zero
  MayFail = TRUE
SYMMETRY MCSymmetry
INVARIANTS
  FramesPartitioned
  PointersStayGood
PROPERTIES
  IdsAreNew
  ImplementsPageStore
