SPECIFICATION BlobSpec
CONSTANTS
  t1 = t1
  t2 = t2
  zero = zero
  Threads = {t1, t2}
  PoolSize = 2
  MaxPages = 5
  MaxPins = 2
  InitialSize = 1
  Data <- MCData
  Zero = zero
  MayFail = FALSE
  MaxBlobs = 2
  MaxChunks = 2
  MaxCalls = 4
SYMMETRY MCSymmetry
CHECK_DEADLOCK FALSE
INVARIANT ChainsWhole
