SPECIFICATION WorkerFairSpec
CONSTANTS
  p1 = p1
  p2 = p2
  p3 = p3
  garbage = garbage
  Handles <- MCHandles
  Places = {p1, p2, p3}
  Values = {0}
  Garbage = garbage
  MaxRegInReq = 2
  MaxTasks = 3
  MaxRemovals = 1
CHECK_DEADLOCK FALSE
INVARIANTS
  TableSound
  TableRequested
PROPERTY
  EveryRegisterPolled
