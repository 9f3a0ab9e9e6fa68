SPECIFICATION Spec
CONSTANTS
  a = a
  b = b
  p1 = p1
  p2 = p2
  Handles <- MCHandles
  Places = {p1, p2}
  Values = {"value"}
  Garbage = "garbage"
  MaxRegInReq = 2
  Listeners = {a, b}
  Threads = 3
  MaxAdvises = 1
  Lists <- MCLists
  MaxJobs = 1
  MaxRemovals = 0
  SendsFail = FALSE
CHECK_DEADLOCK FALSE
SYMMETRY MCSymmetry
INVARIANTS
  PointersLive
  HandlesCounted
  Fresh
  LastJob
