SPECIFICATION FairSpec
CONSTANTS
  a = a
  b = b
  p1 = p1
  p2 = p2
  Handles <- MCOneHandle
  Places = {p1}
  Values = {"value"}
  Garbage = "garbage"
  MaxRegInReq = 2
  Listeners = {a}
  Threads = 3
  MaxAdvises = 2
  Lists <- MCOneList
  MaxJobs = 1
  MaxRemovals = 1
  SendsFail = TRUE
CHECK_DEADLOCK FALSE
PROPERTY CallsReturn
