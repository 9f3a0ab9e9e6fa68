SPECIFICATION FairSpec
CONSTANTS
  s1 = s1
  s2 = s2
  a1 = a1
  none = none
  SyncCalls = {s1, s2}
  AsyncCalls = {a1}
  None = none
  Parts = 2
  MaxResets = 1
CHECK_DEADLOCK FALSE
INVARIANTS
  QueueServed
  OwnAnswer
  AtMostOnce
PROPERTIES
  EveryCallEnds
