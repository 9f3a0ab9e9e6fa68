SPECIFICATION FairSpec
CONSTANTS
  x1 = x1
  x2 = x2
  o1 = o1
  o2 = o2
  none = none
  Sessions = {x1, x2}
  Objects = {o1, o2}
  NoObject = none
  MaxReferences = 1
  MaxIoThreads = 2
CHECK_DEADLOCK FALSE
INVARIANTS
  ReferencesCounted
  NeverDangling
  ReferencedIsServed
  NoneLeftBehind
PROPERTIES
  DeactivatedIsDestroyed
