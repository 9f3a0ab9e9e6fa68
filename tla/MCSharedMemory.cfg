SPECIFICATION Spec
CONSTANTS
  a = a
  b = b
  c = c
  p = p
  Callers = {a, b}
  AsyncCallers = {c}
  Others = {p}
  MaxSessions = 2
  MaxCalls <- TheMaxCalls
  MaxTimeouts = 1
  Big <- TheBig
  BigReply <- TheBigReply
  None = None
  Dead = Dead
  Mixed = Mixed
CHECK_DEADLOCK FALSE
INVARIANTS OwnReply PoolUsable HandshakeKept
PROPERTY EveryCallEnds
