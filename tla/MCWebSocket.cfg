SPECIFICATION Spec
CONSTANTS
  a = a
  b = b
  c = c
  ClientCalls = {a, b}
  ServerCalls = {c}
  Error = Error
CHECK_DEADLOCK FALSE
INVARIANT OneWrite
PROPERTIES ImplementsCalls EveryCallEnds
