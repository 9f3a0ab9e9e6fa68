SPECIFICATION RingFairSpec
CONSTANTS
  a = a
  b = b
  c = c
  w1 = w1
  w2 = w2
  r = r
  free = free
  Writers = {w1}
  Reader = r
  Free = free
  Messages <- MCMessages
  Size <- MCSize
  BufferSize = 9
  HeaderSize = 2
  MaxMessageSize = 3
  ReadSize = 2
  MaxWrites = 5
INVARIANTS
  RecordsIntact
  NoLostWakeup
PROPERTY
  ImplementsFifo
