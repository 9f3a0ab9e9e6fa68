--------------------------- MODULE MCProtocolWorker ---------------------------
(* Four registers of two devices: two neighbours, one of them in two sizes,  *)
(* and one register of another device.                                       *)
EXTENDS ProtocolWorker

CONSTANTS p1, p2, p3, garbage

MCHandles ==
  { [dev_addr |-> 2, mem_addr |-> 10, size |-> 1], [dev_addr |-> 2, mem_addr |-> 10, size |-> 2],
    [dev_addr |-> 2, mem_addr |-> 12, size |-> 1], [dev_addr |-> 3, mem_addr |-> 10, size |-> 1] }
=============================================================================
