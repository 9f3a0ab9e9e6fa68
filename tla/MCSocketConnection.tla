------------------------- MODULE MCSocketConnection -------------------------
(* A blocking call and two others on one connection.                        *)
EXTENDS SocketConnection

CONSTANTS s1, s2, a1, none
=============================================================================
