----------------------------- MODULE MCWebSocket -----------------------------
(***************************************************************************)
(* Instances of WebSocketSession for TLC.                                   *)
(***************************************************************************)
EXTENDS WebSocketSession

CONSTANTS a, b, c
=============================================================================
