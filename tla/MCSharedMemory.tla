--------------------------- MODULE MCSharedMemory ---------------------------
(***************************************************************************)
(* Instances of SharedMemorySession for TLC.                                *)
(***************************************************************************)
EXTENDS SharedMemorySession, TLC

CONSTANTS a, b, c, p

TheBig == {<<b, 1>>, <<c, 2>>}
TheMaxCalls == (a :> 2) @@ (b :> 1) @@ (c :> 2)
TheBigReply == {<<a, 2>>}
=============================================================================
