---------------------------- MODULE MCBufferPool ----------------------------
(* One page more than frames, so that every fetch of a third page evicts.   *)
EXTENDS BufferPool, TLC

CONSTANTS t1, t2, zero, a

MCSymmetry == Permutations(Threads)
=============================================================================
