----------------------------- MODULE MCIdToPtr -----------------------------
(* Few slots, so that threads meet on one of them and the table fills.      *)
EXTENDS IdToPtr, TLC

CONSTANTS t1, t2, t3, a, b, none

MCSymmetry == Permutations(Threads) \cup Permutations(Values)
=============================================================================
