--------------------------- MODULE MCBlobManager ---------------------------
(* Page contents are the headers of overflow pages; two blobs of a few      *)
(* pages in a pool of two frames.                                           *)
EXTENDS BlobManager, TLC

CONSTANTS t1, t2, zero

MCData == {zero} \cup {Chunk(b, i, n) : b \in BlobIds, i \in 0 .. MaxChunks - 1, n \in PageIds}
MCSymmetry == Permutations(Threads)
=============================================================================
