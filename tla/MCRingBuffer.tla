---------------------------- MODULE MCRingBuffer ----------------------------
(* Small rings for TLC: a four byte header would only lengthen the ring, so *)
(* the header has two bytes; the messages have one, two and three.          *)
EXTENDS RingBuffer, TLC

CONSTANTS a, b, c, w1, w2, r, free

MCMessages == {a, b, c}
MCSize == (a :> 1) @@ (b :> 2) @@ (c :> 3)
=============================================================================
