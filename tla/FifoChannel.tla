---------------------------- MODULE FifoChannel ----------------------------
(***************************************************************************)
(* What one direction of a shared memory channel promises: the messages    *)
(* the writer got "true" for reach the reader once each, whole, and in the *)
(* order they were written.  A message may also be refused, which is a     *)
(* stuttering step here.  A message the reader has no room for is not lost *)
(* either, but it need not be received, and the later ones wait behind it. *)
(***************************************************************************)
EXTENDS Naturals, Sequences

CONSTANTS
  Messages,   \* what may be sent
  Fitting     \* those the reader has room for

VARIABLES
  queue,      \* accepted, not yet handed to the reader
  received    \* handed to the reader, in order

vars == <<queue, received>>

Init ==
  /\ queue = <<>>
  /\ received = <<>>

Send(m) ==
  /\ queue' = Append(queue, m)
  /\ UNCHANGED received

Receive ==
  /\ queue # <<>>
  /\ received' = Append(received, Head(queue))
  /\ queue' = Tail(queue)

Next == Receive \/ \E m \in Messages : Send(m)

Spec == Init /\ [][Next]_vars /\ WF_vars(Receive /\ Head(queue) \in Fitting)
=============================================================================
