----------------------------- MODULE PageStore -----------------------------
(***************************************************************************)
(* What the buffer pool promises its callers: pages that keep what was last *)
(* written to them until they are deleted, as if there were no cache, no    *)
(* eviction and no file.  Once the device has refused a read or a write     *)
(* nothing is promised, until the store is opened anew with nothing lost.   *)
(***************************************************************************)
CONSTANTS PageIds, Data, Zero

VARIABLES content, faulty

vars == <<content, faulty>>

Init ==
  /\ content = [p \in PageIds |-> Zero]
  /\ faulty = FALSE

Write(p, d) ==
  /\ content' = [content EXCEPT ![p] = d]
  /\ UNCHANGED faulty

Delete(p) == Write(p, Zero)

\* a fault, what follows from it, and the recovery from it
Fault ==
  /\ faulty' \in BOOLEAN
  /\ faulty \/ faulty'
  /\ content' \in [PageIds -> Data]

Next ==
  \/ \E p \in PageIds : Delete(p) \/ \E d \in Data : Write(p, d)
  \/ Fault

Spec == Init /\ [][Next]_vars
=============================================================================
