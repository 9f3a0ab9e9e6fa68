----------------------------- MODULE RemoteCalls -----------------------------
(***************************************************************************)
(* What a session that numbers its requests promises to those who call      *)
(* through it: the other side carries a call out at most once, and the      *)
(* handler of a call is called at most once, with the answer to that call   *)
(* after it was carried out, or with an error.                              *)
(***************************************************************************)
EXTENDS Naturals, Sequences

CONSTANTS Calls, Error

VARIABLES
  served,  \* call -> times it was carried out
  outcome  \* call -> what its handler was called with, in turn

Init == served = [k \in Calls |-> 0] /\ outcome = [k \in Calls |-> <<>>]

Serve(k) ==
  /\ served[k] = 0
  /\ served' = [served EXCEPT ![k] = 1]
  /\ UNCHANGED outcome

\* the answer to a call is named by the call
Answer(k) ==
  /\ outcome[k] = <<>> /\ served[k] = 1
  /\ outcome' = [outcome EXCEPT ![k] = <<k>>]
  /\ UNCHANGED served

\* a session that closes tells all that wait
Fail ==
  /\ \E K \in SUBSET {k \in Calls : outcome[k] = <<>>} :
       outcome' = [k \in Calls |-> IF k \in K THEN <<Error>> ELSE outcome[k]]
  /\ UNCHANGED served

Next == (\E k \in Calls : Serve(k) \/ Answer(k)) \/ Fail

Spec == Init /\ [][Next]_<<served, outcome>>
=============================================================================
