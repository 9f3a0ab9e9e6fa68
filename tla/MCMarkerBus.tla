----------------------------- MODULE MCMarkerBus -----------------------------
(***************************************************************************)
(* An instance of MarkerBus for TLC, with the intervals of config.h at      *)
(* 16 MHz and sync frames sooner, as the addresses are small.               *)
(***************************************************************************)
EXTENDS MarkerBus

\* the link asks device 3, the others ask the link
TheTargets == [d \in Devices |-> IF d = Link THEN {3} ELSE {Link}]

\* switched on one after the other
TheStarts == {[d \in Devices |-> 30 * d]}
=============================================================================
