------------------------------ MODULE MCServants ------------------------------
(* Two sessions that share two servants, on one io thread or on two.        *)
EXTENDS Servants

CONSTANTS x1, x2, o1, o2, none
=============================================================================
