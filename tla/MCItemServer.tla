----------------------------- MODULE MCItemServer -----------------------------
(* Two clients, and two registers of one device that are not neighbours.     *)
EXTENDS ItemServer, TLC

CONSTANTS a, b, p1, p2

MCOne == [dev_addr |-> 2, mem_addr |-> 10, size |-> 1]
MCTwo == [dev_addr |-> 2, mem_addr |-> 12, size |-> 1]
MCHandles == {MCOne, MCTwo}
\* the last one asks for two bits of the same byte
MCLists == {<<MCOne>>, <<MCTwo, MCTwo, MCOne>>}

MCOneHandle == {MCOne}
MCOneList == {<<MCOne>>}

MCSymmetry == Permutations(Listeners)
=============================================================================
