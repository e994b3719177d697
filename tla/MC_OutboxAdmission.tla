------------------------- MODULE MC_OutboxAdmission -------------------------
(***************************************************************************)
(* Dispatchers for TLC: one and its replacement on the first store, and    *)
(* one on the second.                                                      *)
(***************************************************************************)
EXTENDS OutboxAdmission

CONSTANTS d1, d2, d3, s1, s2

MCStoreOf == [d \in Dispatchers |-> IF d = d3 THEN s2 ELSE s1]
=============================================================================
