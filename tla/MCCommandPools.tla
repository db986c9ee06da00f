--------------------------- MODULE MCCommandPools ---------------------------
(* TLC instances of CommandPools.                                           *)
EXTENDS CommandPools

CONSTANTS s1, s2

TwoSlots == {s1, s2}
Symmetry == {[s \in TwoSlots |-> s], [s \in TwoSlots |-> IF s = s1 THEN s2 ELSE s1]}
=============================================================================
