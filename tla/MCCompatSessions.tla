-------------------------- MODULE MCCompatSessions --------------------------
(* Instances of CompatSessions for TLC.                                    *)
EXTENDS CompatSessions, TLC

Symmetry == Permutations(Ids) \cup Permutations(Requests)
============================================================================
