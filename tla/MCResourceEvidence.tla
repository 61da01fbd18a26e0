------------------------- MODULE MCResourceEvidence -------------------------
(* Two resources, two values and three instants: a write, a stale read and   *)
(* a later read of each resource are distinguishable.                        *)
EXTENDS ResourceEvidence, TLC

MCTime == 0..2
Symmetry == Permutations(Value)
=============================================================================
