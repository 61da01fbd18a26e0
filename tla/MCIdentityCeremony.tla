-------------------------- MODULE MCIdentityCeremony --------------------------
(* Two mice and two profiles: a ceremony can stop between two profiles, and a *)
(* token can reach the wrong mouse.  One process begins three ceremonies, two *)
(* begin two; once, at any moment, a mouse loses a mark or is exchanged.      *)
EXTENDS IdentityCeremony, TLC

BeginsByProcesses == <<3, 2>>
UpsetsByProcesses == <<1, 1>>

Symmetry == Permutations(Proc) \cup Permutations(Unit) \cup Permutations(Token)
=============================================================================
