----------------------------- MODULE MCPollingRate -----------------------------
(* Two profiles: the smallest mouse on which the live image can be another    *)
(* one than the target's.  Images and rates are interchangeable.              *)
EXTENDS PollingRate, TLC

Symmetry == Permutations(Profile) \cup Permutations(Image) \cup Permutations(Rate)
=============================================================================
