----------------------------- MODULE MCStateStore -----------------------------
(* Three processes with one edit each, on a platform that syncs directories   *)
(* and on one that does not. Between transactions a process remembers only    *)
(* the number of its edits, so that a further edit of the same process is the *)
(* edit of another: a transaction starts, fails or crashes at every step of   *)
(* another one, before and after a third.                                     *)
EXTENDS StateStore, TLC

Symmetry == Permutations(Proc)
=============================================================================
