---------------------------- MODULE MCVerification ----------------------------
(* Two slots, of which one may be disabled, with different records; two ports. *)
EXTENDS Verification, TLC

CONSTANTS i1, i2, r1, r2

First == [image |-> i1, rate |-> r1]
Second == [image |-> i2, rate |-> r2]
TwoRecords == {First, Second}
FirstThenSecond == [q \in Profile |-> IF q = 1 THEN First ELSE Second]
=============================================================================
