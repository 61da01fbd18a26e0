---------------------------- MODULE MCAttachment ----------------------------
(* Two mice that show the same descriptors, the second with another mark, none  *)
(* or a malformed one; a port, a receiver and a radio.                          *)
EXTENDS Attachment, TLC

CONSTANTS u1, u2, t1, t2, w1, r1, b1

MCKind == w1 :> "Wired" @@ r1 :> "Receiver" @@ b1 :> "Ble"
MCDescriptor == [u \in {u1, u2} |-> "x3"]
MCMarks == {m \in [{u1, u2} -> {t1, t2, None, Invalid}] : m[u1] = t1 /\ m[u2] # t1}
MCSaved == {<<>>, <<t1>>}
MCScans == {[selection |-> "Auto", want |-> None], [selection |-> "Auto", want |-> Anyone],
            [selection |-> "Wired", want |-> Anyone]}
=============================================================================
