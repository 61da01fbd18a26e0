------------------------------ MODULE AtomicStore ------------------------------
(***************************************************************************)
(* What the state store promises to the rest of the manager: one document, *)
(* changed by whole transactions, each applied to the document the         *)
(* previous one left.  A document is the set of the edits it includes.     *)
(*                                                                         *)
(* A power loss may undo whole transactions: on a platform where the store *)
(* makes a commit durable before it reports it, only those no caller has   *)
(* been told about; elsewhere, reported ones too.  A document that cannot  *)
(* be loaded is set aside, never dropped.                                  *)
(***************************************************************************)
CONSTANT Edit

VARIABLES
    doc,      \* the edits a reader sees now
    kept,     \* the edits of the documents set aside in backups
    known,    \* the edits some caller has been told are saved
    past,     \* the states, this one among them, a power loss may leave
    durable   \* whether this platform makes a commit durable: never changes

vars == <<doc, kept, known, past, durable>>

State == [doc |-> doc, kept |-> kept]

Init == doc = {} /\ kept = {} /\ known = {} /\ past = {State} /\ durable \in BOOLEAN

\* A change of the state is one more state a power loss may leave, unless it is
\* made durable at once, which takes a platform that can.
Change ==
    /\ past' = past \cup {State'} \/ (durable /\ past' = {State'})
    /\ UNCHANGED <<known, durable>>

Apply(e) == e \notin doc /\ doc' = doc \cup {e} /\ kept' = kept /\ Change

\* Keeping a copy loses nothing; starting over needs the copy first.
SetAside == kept' = kept \cup doc /\ doc' = doc /\ Change
StartOver == doc \subseteq kept /\ doc' = {} /\ kept' = kept /\ Change

\* A report comes after the state it is about is durable, where it can be.
Report(e) ==
    /\ e \in doc \cup kept
    /\ known' = known \cup {e}
    /\ past' = IF durable THEN {State} ELSE past
    /\ UNCHANGED <<doc, kept, durable>>

\* What no report is about may become durable as well.
Settle == durable /\ past' = {State} /\ UNCHANGED <<doc, kept, known, durable>>

\* A power loss leaves a state there has been, with every transaction whole,
\* and where commits are durable everything reported is in it.
PowerLoss ==
    /\ State' \in past /\ past' = {State'}
    /\ durable => known \subseteq doc' \cup kept'
    /\ UNCHANGED <<known, durable>>

Next ==
    \/ \E e \in Edit : Apply(e) \/ Report(e)
    \/ SetAside \/ StartOver \/ Settle \/ PowerLoss

Spec == Init /\ [][Next]_vars
=============================================================================
