--------------------------- MODULE BleDriverProofs ---------------------------
(***************************************************************************)
(* The lock of a Bluetooth session keeps the writes of all callers apart,  *)
(* so that a receipt rests on an acknowledgement of its own packet or of   *)
(* one that was open when it was written, and a damaged session stays      *)
(* closed: for any callers, reports, size of the inbox and number of       *)
(* failures.                                                               *)
(* The operations on a section, on either transport: what a read accepts   *)
(* is what the mouse held, what an update writes is the section it was     *)
(* asked for and nothing else of it, and what is kept can be read again:   *)
(* for any profiles, token, states, partial updates, attempts and          *)
(* interference by others.                                                 *)
(***************************************************************************)
EXTENDS BleDriver, SectionUpdate, SequenceTheorems, WellFoundedInduction, TLAPS

Pc == {"Idle", "Wait", "Send", "Sent", "Ack", "Quiet", "Close", "Stop", "Leave", "LeaveAnyway"}
Caller ==
    [pc : Pc,
     op : {None, "Write", "Disconnect"}, report : Reports \cup {None},
     n : Nat, open : SUBSET Nat, from : Nat]
Packet == [report : Reports \cup {None}, n : Nat]

TypeOK ==
    /\ link \in BOOLEAN
    /\ owed \in Seq(Packet) /\ flying \in SUBSET Packet
    /\ opening \in {None, "Connected", "Discovered"}
    /\ session \in Session \cup {None}
    /\ lock \in Seq(Clients)
    /\ call \in [Clients -> Caller]
    /\ counts \in [sent : Nat, links : Nat, failures : Nat]

\* A caller that is past the queue for the lock.
Active(c) == call[c].pc \notin {"Idle", "Wait"}

\* A caller is in the queue during its call, and at its head when active.
Queued(c) ==
    /\ call[c].pc # "Idle" => \E i \in 1..Len(lock) : lock[i] = c
    /\ Active(c) => Holds(c)

\* Nobody calls a handle that is not there, and none is opened beside it.
Opened ==
    /\ session = None => lock = <<>>
    /\ opening # None => session = None

\* What an acknowledgement that arrives during the write of c can be of.
Mine(c) == call[c].open \cup (IF call[c].pc = "Send" THEN {} ELSE {call[c].n})

\* After the drain of the inbox, all that is on its way, that the mouse owes or
\* that the inbox holds was open when the write began, or is its own packet.
Writing(c) ==
    call[c].pc \in {"Send", "Sent", "Ack"} =>
        /\ \A p \in flying : p.n \in Mine(c)
        /\ \A i \in 1..Len(owed) : owed[i].n \in Mine(c)
        /\ \A i \in 1..Len(session.inbox) :
              session.inbox[i].kind = "Accepts" => session.inbox[i].n \in Mine(c)

\* A packet is sent only while the session is not closed.
Sending(c) == call[c].pc = "Send" => ~session.closed

IInv ==
    /\ TypeOK /\ Opened
    /\ \A c \in Clients : Queued(c) /\ Writing(c) /\ Sending(c)
    /\ AckIsOfItsWrite

-----------------------------------------------------------------------------
(* Sequences. *)

\* The queue without its head, and without the caller at place i.
LEMMA TailOf ==
    ASSUME NEW S, NEW s \in Seq(S), s # <<>>
    PROVE  /\ Head(s) \in S /\ Head(s) = s[1] /\ Len(s) >= 1
           /\ Tail(s) \in Seq(S) /\ Len(Tail(s)) = Len(s) - 1
           /\ \A i \in 1..(Len(s) - 1) : Tail(s)[i] = s[i + 1]
OBVIOUS

LEMMA AppendOf ==
    ASSUME NEW S, NEW s \in Seq(S), NEW x \in S
    PROVE  /\ Append(s, x) \in Seq(S) /\ Len(Append(s, x)) = Len(s) + 1
           /\ \A i \in 1..Len(s) : Append(s, x)[i] = s[i]
           /\ Append(s, x)[Len(s) + 1] = x
OBVIOUS

LEMMA ConcatOf ==
    ASSUME NEW S, NEW s \in Seq(S), NEW t \in Seq(S)
    PROVE  /\ s \o t \in Seq(S) /\ Len(s \o t) = Len(s) + Len(t)
           /\ \A j \in 1..Len(s) : (s \o t)[j] = s[j]
           /\ \A j \in (Len(s) + 1)..(Len(s) + Len(t)) : (s \o t)[j] = t[j - Len(s)]
OBVIOUS

LEMMA RemoveAtOf ==
    ASSUME NEW S, NEW s \in Seq(S), NEW i \in 1..Len(s)
    PROVE  /\ RemoveAt(s, i) \in Seq(S) /\ Len(RemoveAt(s, i)) = Len(s) - 1
           /\ \A j \in 1..(i - 1) : RemoveAt(s, i)[j] = s[j]
           /\ \A j \in i..(Len(s) - 1) : RemoveAt(s, i)[j] = s[j + 1]
<1> DEFINE front == SubSeq(s, 1, i - 1)
           rest == SubSeq(s, i + 1, Len(s))
<1>0. Len(s) \in Nat
  OBVIOUS
<1>1. front \in Seq(S) /\ Len(front) = i - 1 /\ \A j \in 1..(i - 1) : front[j] = s[j]
  BY <1>0
<1>2. /\ rest \in Seq(S) /\ Len(rest) = Len(s) - i
      /\ \A j \in 1..(Len(s) - i) : rest[j] = s[i + j]
  BY <1>0
<1>3. RemoveAt(s, i) = front \o rest
  BY DEF RemoveAt
<1> HIDE DEF front, rest
<1>4. /\ front \o rest \in Seq(S) /\ Len(front \o rest) = Len(s) - 1
      /\ \A j \in 1..(i - 1) : (front \o rest)[j] = front[j]
      /\ \A j \in i..(Len(s) - 1) : (front \o rest)[j] = rest[j - (i - 1)]
  <2>1. /\ Len(front) + Len(rest) = Len(s) - 1
        /\ \A j \in i..(Len(s) - 1) : j \in (Len(front) + 1)..(Len(front) + Len(rest))
    BY <1>0, <1>1, <1>2
  <2> QED BY <1>1, <1>2, <2>1, ConcatOf
<1>5. ASSUME NEW j \in i..(Len(s) - 1) PROVE rest[j - (i - 1)] = s[j + 1]
  <2>1. j - (i - 1) \in 1..(Len(s) - i) /\ i + (j - (i - 1)) = j + 1
    BY <1>0
  <2> QED BY <1>2, <2>1
<1> QED BY <1>1, <1>3, <1>4, <1>5

\* A non-empty set of naturals has a least element: drain_idle stops at the
\* first error.
LEMMA Least ==
    ASSUME NEW S \in SUBSET Nat, S # {}
    PROVE  Min(S) \in S /\ \A n \in S : Min(S) =< n
<1> DEFINE R == {ss \in Nat \X Nat : ss[1] < ss[2]}
<1>1. IsWellFoundedOn(R, Nat)
  BY NatLessThanWellFounded DEF OpToRel
<1>2. \A x, y \in Nat : y < x => <<y, x>> \in R
  OBVIOUS
<1> HIDE DEF R
<1>3. PICK x \in S : \A y \in S : <<y, x>> \notin R
  BY <1>1, WFMin
<1>4. ASSUME NEW y \in S PROVE x <= y
  <2>1. x \in Nat /\ y \in Nat /\ ~(y < x)
    BY <1>2, <1>3
  <2> QED BY <2>1
<1> QED BY <1>4 DEF Min

-----------------------------------------------------------------------------
(* Type correctness. *)

LEMMA CallerAt ==
    ASSUME NEW k \in Caller, NEW pc \in Pc
    PROVE  /\ [k EXCEPT !.pc = pc] \in Caller /\ [k EXCEPT !.pc = pc].pc = pc
           /\ [k EXCEPT !.pc = pc].n = k.n /\ [k EXCEPT !.pc = pc].open = k.open
BY DEF Caller

LEMMA PcElements ==
    /\ "Send" \in Pc /\ "Sent" \in Pc /\ "Ack" \in Pc /\ "Quiet" \in Pc /\ "Close" \in Pc
    /\ "Stop" \in Pc /\ "Leave" \in Pc /\ "LeaveAnyway" \in Pc
BY DEF Pc

LEMMA RestingType ==
    /\ Resting \in Caller
    /\ \A what \in {"Write", "Disconnect"}, report \in Reports \cup {None} :
          [Resting EXCEPT !.pc = "Wait", !.op = what, !.report = report] \in Caller
BY DEF Resting, Caller, Pc

LEMMA SessionSets ==
    ASSUME NEW s \in Session
    PROVE  /\ [s EXCEPT !.closed = TRUE] \in Session
           /\ [s EXCEPT !.overflowed = TRUE] \in Session
           /\ [s EXCEPT !.task = FALSE] \in Session
           /\ [s EXCEPT !.task = FALSE, !.overflowed = TRUE] \in Session
           /\ \A done \in BOOLEAN : [s EXCEPT !.done = done] \in Session
           /\ \A inbox \in Seq(Notice) : /\ [s EXCEPT !.inbox = inbox] \in Session
                                        /\ [s EXCEPT !.task = FALSE, !.inbox = inbox] \in Session
BY DEF Session

\* A failure or a packet changes nothing else that is counted.
LEMMA CountsType ==
    ASSUME TypeOK
    PROVE  /\ Fails => /\ counts' \in [sent : Nat, links : Nat, failures : Nat]
                      /\ counts'.sent = counts.sent
           /\ [counts EXCEPT !.sent = @ + 1] \in [sent : Nat, links : Nat, failures : Nat]
           /\ [counts EXCEPT !.links = @ + 1] \in [sent : Nat, links : Nat, failures : Nat]
           /\ [counts EXCEPT !.links = @ + 1].sent = counts.sent
<1>1. counts \in [sent : Nat, links : Nat, failures : Nat]
  BY DEF TypeOK
<1>2. counts.sent + 1 \in Nat /\ counts.links + 1 \in Nat /\ counts.failures + 1 \in Nat
  BY <1>1
<1> QED BY <1>1, <1>2 DEF Fails

LEMMA ForwardType ==
    ASSUME TypeOK, NEW note \in Notice, Forward(note)
    PROVE  session' \in Session \cup {None}
<1>1. CASE session = None \/ ~session.task
  BY <1>1 DEF Forward, TypeOK
<1>2. CASE ~(session = None \/ ~session.task)
  <2>1. session \in Session /\ session.inbox \in Seq(Notice)
    BY <1>2 DEF TypeOK, Session
  <2>2. Append(session.inbox, note) \in Seq(Notice)
    BY <2>1
  <2> QED BY <1>2, <2>1, <2>2, SessionSets DEF Forward
<1> QED BY <1>1, <1>2

LEMMA EndsType ==
    ASSUME TypeOK, NEW c \in Clients, lock # <<>>, Ends(c)
    PROVE  call' \in [Clients -> Caller] /\ lock' \in Seq(Clients)
BY RestingType, TailOf DEF Ends, TypeOK

\* Whoever holds the lock has a session.
LEMMA HolderHasSession ==
    ASSUME IInv, lock # <<>>
    PROVE  session \in Session /\ session # None
BY AbsentAssumption DEF IInv, TypeOK, Opened

LEMMA DrainType ==
    ASSUME session \in Session
    PROVE  AfterDrain \in Session
<1>1. session.inbox \in Seq(Notice) /\ <<>> \in Seq(Notice)
  BY DEF Session
<1>2. CASE Bad # {}
  <2>1. Bad \in SUBSET Nat /\ \A i \in Nat : i + 1 \in Nat
    BY <1>1 DEF Bad
  <2>2. SubSeq(session.inbox, Min(Bad) + 1, Len(session.inbox)) \in Seq(Notice)
    <3>1. PICK n \in Nat : n = Min(Bad)
      BY <1>2, <2>1, Least
    <3>2. SubSeq(session.inbox, n + 1, Len(session.inbox)) \in Seq(Notice)
      <4>1. /\ Len(session.inbox) \in Nat
            /\ \A i \in (n + 1)..Len(session.inbox) : i \in 1..Len(session.inbox)
        BY <1>1, <3>1
      <4>2. \A i \in (n + 1)..Len(session.inbox) : session.inbox[i] \in Notice
        BY <1>1, <4>1
      <4> QED BY <1>1, <4>1, <4>2
    <3> QED BY <3>1, <3>2
  <2> QED BY <1>2, <2>2, SessionSets DEF AfterDrain
<1>3. CASE Bad = {}
  BY <1>1, <1>3, SessionSets DEF AfterDrain
<1> QED BY <1>2, <1>3

\* What poll_next answers, and what it leaves in the inbox.
LEMMA NoteType ==
    ASSUME NEW s \in Session, NextNote(s) # None
    PROVE  /\ NextNote(s).kind = "Accepts" =>
                 /\ ~s.overflowed /\ s.inbox # <<>>
                 /\ NextNote(s) = s.inbox[1] /\ NextNote(s).n \in Nat
           /\ s.inbox # <<>> => [s EXCEPT !.inbox = Tail(@)] \in Session
<1>1. s.inbox \in Seq(Notice)
  BY DEF Session
<1>2. \A sort : Note(sort, None, 0).kind = sort
  BY DEF Note
<1>3. s.inbox # <<>> => /\ Tail(s.inbox) \in Seq(Notice) /\ Head(s.inbox) = s.inbox[1]
                        /\ s.inbox[1] \in Notice
  BY <1>1
<1>4. "Overflow" # "Accepts" /\ "Gone" # "Accepts"
  OBVIOUS
<1>5. ASSUME NextNote(s).kind = "Accepts"
      PROVE  ~s.overflowed /\ s.inbox # <<>> /\ NextNote(s) = s.inbox[1]
  BY <1>2, <1>3, <1>4, <1>5 DEF NextNote
<1>6. s.inbox # <<>> => s.inbox[1].n \in Nat
  BY <1>3 DEF Notice
<1> QED BY <1>3, <1>5, <1>6, SessionSets

-----------------------------------------------------------------------------
(* A step of a call: its caller holds the lock, and either keeps it, which   *)
(* changes no other call, or returns.                                        *)

Keeps(c) == lock' = lock /\ call' \in [Clients -> Caller] /\ \A d \in Clients \ {c} : call'[d] = call[d]

LEMMA GoesOn ==
    ASSUME TypeOK, NEW c \in Clients, NEW k \in Caller, call' = [call EXCEPT ![c] = k],
           lock' = lock
    PROVE  Keeps(c) /\ call'[c] = k
BY DEF TypeOK, Keeps

TypeOfMouse == /\ owed' \in Seq(Packet) /\ flying' \in SUBSET Packet
               /\ counts' \in [sent : Nat, links : Nat, failures : Nat]

LEMMA FailsWithStep ==
    ASSUME TypeOK, NEW c \in Clients, NEW error, NEW s \in Session, FailsWith(c, error, s)
    PROVE  /\ session' = s \/ session' = [s EXCEPT !.closed = TRUE]
           /\ session' \in Session
           /\ (Keeps(c) /\ call'[c].pc = "Close") \/ Ends(c)
<1>1. CASE error \in Lost
  <2>1. call[c] \in Caller
    BY DEF TypeOK
  <2>2. [call[c] EXCEPT !.pc = "Close"] \in Caller /\ [call[c] EXCEPT !.pc = "Close"].pc = "Close"
    BY <2>1, CallerAt, PcElements
  <2>3. [s EXCEPT !.closed = TRUE] \in Session
    BY SessionSets
  <2>4. call' = [call EXCEPT ![c] = [call[c] EXCEPT !.pc = "Close"]] /\ lock' = lock
    BY <1>1 DEF FailsWith
  <2> QED BY <1>1, <2>2, <2>3, <2>4, GoesOn DEF FailsWith
<1>2. CASE error \notin Lost
  BY <1>2 DEF FailsWith
<1> QED BY <1>1, <1>2

\* drain_idle, and what is open when the packet is sent.
LEMMA BeginStep ==
    ASSUME IInv, NEW c \in Clients, Begin(c)
    PROVE  /\ UNCHANGED <<flying, owed, counts, opening, link>> /\ session' \in Session
           /\ Keeps(c) \/ Ends(c)
           /\ Ends(c) \/ call'[c].pc = "Close"
                \/ /\ call'[c].pc = "Send" /\ call'[c].open = {p.n : p \in ToSet(owed) \cup flying}
                   /\ session'.inbox = <<>> /\ ~session'.closed
<1>t. TypeOK /\ session \in Session /\ AfterDrain \in Session
  BY HolderHasSession, DrainType DEF IInv, Begin, Holds
<1>1. CASE session.closed
  BY <1>1, <1>t DEF Begin
<1>2. CASE ~session.closed /\ Drained # None
  <2>1. FailsWith(c, Drained, AfterDrain)
    BY <1>2 DEF Begin
  <2> QED BY <1>2, <1>t, <2>1, FailsWithStep DEF Begin
<1>3. CASE ~session.closed /\ Drained = None
  <2> DEFINE open == {p.n : p \in ToSet(owed) \cup flying}
             k == [call[c] EXCEPT !.pc = "Send", !.open = open]
  <2>1. open \in SUBSET Nat
    <3>1. \A i \in DOMAIN owed : owed[i] \in Packet
      BY <1>t DEF TypeOK
    <3>2. ToSet(owed) \cup flying \subseteq Packet
      BY <1>t, <3>1 DEF TypeOK, ToSet
    <3>3. \A p \in Packet : p.n \in Nat
      BY DEF Packet
    <3> QED BY <3>2, <3>3
  <2>2. call[c] \in Caller
    BY <1>t DEF TypeOK
  <2> HIDE DEF open
  <2>3. k \in Caller /\ k.pc = "Send" /\ k.open = open
    BY <2>1, <2>2, PcElements DEF Caller
  <2>4. /\ call' = [call EXCEPT ![c] = k] /\ lock' = lock /\ session' = AfterDrain
        /\ UNCHANGED <<flying, owed, counts, opening, link>>
    BY <1>3, <1>t DEF Begin, TypeOK, open
  <2>5. Bad = {} /\ ~session.overflowed
    <3>1. CASE session.overflowed
      BY <1>3, <3>1, AbsentAssumption DEF Drained
    <3>2. CASE ~session.overflowed /\ Bad # {}
      <4>1. session.inbox \in Seq(Notice)
        BY <1>t DEF Session
      <4>2. Min(Bad) \in Bad
        <5>1. Bad \in SUBSET Nat
          BY <4>1 DEF Bad
        <5> QED BY <3>2, <5>1, Least
      <4>3. session.inbox[Min(Bad)].kind \in {"Gone", "Broken"}
        BY <4>2 DEF Bad, Errors
      <4>4. ErrorOf(session.inbox[Min(Bad)]) \in {"Disconnected", "Notification"}
        BY <4>3 DEF ErrorOf
      <4> QED BY <1>3, <3>2, <4>4, AbsentAssumption DEF Drained
    <3> QED BY <3>1, <3>2
  <2>6. session'.inbox = <<>> /\ session'.closed = session.closed
    BY <1>t, <2>4, <2>5 DEF AfterDrain, Session
  <2> HIDE DEF k
  <2> QED BY <1>3, <1>t, <2>3, <2>4, <2>6, GoesOn DEF open
<1> QED BY <1>1, <1>2, <1>3

LEMMA SendStep ==
    ASSUME IInv, NEW c \in Clients, Send(c)
    PROVE  /\ UNCHANGED <<session, owed, opening, link>> /\ TypeOfMouse
           /\ Keeps(c) \/ Ends(c)
           /\ Ends(c) \/ /\ call'[c].pc = "Sent" /\ call'[c].n = counts.sent + 1
                         /\ call'[c].open = call[c].open
                         /\ \A p \in flying' : p \in flying \/ p.n = counts.sent + 1
<1>t. TypeOK /\ call[c] \in Caller /\ counts.sent + 1 \in Nat
  BY DEF IInv, TypeOK
<1>1. CASE /\ counts' = [counts EXCEPT !.sent = @ + 1]
           /\ flying' = flying \cup {[report |-> call[c].report, n |-> counts.sent + 1]}
           /\ call' = [call EXCEPT ![c].pc = "Sent", ![c].n = counts.sent + 1]
           /\ UNCHANGED lock
  <2> DEFINE k == [call[c] EXCEPT !.pc = "Sent", !.n = counts.sent + 1]
  <2>1. k \in Caller /\ k.pc = "Sent" /\ k.n = counts.sent + 1 /\ k.open = call[c].open
    BY <1>t, PcElements DEF Caller
  <2>2. call' = [call EXCEPT ![c] = k] /\ lock' = lock
    BY <1>1, <1>t DEF TypeOK
  <2> HIDE DEF k
  <2>3. Keeps(c) /\ call'[c] = k
    BY <1>t, <2>1, <2>2, GoesOn
  <2>4. [report |-> call[c].report, n |-> counts.sent + 1] \in Packet
    BY <1>t DEF Caller, Packet
  <2>5. TypeOfMouse
    BY <1>1, <1>t, <2>4, CountsType DEF Send, TypeOfMouse, TypeOK
  <2> QED BY <1>1, <2>1, <2>3, <2>5 DEF Send
<1>2. CASE Ends(c) /\ UNCHANGED <<flying, counts>>
  BY <1>2, <1>t DEF Send, TypeOfMouse, TypeOK
<1> QED BY <1>1, <1>2 DEF Send

LEMMA ReturnedStep ==
    ASSUME IInv, NEW c \in Clients, Returned(c)
    PROVE  /\ UNCHANGED <<session, flying, owed, opening, link>> /\ TypeOfMouse
           /\ counts'.sent = counts.sent
           /\ Keeps(c) \/ Ends(c)
           /\ Ends(c) \/ /\ call'[c].pc = "Ack" /\ call'[c].n = call[c].n
                         /\ call'[c].open = call[c].open
<1>t. TypeOK /\ call[c] \in Caller
  BY DEF IInv, TypeOK
<1>1. CASE call' = [call EXCEPT ![c].pc = "Ack"] /\ UNCHANGED <<lock, counts>>
  <2> DEFINE k == [call[c] EXCEPT !.pc = "Ack"]
  <2>1. k \in Caller /\ k.pc = "Ack" /\ k.n = call[c].n /\ k.open = call[c].open
    BY <1>t, CallerAt, PcElements
  <2>2. call' = [call EXCEPT ![c] = k] /\ lock' = lock
    BY <1>1
  <2> HIDE DEF k
  <2>3. Keeps(c) /\ call'[c] = k
    BY <1>t, <2>1, <2>2, GoesOn
  <2> QED BY <1>1, <1>t, <2>1, <2>3 DEF Returned, TypeOfMouse, TypeOK
<1>2. CASE (Fails \/ UNCHANGED counts) /\ Ends(c)
  BY <1>2, <1>t, CountsType DEF Returned, TypeOfMouse, TypeOK
<1> QED BY <1>1, <1>2 DEF Returned

\* complete_ble_write: the answer to an acceptance of the report, and to the rest.
LEMMA ReceiveStep ==
    ASSUME IInv, NEW c \in Clients, Receive(c)
    PROVE  /\ UNCHANGED <<flying, owed, counts, opening, link>> /\ session' \in Session
           /\ Keeps(c) \/ Ends(c)
           /\ \/ Ends(c)
              \/ call'[c].pc = "Close"
              \/ /\ call'[c].pc = "Quiet" /\ ~session.overflowed /\ session.inbox # <<>>
                 /\ session.inbox[1].kind = "Accepts" /\ call'[c].from = session.inbox[1].n
                 /\ call'[c].n = call[c].n /\ call'[c].open = call[c].open
              \/ /\ call' = call /\ session'.closed = session.closed
                 /\ \/ session'.inbox = session.inbox
                    \/ session.inbox # <<>> /\ session'.inbox = Tail(session.inbox)
<1>t. TypeOK /\ session \in Session /\ call[c] \in Caller /\ call[c].pc = "Ack"
  BY HolderHasSession DEF IInv, Receive, Holds, TypeOK
<1> DEFINE answer == NextNote(session)
           left == IF answer.kind = "Overflow" \/ session.inbox = <<>> THEN session
                   ELSE [session EXCEPT !.inbox = Tail(@)]
           mine == answer.report = call[c].report
<1>1. PICK note : note = answer
  OBVIOUS
<1>2. PICK rest : rest = left
  OBVIOUS
<1>3. /\ rest \in Session /\ rest.closed = session.closed
      /\ \/ rest.inbox = session.inbox
         \/ session.inbox # <<>> /\ rest.inbox = Tail(session.inbox)
  <2>1. session.inbox # <<>> => [session EXCEPT !.inbox = Tail(@)] \in Session
    BY <1>t, NoteType DEF Receive
  <2>2. /\ [session EXCEPT !.inbox = Tail(@)].closed = session.closed
        /\ [session EXCEPT !.inbox = Tail(@)].inbox = Tail(session.inbox)
    BY <1>t DEF Session
  <2> QED BY <1>2, <1>t, <2>1, <2>2
<1>4. CASE note.kind = "Accepts" /\ mine
  <2>1. /\ ~session.overflowed /\ session.inbox # <<>> /\ note = session.inbox[1]
        /\ note.n \in Nat
    BY <1>1, <1>4, <1>t, NoteType DEF Receive
  <2>2. /\ session' = rest /\ lock' = lock /\ UNCHANGED <<flying, owed, counts, opening, link>>
        /\ call' = [call EXCEPT ![c].pc = "Quiet", ![c].from = note.n]
    BY <1>1, <1>2, <1>4 DEF Receive, ErrorOf
  <2> DEFINE k == [call[c] EXCEPT !.pc = "Quiet", !.from = note.n]
  <2>3. /\ k \in Caller /\ k.pc = "Quiet" /\ k.from = note.n /\ k.n = call[c].n
        /\ k.open = call[c].open
    BY <1>t, <2>1, PcElements DEF Caller
  <2>4. call' = [call EXCEPT ![c] = k]
    BY <1>t, <2>2 DEF TypeOK
  <2> HIDE DEF k
  <2>5. Keeps(c) /\ call'[c] = k
    BY <1>t, <2>2, <2>3, <2>4, GoesOn
  <2> QED BY <1>3, <1>4, <2>1, <2>2, <2>3, <2>5
<1>5. CASE \E error : FailsWith(c, error, rest)
  BY <1>3, <1>5, <1>t, FailsWithStep DEF Receive
<1>6. CASE session' = rest /\ UNCHANGED <<call, lock>>
  BY <1>3, <1>6, <1>t DEF Receive, Keeps, TypeOK
<1>7. \/ note.kind = "Accepts" /\ mine
      \/ \E error : FailsWith(c, error, rest)
      \/ session' = rest /\ UNCHANGED <<call, lock>>
  BY <1>1, <1>2 DEF Receive
<1> QED BY <1>4, <1>5, <1>6, <1>7

LEMMA ClosesStep ==
    ASSUME TypeOK, session \in Session, NEW works \in BOOLEAN, Closes(works)
    PROVE  /\ session' \in Session /\ counts' \in [sent : Nat, links : Nat, failures : Nat]
           /\ counts'.sent = counts.sent /\ session'.closed = session.closed
<1>1. [session EXCEPT !.task = FALSE] \in Session
  BY SessionSets
<1>2. [session EXCEPT !.task = FALSE].closed = session.closed
  BY DEF Session
<1>3. session' \in Session /\ session'.closed = session.closed
  BY <1>1, <1>2 DEF Closes
<1>4. counts' \in [sent : Nat, links : Nat, failures : Nat] /\ counts'.sent = counts.sent
  <2>1. CASE works
    BY <2>1 DEF Closes, TypeOK
  <2>2. CASE ~works
    BY <2>2, CountsType DEF Closes
  <2> QED BY <2>1, <2>2
<1> QED BY <1>3, <1>4

\* The remaining steps of a call send nothing and give no receipt.
Quietly(c) == /\ counts'.sent = counts.sent
              /\ Ends(c) \/ call'[c].pc \notin {"Send", "Sent", "Ack", "Quiet"}

LEMMA OtherSteps ==
    ASSUME IInv, NEW c \in Clients,
           Expire(c) \/ Rest(c) \/ Close(c) \/ Shut(c) \/ Stop(c) \/ Leave(c)
    PROVE  /\ UNCHANGED opening /\ link' \in BOOLEAN /\ session' \in Session /\ TypeOfMouse
           /\ Keeps(c) \/ Ends(c)
           /\ Quietly(c)
<1>t. TypeOK /\ session \in Session /\ call[c] \in Caller
  BY HolderHasSession DEF IInv, Expire, Rest, Close, Shut, Stop, Leave, Holds, TypeOK
<1>1. CASE Expire(c) \/ Rest(c)
  BY <1>1, <1>t DEF Expire, Rest, Quietly, TypeOfMouse, TypeOK
<1>2. CASE Close(c)
  BY <1>2, <1>t, ClosesStep DEF Close, Quietly, TypeOfMouse, TypeOK
<1>3. ASSUME NEW pc \in Pc, call' = [call EXCEPT ![c].pc = pc], lock' = lock
      PROVE  Keeps(c) /\ call'[c].pc = pc
  <2>1. [call[c] EXCEPT !.pc = pc] \in Caller /\ [call[c] EXCEPT !.pc = pc].pc = pc
    BY <1>t, CallerAt
  <2>2. call' = [call EXCEPT ![c] = [call[c] EXCEPT !.pc = pc]]
    BY <1>3
  <2> QED BY <1>3, <1>t, <2>1, <2>2, GoesOn
<1>4. CASE Shut(c) /\ session.done
  BY <1>4, <1>t DEF Shut, Quietly, TypeOfMouse, TypeOK
<1>5. CASE Shut(c) /\ ~session.done
  BY <1>3, <1>5, <1>t, PcElements, SessionSets DEF Shut, Quietly, TypeOfMouse, TypeOK
<1>6. CASE Stop(c)
  <2>1. PICK works \in BOOLEAN :
           Closes(works) /\ call' = [call EXCEPT ![c].pc = IF works THEN "Leave" ELSE "LeaveAnyway"]
    BY <1>6 DEF Stop
  <2>2. PICK pc \in Pc : pc = IF works THEN "Leave" ELSE "LeaveAnyway"
    BY PcElements
  <2>3. Keeps(c) /\ call'[c].pc \in {"Leave", "LeaveAnyway"}
    BY <1>3, <1>6, <2>1, <2>2 DEF Stop
  <2> QED BY <1>6, <1>t, <2>1, <2>3, ClosesStep DEF Stop, Quietly, TypeOfMouse, TypeOK
<1>7. CASE Leave(c)
  <2>1. Ends(c) /\ UNCHANGED <<flying, opening>>
    BY <1>7 DEF Leave
  <2>2. CASE /\ link' = FALSE /\ owed' = <<>> /\ UNCHANGED counts
             /\ session' = [session EXCEPT !.done = (call[c].pc = "Leave")]
    <3>1. PICK done \in BOOLEAN : done = (call[c].pc = "Leave")
      OBVIOUS
    <3>2. session' \in Session
      BY <1>t, <2>2, <3>1, SessionSets
    <3>3. owed' \in Seq(Packet)
      BY <2>2
    <3> QED BY <1>t, <2>1, <2>2, <3>2, <3>3 DEF Quietly, TypeOfMouse, TypeOK
  <2>3. CASE Fails /\ UNCHANGED <<link, owed, session>>
    BY <1>t, <2>1, <2>3, CountsType DEF Quietly, TypeOfMouse, TypeOK
  <2> QED BY <1>7, <2>2, <2>3 DEF Leave
<1> QED BY <1>1, <1>2, <1>4, <1>5, <1>6, <1>7

LEMMA ProceedStep ==
    ASSUME IInv, NEW c \in Clients, Proceed(c)
    PROVE  /\ UNCHANGED opening /\ link' \in BOOLEAN /\ session' \in Session /\ TypeOfMouse
           /\ Keeps(c) \/ Ends(c)
           /\ Holds(c)
<1>t. TypeOK
  BY DEF IInv
<1>1. Holds(c)
  BY DEF Proceed, Begin, Send, Returned, Receive, Expire, Rest, Close, Shut, Stop, Leave
<1>2. session \in Session
  BY <1>1, HolderHasSession DEF Holds
<1>3. CASE Begin(c)
  BY <1>1, <1>3, <1>t, BeginStep DEF TypeOfMouse, TypeOK
<1>4. CASE Send(c)
  BY <1>1, <1>2, <1>4, <1>t, SendStep DEF TypeOK
<1>7. CASE Returned(c)
  BY <1>1, <1>2, <1>7, <1>t, ReturnedStep DEF TypeOK
<1>5. CASE Receive(c)
  BY <1>1, <1>5, <1>t, ReceiveStep DEF TypeOfMouse, TypeOK
<1>6. CASE Expire(c) \/ Rest(c) \/ Close(c) \/ Shut(c) \/ Stop(c) \/ Leave(c)
  BY <1>1, <1>6, OtherSteps
<1> QED BY <1>3, <1>4, <1>5, <1>6, <1>7 DEF Proceed

\* What a caller that gives up its place leaves of the queue.
LEMMA AbandonStep ==
    ASSUME IInv, NEW c \in Clients, Abandon(c)
    PROVE  /\ call' = [call EXCEPT ![c] = Resting] /\ call' \in [Clients -> Caller]
           /\ lock # <<>> /\ lock' \in Seq(Clients)
           /\ \A d \in Clients \ {c} :
                 /\ (\E i \in 1..Len(lock) : lock[i] = d) => \E i \in 1..Len(lock') : lock'[i] = d
                 /\ lock[1] = d => lock' # <<>> /\ lock'[1] = d
           /\ UNCHANGED <<link, flying, owed, opening, session, counts>>
<1>t. TypeOK /\ Queued(c)
  BY DEF IInv
<1>1. /\ \E i \in 1..Len(lock) : lock[i] = c
      /\ call' = [call EXCEPT ![c] = Resting] /\ lock' = RemoveAt(lock, Place(c))
  BY <1>t DEF Abandon, Queued
<1>2. lock \in Seq(Clients) /\ Len(lock) \in Nat
  BY <1>t DEF TypeOK
<1>3. Place(c) \in 1..Len(lock) /\ lock[Place(c)] = c
  <2>1. DOMAIN lock = 1..Len(lock)
    BY <1>2
  <2> QED BY <1>1, <2>1 DEF Place
<1>4. PICK p \in 1..Len(lock) : p = Place(c)
  BY <1>3
<1>5. /\ lock' \in Seq(Clients) /\ Len(lock') = Len(lock) - 1
      /\ \A j \in 1..(p - 1) : lock'[j] = lock[j]
      /\ \A j \in p..(Len(lock) - 1) : lock'[j] = lock[j + 1]
  BY <1>1, <1>2, <1>4, RemoveAtOf
<1>6. ASSUME NEW d \in Clients \ {c}, NEW i \in 1..Len(lock), lock[i] = d
      PROVE  \E j \in 1..Len(lock') : lock'[j] = d
  <2>1. CASE i < p
    <3>1. i \in 1..(p - 1) /\ i \in 1..Len(lock')
      BY <1>2, <1>5, <2>1
    <3> QED BY <1>5, <1>6, <3>1
  <2>2. CASE i > p
    <3>1. i - 1 \in p..(Len(lock) - 1) /\ i - 1 \in 1..Len(lock') /\ (i - 1) + 1 = i
      BY <1>2, <1>5, <2>2
    <3>2. lock'[i - 1] = d
      BY <1>5, <1>6, <3>1
    <3> QED BY <3>1, <3>2
  <2>3. CASE i = p
    BY <1>3, <1>4, <1>6, <2>3
  <2> QED BY <2>1, <2>2, <2>3
<1>7. ASSUME NEW d \in Clients \ {c}, lock[1] = d
      PROVE  lock' # <<>> /\ lock'[1] = d
  <2>1. p # 1
    BY <1>3, <1>4, <1>7
  <2>2. 1 \in 1..(p - 1) /\ Len(lock') >= 1
    BY <1>2, <1>5, <2>1
  <2> QED BY <1>5, <1>7, <2>2
<1>8. lock # <<>>
  BY <1>1, <1>2
<1>9. call' \in [Clients -> Caller]
  BY <1>1, <1>t, RestingType DEF TypeOK
<1> QED BY <1>1, <1>5, <1>6, <1>7, <1>8, <1>9 DEF Abandon

LEMMA CallStep ==
    ASSUME IInv, NEW c \in Clients, NEW what \in {"Write", "Disconnect"},
           NEW report \in Reports \cup {None}, Call(c, what, report)
    PROVE  /\ session # None /\ UNCHANGED <<link, flying, owed, opening, session, counts>>
           /\ call' \in [Clients -> Caller] /\ call'[c].pc = "Wait" /\ call[c].pc = "Idle"
           /\ \A d \in Clients \ {c} : call'[d] = call[d]
           /\ lock' = Append(lock, c) /\ lock' \in Seq(Clients) /\ Len(lock') = Len(lock) + 1
           /\ \A i \in 1..Len(lock) : lock'[i] = lock[i]
           /\ lock'[Len(lock) + 1] = c
<1>t. TypeOK
  BY DEF IInv
<1> DEFINE k == [Resting EXCEPT !.pc = "Wait", !.op = what, !.report = report]
<1>1. k \in Caller /\ k.pc = "Wait"
  BY RestingType DEF Resting
<1>2. call' = [call EXCEPT ![c] = k]
  BY DEF Call
<1> HIDE DEF k
<1> QED BY <1>1, <1>2, <1>t, AppendOf DEF Call, TypeOK

\* What the mouse, the connection and the notifications do to the session.
Arrives(note) ==
    session' = session \/
    /\ session \in Session /\ session' \in Session /\ session'.closed = session.closed
    /\ \/ session'.inbox = session.inbox
       \/ session'.inbox = Append(session.inbox, note)

LEMMA ForwardStep ==
    ASSUME TypeOK, NEW note \in Notice, Forward(note)
    PROVE  Arrives(note)
<1>1. CASE session = None \/ ~session.task
  BY <1>1 DEF Forward, Arrives
<1>2. CASE ~(session = None \/ ~session.task)
  <2>1. session \in Session /\ session.inbox \in Seq(Notice)
    BY <1>2 DEF TypeOK, Session
  <2>2. Append(session.inbox, note) \in Seq(Notice)
    BY <2>1
  <2>3. CASE session' = [session EXCEPT !.inbox = Append(@, note)]
    BY <2>1, <2>2, <2>3, SessionSets DEF Arrives, Session
  <2>4. CASE session' = [session EXCEPT !.overflowed = TRUE]
    BY <2>1, <2>4, SessionSets DEF Arrives, Session
  <2> QED BY <1>2, <2>3, <2>4 DEF Forward
<1> QED BY <1>1, <1>2

\* A packet that reaches the mouse was on its way.
LEMMA DeliverStep ==
    ASSUME IInv, Deliver
    PROVE  /\ UNCHANGED <<link, opening, session, lock, call, counts>> /\ TypeOfMouse
           /\ flying' \subseteq flying
           /\ \A i \in 1..Len(owed') :
                 (\E j \in 1..Len(owed) : owed'[i] = owed[j]) \/ owed'[i] \in flying
<1>t. TypeOK
  BY DEF IInv
<1>1. PICK p \in flying : flying' = flying \ {p} /\ owed' = Append(owed, p)
  BY DEF Deliver
<1>2. p \in Packet /\ owed \in Seq(Packet) /\ Len(owed) \in Nat
  BY <1>t DEF TypeOK
<1>3. /\ owed' \in Seq(Packet) /\ Len(owed') = Len(owed) + 1
      /\ \A i \in 1..Len(owed) : owed'[i] = owed[i]
      /\ owed'[Len(owed) + 1] = p
  BY <1>1, <1>2, AppendOf
<1>4. \A i \in 1..Len(owed') : i \in 1..Len(owed) \/ i = Len(owed) + 1
  BY <1>2, <1>3
<1>5. TypeOfMouse
  BY <1>1, <1>3, <1>t DEF Deliver, TypeOfMouse, TypeOK
<1> QED BY <1>1, <1>3, <1>4, <1>5 DEF Deliver

LEMMA MouseStep ==
    ASSUME IInv, Acknowledge \/ Chatter \/ StreamEnds
    PROVE  /\ UNCHANGED <<link, flying, opening, lock, call>>
           /\ \E note \in Notice :
                 /\ Arrives(note)
                 /\ note.kind = "Accepts" => owed # <<>> /\ note.n = owed[1].n
           /\ TypeOfMouse /\ counts'.sent = counts.sent
           /\ owed' = owed \/ (owed # <<>> /\ owed' = Tail(owed))
<1>t. TypeOK
  BY DEF IInv
<1>n. \A sort, report, n : Note(sort, report, n).kind = sort /\ Note(sort, report, n).n = n
  BY DEF Note
<1>1. CASE Acknowledge
  <2>1. owed # <<>> /\ owed' = Tail(owed) /\ Head(owed) = owed[1] /\ owed[1] \in Packet
        /\ owed' \in Seq(Packet)
    BY <1>1, <1>t, TailOf DEF Acknowledge, TypeOK
  <2>2. \A sort \in {"Accepts", "Rejects", "Malformed"} :
           Note(sort, Head(owed).report, Head(owed).n) \in Notice
    BY <2>1 DEF Note, Notice, Packet
  <2>3. CASE UNCHANGED session
    <3>1. Note("Rejects", Head(owed).report, Head(owed).n) \in Notice
      BY <2>2
    <3> QED BY <1>1, <1>n, <1>t, <2>1, <2>3, <3>1 DEF Acknowledge, Arrives, TypeOfMouse, TypeOK
  <2>4. ASSUME NEW sort \in {"Accepts", "Rejects", "Malformed"},
               Forward(Note(sort, Head(owed).report, Head(owed).n))
        PROVE  \E note \in Notice :
                  /\ Arrives(note)
                  /\ note.kind = "Accepts" => owed # <<>> /\ note.n = owed[1].n
    BY <1>n, <1>t, <2>1, <2>2, <2>4, ForwardStep
  <2> QED BY <1>1, <1>t, <2>1, <2>3, <2>4 DEF Acknowledge, TypeOfMouse, TypeOK
<1>2. CASE Chatter
  <2>1. Note("Other", None, 0) \in Notice
    BY DEF Note, Notice
  <2> QED BY <1>2, <1>n, <1>t, <2>1, ForwardStep DEF Chatter, TypeOfMouse, TypeOK
<1>3. CASE StreamEnds
  <2>1. PICK sort \in Errors :
           /\ IF sort = "Gone" THEN ~link /\ UNCHANGED counts ELSE Fails
           /\ session' = IF Len(session.inbox) < Capacity
                         THEN [session EXCEPT !.task = FALSE, !.inbox = Append(@, Note(sort, None, 0))]
                         ELSE [session EXCEPT !.task = FALSE, !.overflowed = TRUE]
    BY <1>3 DEF StreamEnds
  <2>2. session \in Session /\ session.inbox \in Seq(Notice)
    BY <1>3, <1>t DEF StreamEnds, TypeOK, Session
  <2>3. PICK note \in Notice : note = Note(sort, None, 0) /\ note.kind = sort
    <3>1. Note(sort, None, 0) \in Notice
      BY DEF Note, Notice
    <3> QED BY <1>n, <3>1
  <2>4. Append(session.inbox, note) \in Seq(Notice)
    BY <2>2
  <2>5. Arrives(note)
    <3>1. CASE session' = [session EXCEPT !.task = FALSE, !.inbox = Append(@, note)]
      <4>1. session' \in Session
        BY <2>2, <2>4, <3>1, SessionSets
      <4>2. session'.closed = session.closed /\ session'.inbox = Append(session.inbox, note)
        BY <2>2, <3>1 DEF Session
      <4> QED BY <2>2, <4>1, <4>2 DEF Arrives
    <3>2. CASE session' = [session EXCEPT !.task = FALSE, !.overflowed = TRUE]
      <4>1. session' \in Session
        BY <2>2, <3>2, SessionSets
      <4>2. session'.closed = session.closed /\ session'.inbox = session.inbox
        BY <2>2, <3>2 DEF Session
      <4> QED BY <2>2, <4>1, <4>2 DEF Arrives
    <3> QED BY <2>1, <2>3, <3>1, <3>2
  <2>6. counts' \in [sent : Nat, links : Nat, failures : Nat] /\ counts'.sent = counts.sent
    BY <1>t, <2>1, CountsType DEF TypeOK
  <2>7. note.kind # "Accepts"
    BY <2>3 DEF Errors
  <2> QED BY <1>3, <1>t, <2>5, <2>6, <2>7 DEF StreamEnds, TypeOfMouse, TypeOK
<1> QED BY <1>1, <1>2, <1>3

-----------------------------------------------------------------------------
(* Preservation. *)

LEMMA InvInit == Init => IInv
<1> SUFFICES ASSUME Init PROVE IInv
  OBVIOUS
<1>1. Resting \in Caller /\ Resting.pc = "Idle"
  BY RestingType DEF Resting
<1>2. call \in [Clients -> Caller] /\ \A c \in Clients : call[c].pc = "Idle"
  BY <1>1 DEF Init
<1>3. counts \in [sent : Nat, links : Nat, failures : Nat]
  BY DEF Init
<1>4. TypeOK /\ Opened
  BY <1>2, <1>3 DEF Init, TypeOK, Opened
<1>5. \A c \in Clients : Queued(c) /\ Writing(c) /\ Sending(c)
  BY <1>2 DEF Queued, Active, Writing, Sending
<1>6. AckIsOfItsWrite
  BY <1>2 DEF AckIsOfItsWrite
<1> QED BY <1>4, <1>5, <1>6 DEF IInv

\* The steps that open and close the handle, and a broken connection.
LEMMA HandleStep ==
    ASSUME IInv, Open \/ Discover \/ Subscribe \/ Drop \/ Break
    PROVE  /\ UNCHANGED <<lock, call>> /\ counts'.sent = counts.sent
           /\ TypeOK' /\ Opened'
           /\ flying' = flying /\ (owed' = owed \/ owed' = <<>>)
           /\ session' = session \/ lock = <<>>
<1>t. TypeOK /\ Opened
  BY DEF IInv
<1>1. CASE Open
  BY <1>1, <1>t DEF Open, TypeOK, Opened
<1>2. CASE Discover
  <2>1. counts' \in [sent : Nat, links : Nat, failures : Nat] /\ counts'.sent = counts.sent
    BY <1>2, <1>t, CountsType DEF Discover, TypeOK
  <2> QED BY <1>2, <1>t, <2>1, AbsentAssumption DEF Discover, TypeOK, Opened
<1>3. CASE Subscribe
  <2>1. counts' \in [sent : Nat, links : Nat, failures : Nat] /\ counts'.sent = counts.sent
    BY <1>3, <1>t, CountsType DEF Subscribe, TypeOK
  <2>2. Fresh \in Session
    BY DEF Fresh, Session
  <2>3. session = None /\ lock = <<>>
    BY <1>3, <1>t, AbsentAssumption DEF Subscribe, Opened
  <2> QED BY <1>3, <1>t, <2>1, <2>2, <2>3 DEF Subscribe, TypeOK, Opened
<1>4. CASE Drop
  BY <1>4, <1>t DEF Drop, TypeOK, Opened
<1>5. CASE Break
  <2>1. <<>> \in Seq(Packet)
    OBVIOUS
  <2> QED BY <1>5, <1>t, <2>1, CountsType DEF Break, TypeOK, Opened
<1> QED BY <1>1, <1>2, <1>3, <1>4, <1>5

\* A caller that returns gives the lock to the next in the queue.
LEMMA EndsQueue ==
    ASSUME IInv, NEW c \in Clients, Holds(c), Ends(c)
    PROVE  /\ call' \in [Clients -> Caller] /\ lock' \in Seq(Clients)
           /\ call'[c].pc = "Idle"
           /\ \A d \in Clients \ {c} : call'[d] = call[d] /\ Queued(d)'
<1>t. TypeOK /\ \A d \in Clients : Queued(d)
  BY DEF IInv
<1>1. /\ lock # <<>> /\ lock[1] = c /\ lock' \in Seq(Clients) /\ Len(lock') = Len(lock) - 1
      /\ \A i \in 1..(Len(lock) - 1) : lock'[i] = lock[i + 1]
      /\ lock \in Seq(Clients) /\ Len(lock) \in Nat
  BY <1>t, TailOf DEF Holds, Ends, TypeOK
<1>2. call' \in [Clients -> Caller] /\ call'[c].pc = "Idle"
  BY <1>t, RestingType DEF Ends, TypeOK, Resting
<1>3. ASSUME NEW d \in Clients \ {c} PROVE call'[d] = call[d] /\ Queued(d)'
  <2>1. call'[d] = call[d]
    BY <1>t DEF Ends, TypeOK
  <2>2. ~Active(d)
    BY <1>1, <1>t DEF Queued, Holds
  <2>3. ASSUME NEW i \in 1..Len(lock), lock[i] = d PROVE \E j \in 1..Len(lock') : lock'[j] = d
    <3>1. i # 1
      BY <1>1, <2>3
    <3>2. i - 1 \in 1..(Len(lock) - 1) /\ i - 1 \in 1..Len(lock') /\ (i - 1) + 1 = i
      BY <1>1, <3>1
    <3> QED BY <1>1, <2>3, <3>2
  <2> QED BY <1>t, <2>1, <2>2, <2>3 DEF Queued, Active
<1> QED BY <1>1, <1>2, <1>3

LEMMA KeepsQueue ==
    ASSUME IInv, NEW c \in Clients, Holds(c), Keeps(c)
    PROVE  \A d \in Clients : Queued(d)'
<1>t. TypeOK /\ \A d \in Clients : Queued(d)
  BY DEF IInv
<1>1. /\ lock \in Seq(Clients) /\ lock # <<>> /\ lock[1] = c /\ 1 \in 1..Len(lock)
      /\ lock' = lock
  BY <1>t DEF Holds, Keeps, TypeOK
<1>2. Queued(c)'
  BY <1>1 DEF Queued, Active, Holds
<1>3. ASSUME NEW d \in Clients \ {c} PROVE Queued(d)'
  BY <1>1, <1>t DEF Queued, Active, Holds, Keeps
<1> QED BY <1>2, <1>3

LEMMA NextQueue == IInv /\ [Next]_vars => TypeOK' /\ Opened' /\ \A d \in Clients : Queued(d)'
<1> SUFFICES ASSUME IInv, [Next]_vars
             PROVE  TypeOK' /\ Opened' /\ \A d \in Clients : Queued(d)'
  OBVIOUS
<1>t. TypeOK /\ Opened /\ \A d \in Clients : Queued(d)
  BY DEF IInv
<1>0. ASSUME UNCHANGED <<lock, call>> PROVE \A d \in Clients : Queued(d)'
  BY <1>0, <1>t DEF Queued, Active, Holds
<1>1. ASSUME NEW c \in Clients, Proceed(c) PROVE TypeOK' /\ Opened' /\ \A d \in Clients : Queued(d)'
  <2>1. /\ UNCHANGED opening /\ link' \in BOOLEAN /\ session' \in Session /\ TypeOfMouse
        /\ Keeps(c) \/ Ends(c)
        /\ Holds(c)
    BY <1>1, ProceedStep
  <2>2. session # None /\ session' # None
    BY <2>1, HolderHasSession, AbsentAssumption DEF Holds
  <2>3. Opened'
    BY <1>t, <2>1, <2>2 DEF Opened
  <2>4. /\ call' \in [Clients -> Caller] /\ lock' \in Seq(Clients)
        /\ \A d \in Clients : Queued(d)'
    <3>1. CASE Keeps(c)
      BY <1>t, <2>1, <3>1, KeepsQueue DEF Keeps, TypeOK
    <3>2. CASE Ends(c)
      <4>1. /\ call' \in [Clients -> Caller] /\ lock' \in Seq(Clients)
            /\ call'[c].pc = "Idle"
            /\ \A d \in Clients \ {c} : Queued(d)'
        BY <2>1, <3>2, EndsQueue
      <4>2. Queued(c)'
        BY <4>1 DEF Queued, Active
      <4> QED BY <4>1, <4>2
    <3> QED BY <2>1, <3>1, <3>2
  <2> QED BY <1>t, <2>1, <2>3, <2>4 DEF TypeOK, TypeOfMouse
<1>2. ASSUME NEW c \in Clients, NEW what \in {"Write", "Disconnect"},
             NEW report \in Reports \cup {None}, Call(c, what, report)
      PROVE  TypeOK' /\ Opened' /\ \A d \in Clients : Queued(d)'
  <2>1. /\ session # None /\ UNCHANGED <<link, flying, owed, opening, session, counts>>
        /\ call' \in [Clients -> Caller] /\ call'[c].pc = "Wait"
        /\ \A d \in Clients \ {c} : call'[d] = call[d]
        /\ lock' \in Seq(Clients) /\ Len(lock') = Len(lock) + 1
        /\ \A i \in 1..Len(lock) : lock'[i] = lock[i]
        /\ lock'[Len(lock) + 1] = c
    BY <1>2, CallStep
  <2>2. lock \in Seq(Clients) /\ Len(lock) \in Nat
    BY <1>t DEF TypeOK
  <2>3. Queued(c)'
    <3>1. Len(lock) + 1 \in 1..Len(lock')
      BY <2>1, <2>2
    <3> QED BY <2>1, <3>1 DEF Queued, Active
  <2>4. ASSUME NEW d \in Clients \ {c} PROVE Queued(d)'
    <3>1. \A i \in 1..Len(lock) : i \in 1..Len(lock')
      BY <2>1, <2>2
    <3>2. Holds(d) => Holds(d)'
      <4>1. lock # <<>> => 1 \in 1..Len(lock) /\ lock' # <<>>
        BY <2>1, <2>2
      <4> QED BY <2>1, <2>2, <4>1 DEF Holds
    <3> QED BY <1>t, <2>1, <3>1, <3>2 DEF Queued, Active
  <2> QED BY <1>t, <2>1, <2>3, <2>4 DEF TypeOK, Opened
<1>3. ASSUME NEW c \in Clients, Abandon(c) PROVE TypeOK' /\ Opened' /\ \A d \in Clients : Queued(d)'
  <2>1. /\ call' = [call EXCEPT ![c] = Resting] /\ call' \in [Clients -> Caller]
        /\ lock # <<>> /\ lock' \in Seq(Clients)
        /\ \A d \in Clients \ {c} :
              /\ (\E i \in 1..Len(lock) : lock[i] = d) => \E i \in 1..Len(lock') : lock'[i] = d
              /\ lock[1] = d => lock' # <<>> /\ lock'[1] = d
        /\ UNCHANGED <<link, flying, owed, opening, session, counts>>
    BY <1>3, AbandonStep
  <2>2. Queued(c)'
    <3>1. call'[c].pc = "Idle"
      BY <1>t, <2>1 DEF TypeOK, Resting
    <3> QED BY <3>1 DEF Queued, Active
  <2>3. ASSUME NEW d \in Clients \ {c} PROVE Queued(d)'
    <3>1. Holds(d) => Holds(d)'
      BY <1>t, <2>1 DEF Holds, TypeOK
    <3>2. call'[d] = call[d]
      BY <1>t, <2>1 DEF TypeOK
    <3> QED BY <1>t, <2>1, <3>1, <3>2 DEF Queued, Active
  <2>4. session # None
    BY <1>t, <2>1 DEF Opened
  <2> QED BY <1>t, <2>1, <2>2, <2>3, <2>4 DEF TypeOK, Opened
<1>8. CASE Deliver
  BY <1>0, <1>8, <1>t, DeliverStep DEF TypeOK, TypeOfMouse, Opened
<1>4. CASE Acknowledge \/ Chatter \/ StreamEnds
  <2>1. /\ UNCHANGED <<link, opening, lock, call>> /\ TypeOfMouse
        /\ session' = session \/ (session \in Session /\ session' \in Session)
    BY <1>4, MouseStep DEF Arrives
  <2> QED BY <1>0, <1>t, <2>1, AbsentAssumption DEF TypeOK, TypeOfMouse, Opened
<1>5. CASE Open \/ Discover \/ Subscribe \/ Drop \/ Break
  BY <1>0, <1>5, HandleStep
<1>6. CASE UNCHANGED vars
  BY <1>0, <1>6, <1>t DEF vars, TypeOK, Opened
<1>7. ASSUME NEW c \in Clients, Calls(c) PROVE TypeOK' /\ Opened' /\ \A d \in Clients : Queued(d)'
  BY <1>2, <1>3, <1>7 DEF Calls
<1> QED BY <1>1, <1>4, <1>5, <1>6, <1>7, <1>8 DEF Next

Receipt(c) == call[c].pc = "Quiet" => call[c].from \in {call[c].n} \cup call[c].open

\* Along its own write, the caller knows what its acknowledgements can be of.
LEMMA OwnReceipt ==
    ASSUME IInv, NEW c \in Clients, Proceed(c)
    PROVE  Writing(c)' /\ Sending(c)' /\ Receipt(c)'
<1>t. TypeOK /\ Writing(c) /\ Sending(c) /\ session \in Session /\ Holds(c) /\ call[c] \in Caller
  BY ProceedStep, HolderHasSession DEF IInv, Holds, TypeOK
<1>0. ASSUME call'[c].pc \notin {"Send", "Sent", "Ack", "Quiet"}
      PROVE  Writing(c)' /\ Sending(c)' /\ Receipt(c)'
  BY <1>0 DEF Writing, Sending, Receipt
<1>1. CASE Ends(c)
  BY <1>0, <1>1, <1>t, EndsQueue
<1>i. session.inbox \in Seq(Notice) /\ owed \in Seq(Packet) /\ Len(owed) \in Nat
  BY <1>t DEF TypeOK, Session
<1>2. CASE Begin(c) /\ ~Ends(c)
  <2>1. /\ owed' = owed /\ flying' = flying
        /\ \/ call'[c].pc = "Close"
           \/ /\ call'[c].pc = "Send" /\ call'[c].open = {p.n : p \in ToSet(owed) \cup flying}
              /\ session'.inbox = <<>> /\ ~session'.closed
    BY <1>2, BeginStep
  <2>2. /\ \A i \in 1..Len(owed) : owed[i].n \in {p.n : p \in ToSet(owed) \cup flying}
        /\ \A p \in flying : p.n \in {q.n : q \in ToSet(owed) \cup flying}
    BY <1>i DEF ToSet
  <2>3. Len(<<>>) = 0
    OBVIOUS
  <2> QED BY <1>0, <2>1, <2>2, <2>3 DEF Writing, Sending, Receipt, Mine
<1>3. CASE Send(c) /\ ~Ends(c)
  <2>1. /\ call'[c].pc = "Sent" /\ call'[c].n = counts.sent + 1 /\ call'[c].open = call[c].open
        /\ \A p \in flying' : p \in flying \/ p.n = counts.sent + 1
        /\ session' = session /\ owed' = owed
    BY <1>3, SendStep
  <2>2. call[c].pc = "Send"
    BY <1>3 DEF Send
  <2>3. Mine(c)' = call[c].open \cup {counts.sent + 1} /\ Mine(c) = call[c].open
    BY <2>1, <2>2 DEF Mine
  <2> QED BY <1>t, <2>1, <2>2, <2>3 DEF Writing, Sending, Receipt
<1>6. CASE Returned(c) /\ ~Ends(c)
  <2>1. /\ call'[c].pc = "Ack" /\ call'[c].n = call[c].n /\ call'[c].open = call[c].open
        /\ UNCHANGED <<session, flying, owed>>
    BY <1>6, ReturnedStep
  <2>2. call[c].pc = "Sent" /\ Mine(c)' = Mine(c)
    BY <1>6, <2>1 DEF Returned, Mine
  <2> QED BY <1>t, <2>1, <2>2 DEF Writing, Sending, Receipt
<1>4. CASE Receive(c) /\ ~Ends(c)
  <2>1. /\ owed' = owed /\ flying' = flying
        /\ \/ call'[c].pc = "Close"
           \/ /\ call'[c].pc = "Quiet" /\ session.inbox # <<>>
              /\ session.inbox[1].kind = "Accepts" /\ call'[c].from = session.inbox[1].n
              /\ call'[c].n = call[c].n /\ call'[c].open = call[c].open
           \/ /\ call' = call
              /\ \/ session'.inbox = session.inbox
                 \/ session.inbox # <<>> /\ session'.inbox = Tail(session.inbox)
    BY <1>4, ReceiveStep
  <2>2. call[c].pc = "Ack" /\ Mine(c) = call[c].open \cup {call[c].n}
    BY <1>4 DEF Receive, Mine
  <2>3. session.inbox # <<>> => 1 \in 1..Len(session.inbox)
    BY <1>i
  <2>4. CASE call'[c].pc = "Quiet"
    BY <1>t, <2>1, <2>2, <2>3, <2>4 DEF Writing, Sending, Receipt
  <2>5. CASE call' = call
    <3>1. Mine(c)' = Mine(c)
      BY <2>5 DEF Mine
    <3>2. CASE session'.inbox = session.inbox
      BY <1>t, <2>1, <2>2, <2>5, <3>1, <3>2 DEF Writing, Sending, Receipt
    <3>3. CASE session.inbox # <<>> /\ session'.inbox = Tail(session.inbox)
      <4>1. /\ Len(session'.inbox) = Len(session.inbox) - 1
            /\ \A i \in 1..(Len(session.inbox) - 1) : session'.inbox[i] = session.inbox[i + 1]
        BY <1>i, <3>3, TailOf
      <4>2. \A i \in 1..(Len(session.inbox) - 1) : i + 1 \in 1..Len(session.inbox)
        BY <1>i
      <4> QED BY <1>t, <2>1, <2>2, <2>5, <3>1, <4>1, <4>2 DEF Writing, Sending, Receipt
    <3> QED BY <2>1, <2>2, <2>5, <3>2, <3>3
  <2> QED BY <1>0, <2>1, <2>4, <2>5
<1>5. CASE Expire(c) \/ Rest(c) \/ Close(c) \/ Shut(c) \/ Stop(c) \/ Leave(c)
  BY <1>0, <1>1, <1>5, OtherSteps DEF Quietly
<1> QED BY <1>1, <1>2, <1>3, <1>4, <1>5, <1>6 DEF Proceed

LEMMA NextReceipts ==
    ASSUME IInv, [Next]_vars, NEW d \in Clients
    PROVE  Writing(d)' /\ Sending(d)' /\ Receipt(d)'
<1>t. /\ TypeOK /\ Opened /\ Writing(d) /\ Sending(d) /\ Receipt(d)
      /\ \A c \in Clients : Queued(c)
  BY DEF IInv, AckIsOfItsWrite, Receipt
<1>0. ASSUME UNCHANGED <<flying, owed, session>>, call'[d] = call[d]
      PROVE  Writing(d)' /\ Sending(d)' /\ Receipt(d)'
  BY <1>0, <1>t DEF Writing, Sending, Receipt, Mine
<1>1. ASSUME ~Active(d), call'[d] = call[d] PROVE Writing(d)' /\ Sending(d)' /\ Receipt(d)'
  BY <1>1 DEF Active, Writing, Sending, Receipt
<1>2. ASSUME NEW c \in Clients, Proceed(c) PROVE Writing(d)' /\ Sending(d)' /\ Receipt(d)'
  <2>1. CASE c = d
    BY <1>2, <2>1, OwnReceipt
  <2>2. CASE c # d
    <3>1. Holds(c) /\ (Keeps(c) \/ Ends(c))
      BY <1>2, ProceedStep
    <3>2. call'[d] = call[d]
      BY <2>2, <3>1, EndsQueue DEF Keeps
    <3>3. ~Active(d)
      BY <1>t, <2>2, <3>1 DEF Queued, Holds
    <3> QED BY <1>1, <3>2, <3>3
  <2> QED BY <2>1, <2>2
<1>3. ASSUME NEW c \in Clients, NEW what \in {"Write", "Disconnect"},
             NEW report \in Reports \cup {None}, Call(c, what, report)
      PROVE  Writing(d)' /\ Sending(d)' /\ Receipt(d)'
  <2>1. /\ UNCHANGED <<flying, owed, session>> /\ call'[c].pc = "Wait"
        /\ c # d => call'[d] = call[d]
    BY <1>3, CallStep
  <2> QED BY <1>0, <2>1 DEF Writing, Sending, Receipt
<1>4. ASSUME NEW c \in Clients, Abandon(c) PROVE Writing(d)' /\ Sending(d)' /\ Receipt(d)'
  <2>1. call' = [call EXCEPT ![c] = Resting] /\ UNCHANGED <<flying, owed, session>>
    BY <1>4, AbandonStep
  <2>2. CASE c = d
    <3>1. call'[d].pc = "Idle"
      BY <1>t, <2>1, <2>2 DEF TypeOK, Resting
    <3> QED BY <3>1 DEF Writing, Sending, Receipt
  <2>3. CASE c # d
    <3>1. call'[d] = call[d]
      BY <1>t, <2>1, <2>3 DEF TypeOK
    <3> QED BY <1>0, <2>1, <3>1
  <2> QED BY <2>2, <2>3
<1>9. CASE Deliver
  <2>1. /\ call' = call /\ session' = session /\ flying' \subseteq flying
        /\ \A i \in 1..Len(owed') :
              (\E j \in 1..Len(owed) : owed'[i] = owed[j]) \/ owed'[i] \in flying
    BY <1>9, DeliverStep
  <2>2. Mine(d)' = Mine(d)
    BY <2>1 DEF Mine
  <2> QED BY <1>t, <2>1, <2>2 DEF Writing, Sending, Receipt
<1>5. CASE Acknowledge \/ Chatter \/ StreamEnds
  <2>1. PICK note \in Notice :
           /\ Arrives(note)
           /\ note.kind = "Accepts" => owed # <<>> /\ note.n = owed[1].n
    BY <1>5, MouseStep
  <2>2. call' = call /\ flying' = flying /\ (owed' = owed \/ (owed # <<>> /\ owed' = Tail(owed)))
    BY <1>5, MouseStep
  <2>3. Mine(d)' = Mine(d)
    BY <2>2 DEF Mine
  <2>4. CASE call[d].pc \in {"Send", "Sent", "Ack"}
    <3>1. owed \in Seq(Packet) /\ \A i \in 1..Len(owed) : owed[i].n \in Mine(d)
      BY <1>t, <2>4 DEF TypeOK, Writing
    <3>2. \A i \in 1..Len(owed') : owed'[i].n \in Mine(d)
      <4>1. CASE owed # <<>> /\ owed' = Tail(owed)
        <5>1. /\ Len(owed') = Len(owed) - 1
              /\ \A i \in 1..(Len(owed) - 1) : owed'[i] = owed[i + 1]
          BY <3>1, <4>1, TailOf
        <5>2. \A i \in 1..(Len(owed) - 1) : i + 1 \in 1..Len(owed)
          BY <3>1
        <5> QED BY <3>1, <5>1, <5>2
      <4> QED BY <2>2, <3>1, <4>1
    <3>3. note.kind = "Accepts" => note.n \in Mine(d)
      <4>1. owed # <<>> => 1 \in 1..Len(owed)
        BY <3>1
      <4> QED BY <2>1, <3>1, <4>1
    <3>4. /\ \A i \in 1..Len(session'.inbox) :
                session'.inbox[i].kind = "Accepts" => session'.inbox[i].n \in Mine(d)
          /\ session'.closed = session.closed
      <4>1. CASE /\ session \in Session /\ session'.inbox = Append(session.inbox, note)
                 /\ session'.closed = session.closed
        <5>1. session.inbox \in Seq(Notice) /\ Len(session.inbox) \in Nat
          BY <4>1 DEF Session
        <5>2. /\ Len(session'.inbox) = Len(session.inbox) + 1
              /\ \A i \in 1..Len(session.inbox) : session'.inbox[i] = session.inbox[i]
              /\ session'.inbox[Len(session.inbox) + 1] = note
          BY <4>1, <5>1, AppendOf
        <5>3. \A i \in 1..Len(session'.inbox) :
                 i \in 1..Len(session.inbox) \/ i = Len(session.inbox) + 1
          BY <5>1, <5>2
        <5> QED BY <1>t, <2>4, <3>3, <4>1, <5>2, <5>3 DEF Writing
      <4>2. CASE session'.inbox = session.inbox /\ session'.closed = session.closed
        BY <1>t, <2>4, <4>2 DEF Writing
      <4> QED BY <2>1, <4>1, <4>2 DEF Arrives
    <3> QED BY <1>t, <2>2, <2>3, <2>4, <3>2, <3>4 DEF Writing, Sending, Receipt
  <2>5. CASE call[d].pc \notin {"Send", "Sent", "Ack"}
    BY <1>t, <2>2, <2>5 DEF Writing, Sending, Receipt
  <2> QED BY <2>4, <2>5
<1>6. CASE Open \/ Discover \/ Subscribe \/ Drop \/ Break
  <2>1. /\ call' = call /\ flying' = flying /\ (owed' = owed \/ owed' = <<>>)
        /\ session' = session \/ lock = <<>>
    BY <1>6, HandleStep
  <2>2. CASE lock = <<>>
    <3>1. ~Active(d)
      BY <1>t, <2>2 DEF Queued, Holds
    <3> QED BY <1>1, <2>1, <3>1
  <2>3. CASE session' = session /\ owed' = <<>>
    <3>1. Len(owed') = 0
      BY <2>3
    <3> QED BY <1>t, <2>1, <2>3, <3>1 DEF Writing, Sending, Receipt, Mine
  <2> QED BY <1>0, <2>1, <2>2, <2>3
<1>7. CASE UNCHANGED vars
  BY <1>0, <1>7 DEF vars
<1>8. ASSUME NEW c \in Clients, Calls(c) PROVE Writing(d)' /\ Sending(d)' /\ Receipt(d)'
  BY <1>3, <1>4, <1>8 DEF Calls
<1> QED BY <1>2, <1>5, <1>6, <1>7, <1>8, <1>9 DEF Next

-----------------------------------------------------------------------------
\* The lock, the inbox and the writes of the callers fit together in every
\* reachable state: BleSession::write runs under the lock from the drain of the
\* inbox to the receipt.
THEOREM Invariance == Spec => []IInv
<1>1. IInv /\ [Next]_vars => IInv'
  <2> SUFFICES ASSUME IInv, [Next]_vars PROVE IInv'
    OBVIOUS
  <2>1. TypeOK' /\ Opened' /\ \A d \in Clients : Queued(d)'
    BY NextQueue
  <2>2. \A d \in Clients : Writing(d)' /\ Sending(d)' /\ Receipt(d)'
    BY NextReceipts
  <2> QED BY <2>1, <2>2 DEF IInv, AckIsOfItsWrite, Receipt
<1> QED BY InvInit, <1>1, PTL DEF Spec

\* A receipt never rests on the acknowledgement of a packet that was
\* acknowledged before the write began: drain_idle has removed those, and no
\* other write comes between.  What a dropped or failed write has left on its
\* way, to be delivered and acknowledged at any later time, counts as open.
THEOREM ReceiptsAreOfTheirWrite == Spec => []AckIsOfItsWrite
<1>1. IInv => AckIsOfItsWrite
  BY DEF IInv
<1> QED BY Invariance, <1>1, PTL

\* A closed session sends nothing, and one that has lost a notification gives no
\* receipt, whoever calls and whatever fails.
THEOREM DamageIsFinal == Spec => FailsClosed
<1> DEFINE Closed ==
              session # None =>
                 /\ session.closed => counts'.sent = counts.sent
                 /\ session.overflowed =>
                       \A c \in Clients : call[c].pc = "Ack" => call'[c].pc # "Quiet"
<1>1. IInv /\ Next => Closed
  <2> SUFFICES ASSUME IInv, Next PROVE Closed
    OBVIOUS
  <2>t. TypeOK /\ \A c \in Clients : Queued(c) /\ Sending(c)
    BY DEF IInv
  <2>0. ASSUME counts'.sent = counts.sent, \A d \in Clients : call'[d] = call[d] PROVE Closed
    BY <2>0
  <2>1. ASSUME NEW c \in Clients, Proceed(c) PROVE Closed
    <3>1. session.closed => counts'.sent = counts.sent
      <4>1. CASE Begin(c) \/ Receive(c)
        BY <4>1 DEF Begin, Receive
      <4>2. CASE Send(c)
        BY <2>t, <4>2 DEF Send, Sending
      <4>4. CASE Returned(c)
        BY <4>4, ReturnedStep
      <4>3. CASE Expire(c) \/ Rest(c) \/ Close(c) \/ Shut(c) \/ Stop(c) \/ Leave(c)
        BY <4>3, OtherSteps DEF Quietly
      <4> QED BY <2>1, <4>1, <4>2, <4>3, <4>4 DEF Proceed
    <3>2. ASSUME session.overflowed, NEW d \in Clients, call[d].pc = "Ack"
          PROVE  call'[d].pc # "Quiet"
      <4>1. Holds(c) /\ (Keeps(c) \/ Ends(c))
        BY <2>1, ProceedStep
      <4>2. d = c
        BY <2>t, <3>2, <4>1 DEF Queued, Active, Holds
      <4>3. CASE Ends(c)
        BY <4>1, <4>2, <4>3, EndsQueue
      <4>4. CASE Receive(c)
        BY <3>2, <4>2, <4>3, <4>4, ReceiveStep
      <4>5. CASE Expire(c) \/ Rest(c) \/ Close(c) \/ Shut(c) \/ Stop(c) \/ Leave(c)
        BY <4>2, <4>3, <4>5, OtherSteps DEF Quietly
      <4>6. CASE Begin(c) \/ Send(c) \/ Returned(c)
        BY <3>2, <4>2, <4>6 DEF Begin, Send, Returned
      <4> QED BY <2>1, <4>4, <4>5, <4>6 DEF Proceed
    <3> QED BY <3>1, <3>2
  <2>2. ASSUME NEW c \in Clients, NEW what \in {"Write", "Disconnect"},
               NEW report \in Reports \cup {None}, Call(c, what, report)
        PROVE  Closed
    <3>1. /\ counts' = counts /\ call'[c].pc = "Wait"
          /\ \A d \in Clients \ {c} : call'[d] = call[d]
      BY <2>2, CallStep
    <3>2. \A d \in Clients : call'[d].pc = "Wait" \/ call'[d] = call[d]
      BY <3>1
    <3> QED BY <3>1, <3>2
  <2>3. ASSUME NEW c \in Clients, Abandon(c) PROVE Closed
    <3>1. call' = [call EXCEPT ![c] = Resting]
      BY <2>3, AbandonStep
    <3>2. \A d \in Clients : call'[d].pc = "Idle" \/ call'[d] = call[d]
      BY <2>t, <3>1 DEF TypeOK, Resting
    <3>3. counts'.sent = counts.sent
      BY <2>3, AbandonStep
    <3> QED BY <3>2, <3>3
  <2>4. CASE Acknowledge \/ Chatter \/ StreamEnds
    BY <2>0, <2>4, MouseStep
  <2>5. CASE Open \/ Discover \/ Subscribe \/ Drop \/ Break
    BY <2>0, <2>5, HandleStep
  <2>7. CASE Deliver
    BY <2>0, <2>7, DeliverStep
  <2>6. ASSUME NEW c \in Clients, Calls(c) PROVE Closed
    BY <2>2, <2>3, <2>6 DEF Calls
  <2> QED BY <2>1, <2>4, <2>5, <2>6, <2>7 DEF Next
<1>2. IInv /\ [Next]_vars => [Closed]_vars
  BY <1>1
<1> HIDE DEF Closed
<1>3. Spec => [][Closed]_vars
  BY Invariance, <1>2, PTL DEF Spec
<1> QED BY <1>3 DEF Closed, FailsClosed

-----------------------------------------------------------------------------
(***************************************************************************)
(* The operations on a section.                                            *)
(***************************************************************************)

-----------------------------------------------------------------------------
(* The checksum. *)

\* f adds up the first n bytes of p, as u16::wrapping_add does.
Adds(f, p, n) ==
    /\ \A i \in 0..n : f[i] \in Nat /\ f[i] < 65536
    /\ f[0] = 0
    /\ \A i \in 1..n : f[i] = (f[i - 1] + p[i]) % 65536

\* One more byte.
LEMMA AddsOneMore ==
    ASSUME NEW m \in Nat, m # 0, NEW p, NEW f, p[m] \in Int, Adds(f, p, m - 1)
    PROVE  Adds([i \in 0..m |-> IF i = m THEN (f[m - 1] + p[m]) % 65536 ELSE f[i]], p, m)
<1> DEFINE g == [i \in 0..m |-> IF i = m THEN (f[m - 1] + p[m]) % 65536 ELSE f[i]]
<1>1. /\ \A i \in 0..(m - 1) : f[i] \in Nat /\ f[i] < 65536
      /\ f[0] = 0
      /\ \A i \in 1..(m - 1) : f[i] = (f[i - 1] + p[i]) % 65536
  BY DEF Adds
<1>2. f[m - 1] \in Nat
  BY <1>1
<1>3. (f[m - 1] + p[m]) % 65536 \in Nat /\ (f[m - 1] + p[m]) % 65536 < 65536
  BY <1>2
<1>4. \A i \in 0..m : g[i] \in Nat /\ g[i] < 65536
  BY <1>1, <1>3
<1>5. g[0] = 0
  BY <1>1
<1>6. ASSUME NEW i \in 1..m PROVE g[i] = (g[i - 1] + p[i]) % 65536
  BY <1>1
<1> HIDE DEF g
<1>7. Adds(g, p, m)
  BY <1>4, <1>5, <1>6 DEF Adds
<1> QED BY <1>7 DEF g

\* Any number of bytes can be added up.
LEMMA AddsExist ==
    ASSUME NEW n \in Nat, NEW p, \A i \in 1..n : p[i] \in Int
    PROVE  \E f : Adds(f, p, n)
<1> DEFINE Wrong == {m \in 0..n : ~\E f : Adds(f, p, m)}
<1>1. Wrong \in SUBSET Nat
  OBVIOUS
<1>2. ASSUME Wrong # {} PROVE FALSE
  <2>1. Min(Wrong) \in Wrong /\ \A y \in Wrong : Min(Wrong) =< y
    <3> HIDE DEF Wrong
    <3> QED BY <1>1, <1>2, Least
  <2>2. PICK m \in 0..n : (~\E f : Adds(f, p, m)) /\ \A y \in Wrong : m =< y
    BY <2>1
  <2>3. \A k \in 0..n : k < m => \E f : Adds(f, p, k)
    BY <2>2
  <2> HIDE DEF Wrong
  <2>4. CASE m = 0
    <3>1. Adds([i \in 0..0 |-> 0], p, 0)
      BY DEF Adds
    <3> QED BY <2>2, <2>4, <3>1
  <2>5. CASE m # 0
    <3>1. m - 1 \in 0..n /\ m - 1 < m /\ m \in 1..n
      BY <2>5
    <3>2. PICK f : Adds(f, p, m - 1)
      BY <2>3, <3>1
    <3>3. Adds([i \in 0..m |-> IF i = m THEN (f[m - 1] + p[m]) % 65536 ELSE f[i]], p, m)
      BY <3>1, <3>2, AddsOneMore
    <3> QED BY <2>2, <3>3
  <2> QED BY <2>4, <2>5
<1>3. n \in 0..n
  OBVIOUS
<1> QED BY <1>2, <1>3

\* What Sum16 computes: the last of the partial sums.
LEMMA SumIs ==
    ASSUME NEW n \in Nat, NEW p, Len(p) = n, \A i \in 1..n : p[i] \in Int
    PROVE  \E f : Adds(f, p, n) /\ Sum16(p) = f[n]
<1> DEFINE Rule(f) == [i \in 0..n |-> IF i = 0 THEN 0 ELSE (f[i - 1] + p[i]) % 65536]
           sum == CHOOSE f : f = Rule(f)
<1>1. Sum16(p) = sum[n]
  BY DEF Sum16
<1>2. PICK f : Adds(f, p, n)
  BY AddsExist
<1> DEFINE g == [i \in 0..n |-> f[i]]
<1>3. g = Rule(g)
  <2>1. \A i \in 0..n : g[i] = IF i = 0 THEN 0 ELSE (g[i - 1] + p[i]) % 65536
    BY <1>2 DEF Adds
  <2> HIDE DEF Rule
  <2>2. Rule(g) = [i \in 0..n |-> g[i]]
    BY <2>1 DEF Rule
  <2> QED BY <2>2
<1> HIDE DEF g
<1>4. sum = Rule(sum)
  <2> HIDE DEF Rule
  <2> QED BY <1>3
<1> HIDE DEF sum
<1>5. \A i \in 0..n : sum[i] = IF i = 0 THEN 0 ELSE (sum[i - 1] + p[i]) % 65536
  BY <1>4
<1>6. sum = [i \in 0..n |-> sum[i]]
  BY <1>4
<1>7. \A i \in 0..n : sum[i] = f[i]
  <2> DEFINE Wrong == {i \in 0..n : sum[i] # f[i]}
  <2>1. ASSUME Wrong # {} PROVE FALSE
    <3>1. Wrong \in SUBSET Nat
      OBVIOUS
    <3>2. Min(Wrong) \in Wrong /\ \A y \in Wrong : Min(Wrong) =< y
      <4> HIDE DEF Wrong
      <4> QED BY <2>1, <3>1, Least
    <3>3. PICK m \in 0..n : sum[m] # f[m] /\ \A y \in 0..n : sum[y] # f[y] => m =< y
      BY <3>2
    <3>4. m # 0
      BY <1>2, <1>5, <3>3 DEF Adds
    <3>5. m - 1 \in 0..n /\ m \in 1..n
      BY <3>4
    <3>6. sum[m - 1] = f[m - 1]
      BY <3>3, <3>5
    <3>7. f[m] = (f[m - 1] + p[m]) % 65536
      BY <1>2, <3>5 DEF Adds
    <3>8. sum[m] = (sum[m - 1] + p[m]) % 65536
      BY <1>5, <3>4
    <3> QED BY <3>3, <3>6, <3>7, <3>8
  <2> QED BY <2>1
<1> QED BY <1>1, <1>2, <1>7

LEMMA ByteIs == \A b : b \in Byte <=> b \in Nat /\ b < 256
<1>1. \A n \in Nat : \A b : b \in 0..n <=> b \in Nat /\ b =< n
  OBVIOUS
<1>2. 255 \in Nat
  OBVIOUS
<1>3. \A b : b \in 0..255 <=> b \in Nat /\ b =< 255
  BY <1>1, <1>2, Zenon
<1>4. \A b \in Nat : b =< 255 <=> b < 256
  OBVIOUS
<1>5. \A b : b \in Byte <=> b \in Nat /\ b =< 255
  BY <1>3, Zenon DEF Byte
<1> QED BY <1>4, <1>5

\* One step of the sum keeps two sums apart, or sees a difference of the bytes.
LEMMA StepSees ==
    ASSUME NEW x \in Nat, NEW y \in Nat, NEW a \in Nat, NEW b \in Nat,
           x < 65536, y < 65536, a < 256, b < 256, (x = y) # (a = b)
    PROVE  (x + a) % 65536 # (y + b) % 65536
<1>1. (x + a) % 65536 = IF x + a < 65536 THEN x + a ELSE x + a - 65536
  OBVIOUS
<1>2. (y + b) % 65536 = IF y + b < 65536 THEN y + b ELSE y + b - 65536
  OBVIOUS
<1> QED BY <1>1, <1>2

\* Another byte at one place gives another sum.
LEMMA SumSees ==
    ASSUME NEW n \in Nat, NEW p, NEW q, Len(p) = n, Len(q) = n,
           \A i \in 1..n : p[i] \in Byte /\ q[i] \in Byte,
           NEW k \in 1..n, p[k] # q[k], \A i \in 1..n : i # k => p[i] = q[i]
    PROVE  Sum16(p) # Sum16(q)
<1>1. \A i \in 1..n : p[i] \in Nat /\ p[i] < 256 /\ q[i] \in Nat /\ q[i] < 256
  BY ByteIs
<1>2. PICK f : Adds(f, p, n) /\ Sum16(p) = f[n]
  BY <1>1, SumIs
<1>3. PICK g : Adds(g, q, n) /\ Sum16(q) = g[n]
  BY <1>1, SumIs
<1> DEFINE Wrong == {i \in 0..n : (f[i] = g[i]) # (i < k)}
<1>4. ASSUME Wrong # {} PROVE FALSE
  <2>1. Wrong \in SUBSET Nat
    OBVIOUS
  <2>2. Min(Wrong) \in Wrong /\ \A y \in Wrong : Min(Wrong) =< y
    <3> HIDE DEF Wrong
    <3> QED BY <1>4, <2>1, Least
  <2>3. PICK m \in 0..n : m \in Wrong /\ \A y \in Wrong : m =< y
    BY <2>2
  <2>4. m # 0
    BY <1>2, <1>3, <2>3 DEF Adds
  <2>5. m - 1 \in 0..n /\ m \in 1..n /\ (f[m - 1] = g[m - 1] <=> m - 1 < k)
    BY <2>3, <2>4
  <2>6. /\ f[m] = (f[m - 1] + p[m]) % 65536 /\ f[m - 1] \in Nat /\ f[m - 1] < 65536
        /\ g[m] = (g[m - 1] + q[m]) % 65536 /\ g[m - 1] \in Nat /\ g[m - 1] < 65536
    BY <1>2, <1>3, <2>5 DEF Adds
  <2>7. (f[m] = g[m]) # (m < k)
    BY <2>3
  <2>8. p[m] \in Nat /\ p[m] < 256 /\ q[m] \in Nat /\ q[m] < 256
    BY <1>1, <2>5
  <2>9. m # k => p[m] = q[m]
    BY <2>5
  <2> HIDE DEF Wrong
  <2>10. (f[m - 1] = g[m - 1]) # (p[m] = q[m]) => f[m] # g[m]
    <3> DEFINE x == f[m - 1]
               y == g[m - 1]
               a == p[m]
               b == q[m]
    <3>1. x \in Nat /\ y \in Nat /\ a \in Nat /\ b \in Nat /\ x < 65536 /\ y < 65536 /\ a < 256 /\ b < 256
      BY <2>6, <2>8
    <3>2. f[m] = (x + a) % 65536 /\ g[m] = (y + b) % 65536
      BY <2>6
    <3> HIDE DEF x, y, a, b
    <3>3. (x = y) # (a = b) => (x + a) % 65536 # (y + b) % 65536
      BY <3>1, StepSees
    <3>4. (x = y) # (a = b) => f[m] # g[m]
      BY <3>2, <3>3
    <3> QED BY <3>4 DEF x, y, a, b
  <2>11. CASE m < k
    BY <2>5, <2>6, <2>7, <2>9, <2>11
  <2>12. CASE m = k
    BY <2>5, <2>7, <2>10, <2>12
  <2>13. CASE m > k
    <3>1. f[m - 1] # g[m - 1] /\ p[m] = q[m]
      BY <2>5, <2>9, <2>13
    <3> QED BY <2>7, <2>10, <2>13, <3>1
  <2> QED BY <2>11, <2>12, <2>13
<1>5. n \in 0..n /\ n \notin Wrong
  BY <1>4
<1> QED BY <1>2, <1>3, <1>5

\* The checksum is a 16-bit number, and its two bytes determine it.
LEMMA SumRange ==
    ASSUME NEW n \in Nat, NEW p, Len(p) = n, \A i \in 1..n : p[i] \in Int
    PROVE  Sum16(p) \in Nat /\ Sum16(p) < 65536
<1>1. PICK f : Adds(f, p, n) /\ Sum16(p) = f[n]
  BY SumIs
<1> QED BY <1>1 DEF Adds

LEMMA BigEndianIs ==
    ASSUME NEW x \in Nat, NEW y \in Nat, x < 65536, y < 65536
    PROVE  /\ BigEndian(x)[1] \in Byte /\ BigEndian(x)[2] \in Byte
           /\ BigEndian(x) = BigEndian(y) => x = y
<1>1. x \div 256 >= 0 /\ x \div 256 =< 255 /\ x % 256 >= 0 /\ x % 256 =< 255
      /\ x \div 256 \in Int /\ x % 256 \in Int
  OBVIOUS
<1>2. x = 256 * (x \div 256) + (x % 256) /\ y = 256 * (y \div 256) + (y % 256)
  OBVIOUS
<1> QED BY <1>1, <1>2, ByteIs DEF BigEndian

-----------------------------------------------------------------------------
(* The frame of the checksummed sections. *)

Sectional == {"dpi", "preferences", "buttons"}

LEMMA LayoutIs ==
    ASSUME NEW k \in Sectional
    PROVE  /\ Layout[k].id \in Byte /\ Layout[k].declared \in Byte /\ Layout[k].declared + 2 \in Byte
           /\ Layout[k].sum \in Nat /\ Layout[k].sum > 3 /\ Layout[k].compact = Layout[k].sum + 2
           /\ Layout[k].full \in Nat /\ Layout[k].full >= Layout[k].compact
           /\ Layout[k].full - 1 \notin {Layout[k].compact, Layout[k].full}
BY ByteIs DEF Sectional, Layout

LEMMA LayoutOf ==
    ASSUME NEW k \in Kind
    PROVE  /\ Layout[k].id \in Byte /\ Layout[k].declared \in Byte /\ Layout[k].declared + 2 \in Byte
           /\ Layout[k].compact \in Nat /\ Layout[k].compact > 5
           /\ Layout[k].full \in Nat /\ Layout[k].full >= Layout[k].compact
           /\ Layout[k].full - 1 \notin {Layout[k].compact, Layout[k].full}
           /\ \A l \in Kind : Layout[l].id = Layout[k].id => l = k
BY ByteIs DEF Kind, Layout

\* r is s with t behind it, sequences of m and n bytes.
IsJoin(r, s, m, t, n) ==
    /\ r \in Seq(Byte) /\ Len(r) = m + n
    /\ \A i \in 1..m : r[i] = s[i]
    /\ \A i \in 1..n : r[m + i] = t[i]

LEMMA Joined ==
    ASSUME NEW s \in Seq(Byte), NEW t \in Seq(Byte), NEW m \in Nat, NEW n \in Nat, Len(s) = m, Len(t) = n
    PROVE  IsJoin(s \o t, s, m, t, n)
<1> HIDE DEF Byte
<1> QED BY DEF IsJoin

LEMMA BytesOf ==
    ASSUME NEW n \in Nat, NEW f, \A i \in 1..n : f[i] \in Byte, f = [i \in 1..n |-> f[i]]
    PROVE  f \in Seq(Byte) /\ Len(f) = n
OBVIOUS

LEMMA ZerosAre ==
    ASSUME NEW n \in Nat
    PROVE  Zeros(n) \in Seq(Byte) /\ Len(Zeros(n)) = n /\ \A i \in 1..n : Zeros(n)[i] = 0
<1>1. 0 \in Byte
  BY ByteIs
<1> QED BY <1>1 DEF Zeros

\* What a write image of a section consists of.
LEMMA SealedIs ==
    ASSUME NEW k \in Sectional, NEW profile \in Byte,
           NEW body \in Seq(Byte), Len(body) = Layout[k].sum - 3
    PROVE  LET h == Sealed(k, profile, body)
               s == Layout[k].sum
           IN  /\ h \in Seq(Byte) /\ Len(h) = Layout[k].compact
               /\ h[1] = Layout[k].id /\ h[2] = Layout[k].declared /\ h[3] = profile
               /\ \A i \in 1..(s - 3) : h[3 + i] = body[i]
               /\ h[s + 1] = BigEndian(Sum16(body))[1] /\ h[s + 2] = BigEndian(Sum16(body))[2]
<1> DEFINE a == Header(k, profile)
           c == BigEndian(Sum16(body))
           s == Layout[k].sum
<1>1. /\ Layout[k].id \in Byte /\ Layout[k].declared \in Byte /\ s \in Nat /\ s > 3
      /\ Layout[k].compact = s + 2
  BY LayoutIs
<1>2. a \in Seq(Byte) /\ Len(a) = 3 /\ a[1] = Layout[k].id /\ a[2] = Layout[k].declared /\ a[3] = profile
  <2> HIDE DEF s
  <2> QED BY <1>1 DEF Header
<1>3. c \in Seq(Byte) /\ Len(c) = 2
  <2>1. \A i \in 1..(s - 3) : body[i] \in Int
    BY ByteIs
  <2>2. Sum16(body) \in Nat /\ Sum16(body) < 65536
    <3>1. s - 3 \in Nat
      BY <1>1
    <3> QED BY <2>1, <3>1, SumRange
  <2>3. c[1] \in Byte /\ c[2] \in Byte
    BY <2>2, BigEndianIs
  <2> QED BY <2>3 DEF BigEndian
<1>4. Sealed(k, profile, body) = a \o body \o c
  BY DEF Sealed
<1> DEFINE ab == a \o body
           h == ab \o c
<1>5. IsJoin(ab, a, 3, body, s - 3)
  <2>1. Len(body) = s - 3 /\ s - 3 \in Nat /\ 3 \in Nat
    BY <1>1
  <2> HIDE DEF a, s
  <2> QED BY <1>2, <2>1, Joined
<1>6. IsJoin(h, ab, s, c, 2)
  <2>1. ab \in Seq(Byte) /\ Len(ab) = s
    <3> HIDE DEF ab, s
    <3> QED BY <1>1, <1>5 DEF IsJoin
  <2>2. 2 \in Nat /\ s \in Nat
    BY <1>1
  <2> HIDE DEF ab, c, s
  <2> QED BY <1>3, <2>1, <2>2, Joined
<1> HIDE DEF a, c, s, ab, h
<1>7. h[1] = a[1] /\ h[2] = a[2] /\ h[3] = a[3]
  BY <1>1, <1>5, <1>6 DEF IsJoin
<1>8. \A i \in 1..(s - 3) : h[3 + i] = body[i]
  <2>1. ASSUME NEW i \in 1..(s - 3) PROVE h[3 + i] = body[i]
    <3>1. 3 + i \in 1..s
      BY <1>1
    <3>2. h[3 + i] = ab[3 + i]
      BY <1>6, <3>1 DEF IsJoin
    <3>3. ab[3 + i] = body[i]
      BY <1>5 DEF IsJoin
    <3> QED BY <3>2, <3>3
  <2> QED BY <2>1
<1>9. h[s + 1] = c[1] /\ h[s + 2] = c[2]
  BY <1>6 DEF IsJoin
<1>10. Sealed(k, profile, body) = h
  BY <1>4 DEF h, ab
<1>11. h \in Seq(Byte) /\ Len(h) = Layout[k].compact
  BY <1>1, <1>6 DEF IsJoin
<1> QED BY <1>2, <1>7, <1>8, <1>9, <1>10, <1>11 DEF s, c

\* p[from..to] of a report.
LEMMA SliceIs ==
    ASSUME NEW p \in Seq(Byte), NEW from \in Nat, NEW to \in Nat, from =< to, to =< Len(p)
    PROVE  /\ Slice(p, from, to) \in Seq(Byte) /\ Len(Slice(p, from, to)) = to - from
           /\ \A i \in 1..(to - from) : Slice(p, from, to)[i] = p[from + i]
<1> HIDE DEF Byte
<1>1. \A i \in (from + 1)..to : p[i] \in Byte
  OBVIOUS
<1>2. /\ SubSeq(p, from + 1, to) \in Seq(Byte)
      /\ Len(SubSeq(p, from + 1, to)) = IF from + 1 =< to THEN to - (from + 1) + 1 ELSE 0
      /\ \A i \in 1..(to - (from + 1) + 1) : SubSeq(p, from + 1, to)[i] = p[from + 1 + i - 1]
  BY <1>1, SubSeqProperties
<1> DEFINE q == SubSeq(p, from + 1, to)
<1>3. q \in Seq(Byte) /\ Len(q) = to - from /\ \A i \in 1..(to - from) : q[i] = p[from + i]
  BY <1>2
<1>4. Slice(p, from, to) = q
  BY DEF Slice
<1> HIDE DEF q
<1> QED BY <1>3, <1>4

LEMMA SameBytes ==
    ASSUME NEW s \in Seq(Byte), NEW t \in Seq(Byte), NEW n \in Nat, Len(s) = n, Len(t) = n,
           \A i \in 1..n : s[i] = t[i]
    PROVE  s = t
<1> HIDE DEF Byte
<1> QED BY SeqEqual

LEMMA SumBytes ==
    ASSUME NEW body \in Seq(Byte)
    PROVE  LET c == BigEndian(Sum16(body)) IN c \in Seq(Byte) /\ Len(c) = 2
<1> DEFINE c == BigEndian(Sum16(body))
<1>1. \A i \in 1..Len(body) : body[i] \in Int
  BY ByteIs
<1>2. Sum16(body) \in Nat /\ Sum16(body) < 65536
  BY <1>1, SumRange
<1>3. c[1] \in Byte /\ c[2] \in Byte
  BY <1>2, BigEndianIs
<1> QED BY <1>3 DEF BigEndian

LEMMA SumMatchesIs ==
    ASSUME NEW k \in Sectional, NEW p \in Seq(Byte), Len(p) >= Layout[k].sum + 2,
           NEW body \in Seq(Byte), Len(body) = Layout[k].sum - 3,
           \A i \in 1..(Layout[k].sum - 3) : p[3 + i] = body[i]
    PROVE  SumMatches(k, p) <=>
             /\ p[Layout[k].sum + 1] = BigEndian(Sum16(body))[1]
             /\ p[Layout[k].sum + 2] = BigEndian(Sum16(body))[2]
<1> DEFINE s == Layout[k].sum
           c == BigEndian(Sum16(body))
           d == Slice(p, s, s + 2)
           b == Slice(p, 3, s)
<1>1. s \in Nat /\ s > 3
  BY LayoutIs
<1>2. c \in Seq(Byte) /\ Len(c) = 2
  BY SumBytes
<1> HIDE DEF s, c
<1>3. d \in Seq(Byte) /\ Len(d) = 2 /\ d[1] = p[s + 1] /\ d[2] = p[s + 2]
  <2>1. s + 2 \in Nat /\ s =< s + 2 /\ s + 2 =< Len(p) /\ (s + 2) - s = 2
    BY <1>1 DEF s
  <2>2. /\ d \in Seq(Byte) /\ Len(d) = (s + 2) - s
        /\ \A i \in 1..((s + 2) - s) : d[i] = p[s + i]
    BY <1>1, <2>1, SliceIs
  <2> HIDE DEF d
  <2> QED BY <2>1, <2>2
<1>4. b = body
  <2>1. s \in Nat /\ 3 \in Nat /\ 3 =< s /\ s =< Len(p) /\ s - 3 \in Nat
    BY <1>1 DEF s
  <2>2. b \in Seq(Byte) /\ Len(b) = s - 3 /\ \A i \in 1..(s - 3) : b[i] = p[3 + i]
    BY <2>1, SliceIs
  <2> HIDE DEF b
  <2>3. \A i \in 1..(s - 3) : b[i] = body[i]
    BY <2>2 DEF s
  <2>4. Len(body) = s - 3
    BY DEF s
  <2> QED BY <2>1, <2>2, <2>3, <2>4, SameBytes
<1> HIDE DEF d, b
<1>5. SumMatches(k, p) <=> d = c
  BY <1>4 DEF SumMatches, d, b, c, s
<1>6. d = c <=> d[1] = c[1] /\ d[2] = c[2]
  <2>1. ASSUME d[1] = c[1], d[2] = c[2] PROVE d = c
    <3>1. 2 \in Nat /\ \A i \in 1..2 : d[i] = c[i]
      BY <2>1
    <3> QED BY <1>2, <1>3, <3>1, SameBytes
  <2> QED BY <2>1
<1> QED BY <1>3, <1>5, <1>6 DEF c, s

Declared(k, t) == IF t = "Receiver" THEN Layout[k].declared + 2 ELSE Layout[k].declared

\* What the mouse publishes of an image h: the bytes of h but for the declared
\* length, then zeros.
LEMMA PublishIs ==
    ASSUME NEW k \in Kind, NEW t \in Transport, NEW h \in Seq(Byte), Len(h) = Layout[k].compact
    PROVE  LET p == Publish(k, h, t)
           IN  /\ p \in Seq(Byte) /\ Len(p) = Layout[k].full
               /\ p[2] = Declared(k, t)
               /\ \A i \in 1..Layout[k].compact : i # 2 => p[i] = h[i]
               /\ \A i \in (Layout[k].compact + 1)..Layout[k].full : p[i] = 0
<1> DEFINE m == Layout[k].compact
           n == Layout[k].full - m
           z == Zeros(n)
           r == h \o z
           p == [r EXCEPT ![2] = Declared(k, t)]
<1>1. m \in Nat /\ m > 5 /\ n \in Nat /\ Layout[k].full = m + n /\ Declared(k, t) \in Byte
  BY LayoutOf DEF Declared
<1>2. Publish(k, h, t) = p
  BY DEF Publish, Declared
<1>3. z \in Seq(Byte) /\ Len(z) = n /\ \A i \in 1..n : z[i] = 0
  BY <1>1, ZerosAre
<1>4. IsJoin(r, h, m, z, n)
  <2>1. Len(h) = m
    OBVIOUS
  <2> HIDE DEF m, n, z
  <2> QED BY <1>1, <1>3, <2>1, Joined
<1> HIDE DEF m, n, z, r
<1>5. /\ r \in Seq(Byte) /\ Len(r) = m + n
      /\ \A i \in 1..m : r[i] = h[i]
      /\ \A i \in 1..n : r[m + i] = 0
  BY <1>3, <1>4 DEF IsJoin
<1>6. /\ p \in Seq(Byte) /\ Len(p) = m + n
      /\ \A i \in 1..(m + n) : p[i] = IF i = 2 THEN Declared(k, t) ELSE r[i]
  <2>1. 2 \in 1..Len(r)
    BY <1>1, <1>5
  <2> HIDE DEF Byte
  <2>2. p \in Seq(Byte) /\ Len(p) = Len(r)
        /\ \A i \in 1..Len(r) : p[i] = IF i = 2 THEN Declared(k, t) ELSE r[i]
    BY <1>1, <1>5, <2>1, ExceptSeq
  <2> QED BY <1>5, <2>2
<1> HIDE DEF p
<1>7. p[2] = Declared(k, t) /\ \A i \in 1..m : i # 2 => p[i] = h[i]
  BY <1>1, <1>5, <1>6
<1>8. ASSUME NEW i \in (m + 1)..(m + n) PROVE p[i] = 0
  <2>1. i - m \in 1..n /\ m + (i - m) = i /\ i # 2 /\ i \in 1..(m + n)
    BY <1>1
  <2>2. r[i] = 0
    BY <1>5, <2>1
  <2> QED BY <1>6, <2>1, <2>2
<1> QED BY <1>1, <1>2, <1>6, <1>7, <1>8 DEF m

\* p is the report the mouse publishes over t of a sealed section.
Frame(k, p, t, profile, body) ==
    /\ body \in Seq(Byte) /\ Len(body) = Layout[k].sum - 3
    /\ p \in Seq(Byte) /\ Len(p) = Layout[k].full
    /\ p[1] = Layout[k].id /\ p[2] = Declared(k, t) /\ p[3] = profile
    /\ \A i \in 1..(Layout[k].sum - 3) : p[3 + i] = body[i]
    /\ p[Layout[k].sum + 1] = BigEndian(Sum16(body))[1]
    /\ p[Layout[k].sum + 2] = BigEndian(Sum16(body))[2]
    /\ \A i \in (Layout[k].compact + 1)..Layout[k].full : p[i] = 0

LEMMA PublishedFrame ==
    ASSUME NEW k \in Sectional, NEW t \in Transport, NEW profile \in Byte,
           NEW body \in Seq(Byte), Len(body) = Layout[k].sum - 3
    PROVE  Frame(k, Publish(k, Sealed(k, profile, body), t), t, profile, body)
<1> DEFINE h == Sealed(k, profile, body)
           p == Publish(k, h, t)
           s == Layout[k].sum
<1>1. /\ h \in Seq(Byte) /\ Len(h) = Layout[k].compact
      /\ h[1] = Layout[k].id /\ h[2] = Layout[k].declared /\ h[3] = profile
      /\ \A i \in 1..(s - 3) : h[3 + i] = body[i]
      /\ h[s + 1] = BigEndian(Sum16(body))[1] /\ h[s + 2] = BigEndian(Sum16(body))[2]
  BY SealedIs
<1>2. s \in Nat /\ s > 3 /\ Layout[k].compact = s + 2
  BY LayoutIs
<1> HIDE DEF h, s
<1>3. /\ p \in Seq(Byte) /\ Len(p) = Layout[k].full
      /\ p[2] = Declared(k, t)
      /\ \A i \in 1..Layout[k].compact : i # 2 => p[i] = h[i]
      /\ \A i \in (Layout[k].compact + 1)..Layout[k].full : p[i] = 0
  <2>1. k \in Kind
    BY DEF Kind, Sectional
  <2> QED BY <1>1, <2>1, PublishIs
<1> HIDE DEF p
<1>4. p[1] = h[1] /\ p[3] = h[3] /\ p[s + 1] = h[s + 1] /\ p[s + 2] = h[s + 2]
  BY <1>2, <1>3
<1>5. \A i \in 1..(s - 3) : p[3 + i] = h[3 + i]
  <2>1. ASSUME NEW i \in 1..(s - 3) PROVE p[3 + i] = h[3 + i]
    <3>1. 3 + i \in 1..Layout[k].compact /\ 3 + i # 2
      BY <1>2
    <3> QED BY <1>3, <3>1
  <2> QED BY <2>1
<1>6. Frame(k, p, t, profile, body)
  BY <1>1, <1>3, <1>4, <1>5 DEF Frame, s
<1> QED BY <1>6 DEF p, h

\* A decoder does not refuse it for its frame.
LEMMA Framed ==
    ASSUME NEW k \in Sectional, NEW t \in Transport, t # "Ble", NEW profile, NEW body, NEW p,
           Frame(k, p, t, profile, body)
    PROVE  WellFramed(k, p, t, profile)
<1>1. /\ Layout[k].sum \in Nat /\ Layout[k].sum > 3 /\ Layout[k].compact = Layout[k].sum + 2
      /\ Layout[k].full \in Nat /\ Layout[k].full >= Layout[k].compact
  BY LayoutIs
<1>2. Len(p) \in ValidLengths(k, t)
  BY DEF Frame, ValidLengths, Framings
<1>3. At(p, 0) = Layout[k].id /\ At(p, 1) \in ValidDeclared(k, t) /\ At(p, 2) = profile
  BY DEF Frame, At, ValidDeclared, Declared
<1>4. ZeroFrom(p, Layout[k].compact)
  <2>1. ASSUME NEW i \in Layout[k].compact..(Len(p) - 1) PROVE p[i + 1] = 0
    <3>1. Len(p) = Layout[k].full
      BY DEF Frame
    <3>2. i + 1 \in (Layout[k].compact + 1)..Layout[k].full
      BY <1>1, <3>1
    <3> QED BY <3>2 DEF Frame
  <2> QED BY <2>1 DEF ZeroFrom, At
<1>5. SumMatches(k, p)
  <2>1. /\ p \in Seq(Byte) /\ Len(p) >= Layout[k].sum + 2
        /\ body \in Seq(Byte) /\ Len(body) = Layout[k].sum - 3
        /\ \A i \in 1..(Layout[k].sum - 3) : p[3 + i] = body[i]
        /\ p[Layout[k].sum + 1] = BigEndian(Sum16(body))[1]
        /\ p[Layout[k].sum + 2] = BigEndian(Sum16(body))[2]
    BY <1>1 DEF Frame
  <2> QED BY <2>1, SumMatchesIs
<1> QED BY <1>2, <1>3, <1>4, <1>5 DEF WellFramed

\* A damaged byte.
LEMMA Damaged ==
    ASSUME NEW b \in Byte, NEW d \in Damages
    PROVE  /\ (b + d) % 256 \in Byte /\ (b + d) % 256 # b
           /\ b >= 2 => (b + d) % 256 # b - 2
<1>1. b \in Nat /\ b < 256 /\ d \in {1, 128, 255}
  BY ByteIs DEF Damages
<1>2. (b + d) % 256 = IF b + d < 256 THEN b + d ELSE b + d - 256
  BY <1>1
<1>3. (b + d) % 256 \in Nat /\ (b + d) % 256 < 256
  BY <1>1
<1> QED BY <1>1, <1>2, <1>3, ByteIs

\* One damaged byte anywhere, and it does.
LEMMA Refused ==
    ASSUME NEW k \in Sectional, NEW t \in Transport, NEW profile, NEW body, NEW p,
           Frame(k, p, t, profile, body),
           NEW j \in 1..Layout[k].full, NEW d \in Damages
    PROVE  ~WellFramed(k, [p EXCEPT ![j] = (p[j] + d) % 256], t, profile)
<1> DEFINE q == [p EXCEPT ![j] = (p[j] + d) % 256]
           s == Layout[k].sum
<1>1. /\ s \in Nat /\ s > 3 /\ Layout[k].compact = s + 2
      /\ Layout[k].full \in Nat /\ Layout[k].full >= s + 2
  BY LayoutIs
<1>2. p \in Seq(Byte) /\ Len(p) = Layout[k].full /\ body \in Seq(Byte) /\ Len(body) = s - 3
  BY DEF Frame
<1>3. p[j] \in Byte
  BY <1>2, ElementOfSeq
<1>4. (p[j] + d) % 256 \in Byte /\ (p[j] + d) % 256 # p[j]
      /\ (p[j] >= 2 => (p[j] + d) % 256 # p[j] - 2)
  BY <1>3, Damaged
<1>5. /\ q \in Seq(Byte) /\ Len(q) = Layout[k].full
      /\ \A i \in 1..Layout[k].full : q[i] = IF i = j THEN (p[j] + d) % 256 ELSE p[i]
  <2> HIDE DEF Byte
  <2>1. j \in 1..Len(p)
    BY <1>2
  <2> QED BY <1>2, <1>4, <2>1, ExceptSeq
<1> SUFFICES ~WellFramed(k, q, t, profile)
  OBVIOUS
<1> HIDE DEF q, s
<1>6. q[j] # p[j]
  BY <1>4, <1>5
<1>7. CASE j = 1
  BY <1>6, <1>7 DEF Frame, WellFramed, At
<1>8. CASE j = 2
  <2>1. p[2] = Declared(k, t) /\ q[2] # p[2]
    BY <1>6, <1>8 DEF Frame
  <2>2. q[2] # p[2] - 2 \/ p[2] < 2
    BY <1>3, <1>4, <1>5, <1>8, ByteIs
  <2>3. Layout[k].declared \in Nat
    BY LayoutIs, ByteIs
  <2>4. q[2] \notin ValidDeclared(k, t)
    <3>1. CASE t = "Receiver"
      <4>1. p[2] = Layout[k].declared + 2 /\ q[2] # Layout[k].declared + 2 /\ q[2] # Layout[k].declared
        BY <2>1, <2>2, <2>3, <3>1 DEF Declared
      <4> QED BY <3>1, <4>1 DEF ValidDeclared
    <3>2. CASE t # "Receiver"
      BY <2>1, <3>2 DEF Declared, ValidDeclared
    <3> QED BY <3>1, <3>2
  <2> QED BY <2>4 DEF WellFramed, At
<1>9. CASE j = 3
  BY <1>6, <1>9 DEF Frame, WellFramed, At
<1>10. CASE j > s + 2
  <2>1. p[j] = 0
    BY <1>1, <1>10 DEF Frame
  <2>2. j - 1 \in Layout[k].compact..(Len(q) - 1) /\ q[(j - 1) + 1] # 0
    BY <1>1, <1>5, <1>6, <1>10, <2>1
  <2> QED BY <2>2 DEF WellFramed, ZeroFrom, At
<1>11. CASE j \in {s + 1, s + 2}
  <2>1. \A i \in 1..(s - 3) : q[3 + i] = body[i]
    <3>1. ASSUME NEW i \in 1..(s - 3) PROVE q[3 + i] = body[i]
      <4>1. 3 + i \in 1..Layout[k].full /\ 3 + i # j
        BY <1>1, <1>11
      <4>2. p[3 + i] = body[i]
        BY DEF Frame, s
      <4> QED BY <1>5, <4>1, <4>2
    <3> QED BY <3>1
  <2>2. /\ p[s + 1] = BigEndian(Sum16(body))[1]
        /\ p[s + 2] = BigEndian(Sum16(body))[2]
    BY DEF Frame, s
  <2>3. ~(q[s + 1] = BigEndian(Sum16(body))[1] /\ q[s + 2] = BigEndian(Sum16(body))[2])
    BY <1>6, <1>11, <2>2
  <2>4. Len(q) >= s + 2
    BY <1>1, <1>5
  <2>5. ~SumMatches(k, q)
    BY <1>2, <1>5, <2>1, <2>3, <2>4, SumMatchesIs DEF s
  <2> QED BY <2>5 DEF WellFramed
<1>12. CASE j \in 4..s
  <2> DEFINE l == j - 3
             other == [body EXCEPT ![l] = q[j]]
  <2>1. l \in 1..(s - 3) /\ j = 3 + l
    BY <1>1, <1>12
  <2>2. q[j] \in Byte
    BY <1>5, ElementOfSeq
  <2>3. /\ other \in Seq(Byte) /\ Len(other) = s - 3
        /\ \A i \in 1..(s - 3) : other[i] = IF i = l THEN q[j] ELSE body[i]
    <3> HIDE DEF Byte, l
    <3>1. l \in 1..Len(body)
      BY <1>2, <2>1
    <3> QED BY <1>2, <2>2, <3>1, ExceptSeq
  <2> HIDE DEF l, other
  <2>4. \A i \in 1..(s - 3) : p[3 + i] = body[i]
    BY DEF Frame, s
  <2>5. \A i \in 1..(s - 3) : q[3 + i] = other[i]
    <3>1. ASSUME NEW i \in 1..(s - 3) PROVE q[3 + i] = other[i]
      <4>1. 3 + i \in 1..Layout[k].full /\ (3 + i = j <=> i = l)
        BY <1>1, <2>1
      <4> QED BY <1>5, <2>3, <2>4, <4>1
    <3> QED BY <3>1
  <2>6. Sum16(other) # Sum16(body)
    <3>1. s - 3 \in Nat
      BY <1>1
    <3>2. other[l] # body[l] /\ \A i \in 1..(s - 3) : i # l => other[i] = body[i]
      BY <1>6, <2>1, <2>3, <2>4
    <3>3. \A i \in 1..(s - 3) : other[i] \in Byte /\ body[i] \in Byte
      BY <1>2, <2>3, ElementOfSeq
    <3> QED BY <1>2, <2>1, <2>3, <3>1, <3>2, <3>3, SumSees
  <2>7. /\ Sum16(other) \in Nat /\ Sum16(other) < 65536
        /\ Sum16(body) \in Nat /\ Sum16(body) < 65536
    <3>1. \A i \in 1..Len(body) : body[i] \in Int
      BY <1>2, ByteIs
    <3>2. \A i \in 1..Len(other) : other[i] \in Int
      BY <2>3, ByteIs
    <3>3. Len(body) \in Nat /\ Len(other) \in Nat
      BY <1>2, <2>3
    <3> QED BY <3>1, <3>2, <3>3, SumRange
  <2> DEFINE x == BigEndian(Sum16(other))
             y == BigEndian(Sum16(body))
  <2>8. x # y
    BY <2>6, <2>7, BigEndianIs
  <2>9. ~(x[1] = y[1] /\ x[2] = y[2])
    BY <2>8 DEF BigEndian
  <2>10. q[s + 1] = y[1] /\ q[s + 2] = y[2]
    <3>1. s + 1 \in 1..Layout[k].full /\ s + 2 \in 1..Layout[k].full /\ j # s + 1 /\ j # s + 2
      BY <1>1, <1>12
    <3>2. p[s + 1] = y[1] /\ p[s + 2] = y[2]
      BY DEF Frame, s
    <3> HIDE DEF y
    <3> QED BY <1>5, <3>1, <3>2
  <2>11. Len(q) >= s + 2
    BY <1>1, <1>5
  <2>12. ~SumMatches(k, q)
    <3>1. SumMatches(k, q) <=> q[s + 1] = x[1] /\ q[s + 2] = x[2]
      BY <1>5, <2>3, <2>5, <2>11, SumMatchesIs DEF s
    <3> HIDE DEF x, y
    <3> QED BY <2>9, <2>10, <3>1
  <2> QED BY <2>12 DEF WellFramed
<1>13. j \in 1..3 \/ j \in 4..s \/ j \in {s + 1, s + 2} \/ j > s + 2
  BY <1>1
<1> QED BY <1>7, <1>8, <1>9, <1>10, <1>11, <1>12, <1>13

-----------------------------------------------------------------------------
(* The codecs: what a decoder makes of the report of an encoded value. *)

\* The bytes of a report that carries the body of a section.
LEMMA FrameBytes ==
    ASSUME NEW k \in Sectional, NEW t, NEW profile, NEW body, NEW p, Frame(k, p, t, profile, body),
           NEW i \in Nat, i >= 3, i < Layout[k].sum
    PROVE  At(p, i) = body[i - 2]
<1>1. i - 2 \in 1..(Layout[k].sum - 3) /\ 3 + (i - 2) = i + 1
  BY LayoutIs
<1> QED BY <1>1 DEF Frame, At

\* v is what body holds of n bytes behind its first off.
IsPart(v, body, off, n) ==
    v \in Seq(Byte) /\ Len(v) = n /\ \A i \in 1..n : body[off + i] = v[i]

LEMMA FrameSlice ==
    ASSUME NEW k \in Sectional, NEW t, NEW profile, NEW body, NEW p, Frame(k, p, t, profile, body),
           NEW off \in Nat, NEW n \in Nat, NEW v, IsPart(v, body, off, n),
           off + n =< Layout[k].sum - 3
    PROVE  Slice(p, off + 3, off + 3 + n) = v
<1> DEFINE from == off + 3
           to == off + 3 + n
           q == Slice(p, from, to)
<1>1. /\ Layout[k].sum \in Nat /\ Layout[k].compact = Layout[k].sum + 2
      /\ Layout[k].full >= Layout[k].compact /\ Layout[k].full \in Nat
  BY LayoutIs
<1>2. p \in Seq(Byte) /\ to =< Len(p) /\ to - from = n /\ from =< to /\ from \in Nat /\ to \in Nat
  <2>1. p \in Seq(Byte) /\ Len(p) = Layout[k].full
    BY DEF Frame
  <2>2. to =< Layout[k].full
    BY <1>1
  <2> QED BY <2>1, <2>2
<1> HIDE DEF from, to
<1>3. q \in Seq(Byte) /\ Len(q) = n /\ \A i \in 1..n : q[i] = p[from + i]
  <2>1. q \in Seq(Byte) /\ Len(q) = to - from /\ \A i \in 1..(to - from) : q[i] = p[from + i]
    BY <1>2, SliceIs
  <2> HIDE DEF q
  <2> QED BY <1>2, <2>1
<1> HIDE DEF q
<1>4. ASSUME NEW i \in 1..n PROVE q[i] = v[i]
  <2>1. off + i \in 1..(Layout[k].sum - 3) /\ 3 + (off + i) = from + i
    BY <1>1 DEF from
  <2>2. p[3 + (off + i)] = body[off + i]
    BY <2>1 DEF Frame
  <2> QED BY <1>3, <2>1, <2>2 DEF IsPart
<1>5. q = v
  BY <1>3, <1>4, SameBytes DEF IsPart
<1> QED BY <1>5 DEF q, from, to

Joined3(r, a, la, b, lb, c, lc) ==
    /\ r \in Seq(Byte) /\ Len(r) = la + lb + lc
    /\ \A i \in 1..la : r[i] = a[i]
    /\ \A i \in 1..lb : r[la + i] = b[i]
    /\ \A i \in 1..lc : r[la + lb + i] = c[i]

LEMMA JoinThree ==
    ASSUME NEW a \in Seq(Byte), NEW b \in Seq(Byte), NEW c \in Seq(Byte),
           NEW la \in Nat, NEW lb \in Nat, NEW lc \in Nat, Len(a) = la, Len(b) = lb, Len(c) = lc
    PROVE  Joined3(a \o b \o c, a, la, b, lb, c, lc)
<1> DEFINE ab == a \o b
           r == ab \o c
<1>1. IsJoin(ab, a, la, b, lb)
  BY Joined
<1> HIDE DEF ab
<1>2. ab \in Seq(Byte) /\ Len(ab) = la + lb /\ la + lb \in Nat
  BY <1>1 DEF IsJoin
<1>3. IsJoin(r, ab, la + lb, c, lc)
  <2> HIDE DEF Byte
  <2> QED BY <1>2, Joined
<1> HIDE DEF r
<1>4. /\ r \in Seq(Byte) /\ Len(r) = la + lb + lc
      /\ \A i \in 1..lc : r[la + lb + i] = c[i]
      /\ \A i \in 1..(la + lb) : r[i] = ab[i]
  BY <1>3 DEF IsJoin
<1>5. ASSUME NEW i \in 1..la PROVE r[i] = a[i]
  <2>1. i \in 1..(la + lb)
    OBVIOUS
  <2> QED BY <1>1, <1>4, <2>1 DEF IsJoin
<1>6. ASSUME NEW i \in 1..lb PROVE r[la + i] = b[i]
  <2>1. la + i \in 1..(la + lb)
    OBVIOUS
  <2> QED BY <1>1, <1>4, <2>1 DEF IsJoin
<1>7. Joined3(r, a, la, b, lb, c, lc)
  BY <1>4, <1>5, <1>6 DEF Joined3
<1> QED BY <1>7 DEF r, ab

\* Preferences.
PreferenceBody(s) == <<s.light, s.configuration, s.deepSleep>> \o s.color \o <<s.sleep, s.debounce>>

LEMMA PreferenceBodyIs ==
    ASSUME NEW s \in States["preferences"]
    PROVE  /\ Joined3(PreferenceBody(s), <<s.light, s.configuration, s.deepSleep>>, 3, s.color, 3,
                      <<s.sleep, s.debounce>>, 2)
           /\ s.color \in Seq(Byte) /\ Len(s.color) = 3 /\ s.profile = Target
<1>1. /\ s.light \in Byte /\ s.configuration \in Byte /\ s.deepSleep \in Byte
      /\ s.sleep \in Byte /\ s.debounce \in Byte /\ s.color \in Color /\ s.profile = Target
  BY DEF States
<1> DEFINE a == <<s.light, s.configuration, s.deepSleep>>
           c == <<s.sleep, s.debounce>>
<1>2. a \in Seq(Byte) /\ Len(a) = 3 /\ c \in Seq(Byte) /\ Len(c) = 2
  BY <1>1
<1>3. s.color \in Seq(Byte) /\ Len(s.color) = 3
  <2>1. s.color = [i \in 1..3 |-> s.color[i]] /\ \A i \in 1..3 : s.color[i] \in Byte
    BY <1>1 DEF Color
  <2> QED BY <2>1, BytesOf
<1> HIDE DEF a, c
<1>4. Joined3(a \o s.color \o c, a, 3, s.color, 3, c, 2)
  <2>1. 2 \in Nat /\ 3 \in Nat
    OBVIOUS
  <2> QED BY <1>2, <1>3, <2>1, JoinThree
<1> QED BY <1>1, <1>3, <1>4 DEF a, c, PreferenceBody

LEMMA PreferencesFrame ==
    ASSUME NEW s \in States["preferences"], NEW t \in Transport, Target \in Byte
    PROVE  Frame("preferences", Publish("preferences", EncodePreferences(s), t), t, Target, PreferenceBody(s))
<1> DEFINE body == PreferenceBody(s)
<1>1. body \in Seq(Byte) /\ Len(body) = 8 /\ s.profile = Target
  BY PreferenceBodyIs DEF Joined3
<1>2. "preferences" \in Sectional /\ Layout["preferences"].sum - 3 = 8
  BY DEF Sectional, Layout
<1>3. EncodePreferences(s) = Sealed("preferences", Target, body)
  BY <1>1 DEF EncodePreferences, PreferenceBody
<1> HIDE DEF body
<1>4. Frame("preferences", Publish("preferences", Sealed("preferences", Target, body), t), t, Target, body)
  BY <1>1, <1>2, PublishedFrame
<1> QED BY <1>3, <1>4 DEF body

LEMMA PreferencesRoundTrip ==
    ASSUME NEW s \in States["preferences"], NEW t \in Transport, t # "Ble", Target \in Byte
    PROVE  DecodePreferences(Publish("preferences", EncodePreferences(s), t), t, Target) = s
<1> DEFINE body == PreferenceBody(s)
           p == Publish("preferences", EncodePreferences(s), t)
           a == <<s.light, s.configuration, s.deepSleep>>
           c == <<s.sleep, s.debounce>>
<1>1. /\ Joined3(body, a, 3, s.color, 3, c, 2)
      /\ s.color \in Seq(Byte) /\ Len(s.color) = 3 /\ s.profile = Target
  BY PreferenceBodyIs
<1>3. "preferences" \in Sectional /\ Layout["preferences"].sum = 11
  BY DEF Sectional, Layout
<1>5. Frame("preferences", p, t, Target, body)
  BY PreferencesFrame
<1> HIDE DEF body, p, a, c
<1>6. WellFramed("preferences", p, t, Target)
  BY <1>3, <1>5, Framed
<1>7. /\ At(p, 3) = body[1] /\ At(p, 4) = body[2] /\ At(p, 5) = body[3]
      /\ At(p, 9) = body[7] /\ At(p, 10) = body[8]
  BY <1>3, <1>5, FrameBytes
<1>8. /\ body[1] = a[1] /\ body[2] = a[2] /\ body[3] = a[3]
      /\ body[7] = c[1] /\ body[8] = c[2]
      /\ \A i \in 1..3 : body[3 + i] = s.color[i]
  BY <1>1 DEF Joined3
<1>9. Slice(p, 6, 9) = s.color
  <2>1. IsPart(s.color, body, 3, 3)
    BY <1>1, <1>8 DEF IsPart
  <2>2. Slice(p, 3 + 3, 3 + 3 + 3) = s.color
    BY <1>3, <1>5, <2>1, FrameSlice
  <2> QED BY <2>2
<1>10. s = [profile |-> s.profile, light |-> s.light, configuration |-> s.configuration,
            deepSleep |-> s.deepSleep, color |-> s.color, sleep |-> s.sleep, debounce |-> s.debounce]
  BY DEF States
<1>11. DecodePreferences(p, t, Target) = s
  BY <1>1, <1>6, <1>7, <1>8, <1>9, <1>10 DEF DecodePreferences, a, c
<1> QED BY <1>11 DEF p

\* Buttons.
ButtonBody(s) == [i \in 1..54 |-> s.slots[(i - 1) \div 3][((i - 1) % 3) + 1]]

LEMMA ButtonBodyIs ==
    ASSUME NEW s \in States["buttons"]
    PROVE  /\ ButtonBody(s) \in Seq(Byte) /\ Len(ButtonBody(s)) = 54 /\ s.profile = Target
           /\ \A i \in 0..17 : \A j \in 1..3 : ButtonBody(s)[3 * i + j] = s.slots[i][j]
<1>1. s.profile = Target /\ s.slots \in [0..17 -> [1..3 -> Byte]]
  BY DEF States, SlotCount
<1>2. ASSUME NEW i \in 1..54 PROVE s.slots[(i - 1) \div 3][((i - 1) % 3) + 1] \in Byte
  <2>1. (i - 1) \div 3 \in 0..17 /\ ((i - 1) % 3) + 1 \in 1..3
    OBVIOUS
  <2> HIDE DEF Byte
  <2> QED BY <1>1, <2>1
<1>3. ButtonBody(s) \in Seq(Byte) /\ Len(ButtonBody(s)) = 54
  <2> HIDE DEF Byte
  <2> QED BY <1>2 DEF ButtonBody
<1>4. ASSUME NEW i \in 0..17, NEW j \in 1..3 PROVE ButtonBody(s)[3 * i + j] = s.slots[i][j]
  <2>1. 3 * i + j \in 1..54 /\ (3 * i + j - 1) \div 3 = i /\ ((3 * i + j - 1) % 3) + 1 = j
    OBVIOUS
  <2> QED BY <2>1 DEF ButtonBody
<1> QED BY <1>1, <1>3, <1>4

LEMMA ButtonsFrame ==
    ASSUME NEW s \in States["buttons"], NEW t \in Transport, Target \in Byte
    PROVE  Frame("buttons", Publish("buttons", EncodeButtons(s), t), t, Target, ButtonBody(s))
<1> DEFINE body == ButtonBody(s)
<1>1. body \in Seq(Byte) /\ Len(body) = 54 /\ s.profile = Target
  BY ButtonBodyIs
<1>2. "buttons" \in Sectional /\ Layout["buttons"].sum - 3 = 54
  BY DEF Sectional, Layout
<1>3. EncodeButtons(s) = Sealed("buttons", Target, body)
  BY <1>1 DEF EncodeButtons, ButtonBody
<1> HIDE DEF body
<1>4. Frame("buttons", Publish("buttons", Sealed("buttons", Target, body), t), t, Target, body)
  <2>1. body \in Seq(Byte) /\ Len(body) = Layout["buttons"].sum - 3 /\ "buttons" \in Sectional
    BY <1>1, <1>2
  <2> QED BY <2>1, PublishedFrame
<1> QED BY <1>3, <1>4 DEF body

LEMMA ButtonsRoundTrip ==
    ASSUME NEW s \in States["buttons"], NEW t \in Transport, t # "Ble", Target \in Byte
    PROVE  DecodeButtons(Publish("buttons", EncodeButtons(s), t), t, Target) = s
<1> DEFINE body == ButtonBody(s)
           p == Publish("buttons", EncodeButtons(s), t)
<1>1. /\ body \in Seq(Byte) /\ Len(body) = 54 /\ s.profile = Target
      /\ \A i \in 0..17 : \A j \in 1..3 : body[3 * i + j] = s.slots[i][j]
  BY ButtonBodyIs
<1>2. "buttons" \in Sectional /\ Layout["buttons"].sum = 57
  BY DEF Sectional, Layout
<1>3. Frame("buttons", p, t, Target, body)
  BY ButtonsFrame
<1> HIDE DEF body, p
<1>4. WellFramed("buttons", p, t, Target)
  BY <1>2, <1>3, Framed
<1>5. s.slots \in [0..17 -> [1..3 -> Byte]] /\ s = [profile |-> s.profile, slots |-> s.slots]
  BY DEF States, SlotCount
<1>6. ASSUME NEW i \in 0..17 PROVE Slice(p, 3 + 3 * i, 6 + 3 * i) = s.slots[i]
  <2>1. s.slots[i] \in Seq(Byte) /\ Len(s.slots[i]) = 3
    <3> HIDE DEF Byte
    <3>1. s.slots[i] \in [1..3 -> Byte]
      BY <1>5
    <3>2. s.slots[i] = [j \in 1..3 |-> s.slots[i][j]] /\ \A j \in 1..3 : s.slots[i][j] \in Byte
      BY <3>1
    <3> QED BY <3>2, BytesOf
  <2>2. IsPart(s.slots[i], body, 3 * i, 3)
    BY <1>1, <2>1 DEF IsPart
  <2>3. 3 * i \in Nat /\ 3 \in Nat /\ 3 * i + 3 =< Layout["buttons"].sum - 3
    BY <1>2
  <2>4. Slice(p, 3 * i + 3, 3 * i + 3 + 3) = s.slots[i]
    BY <1>2, <1>3, <2>2, <2>3, FrameSlice
  <2>5. 3 * i + 3 = 3 + 3 * i /\ 3 * i + 3 + 3 = 6 + 3 * i
    OBVIOUS
  <2> QED BY <2>4, <2>5
<1>7. [i \in 0..(SlotCount - 1) |-> Slice(p, 3 + 3 * i, 6 + 3 * i)] = s.slots
  BY <1>5, <1>6 DEF SlotCount
<1>8. DecodeButtons(p, t, Target) = s
  BY <1>1, <1>4, <1>5, <1>7 DEF DecodeButtons
<1> QED BY <1>8 DEF p

\* DPI.
DpiHead(s) == <<s.sensor.lift, s.sensor.ripple, StageMask(Len(s.stages)), s.sensor.snap, s.sensor.sync>>
LowBytes(s) == [i \in 1..8 |-> RawStage(s.stages, i - 1) % 256]
HighBytes(s) == [i \in 1..8 |-> RawStage(s.stages, i - 1) \div 256]
DpiFront(s) == DpiHead(s) \o LowBytes(s) \o HighBytes(s)
DpiBody(s) == DpiFront(s) \o <<s.active>> \o s.tail

LEMMA DpiIs == \A x : x \in Dpi => \E n \in Nat : n >= 1 /\ n =< 520 /\ x = 50 * n
<1>1. \A m \in Nat : \A n : n \in 1..m => n \in Nat /\ n >= 1 /\ n =< m
  OBVIOUS
<1>2. 520 \in Nat
  OBVIOUS
<1>3. \A n : n \in 1..520 => n \in Nat /\ n >= 1 /\ n =< 520
  BY <1>1, <1>2, Zenon
<1> QED BY <1>3, Zenon DEF Dpi

LEMMA DpiStateIs ==
    ASSUME NEW s \in States["dpi"]
    PROVE  /\ s = [profile |-> s.profile, stages |-> s.stages, active |-> s.active,
                   sensor |-> s.sensor, tail |-> s.tail]
           /\ s.profile = Target /\ s.stages \in Seq(Dpi) /\ Len(s.stages) \in 1..8
           /\ s.active \in 1..Len(s.stages) /\ ValidSelection(s.stages, s.active)
           /\ s.sensor = [lift |-> s.sensor.lift, ripple |-> s.sensor.ripple,
                          snap |-> s.sensor.snap, sync |-> s.sensor.sync]
           /\ s.sensor.lift \in Bit /\ s.sensor.ripple \in Bit
           /\ s.sensor.snap \in Bit /\ s.sensor.sync \in Bit
           /\ s.tail \in Seq(Byte) /\ Len(s.tail) = 25
<1>1. /\ s \in [profile : {Target}, stages : Seq(Dpi), active : StageIndex,
                sensor : [lift : Bit, ripple : Bit, snap : Bit, sync : Bit],
                tail : [1..WatermarkLength -> Byte]]
      /\ ValidSelection(s.stages, s.active)
  BY DEF States
<1>2. s.tail \in Seq(Byte) /\ Len(s.tail) = 25
  <2>1. s.tail \in [1..25 -> Byte]
    BY <1>1 DEF WatermarkLength
  <2>2. s.tail = [i \in 1..25 |-> s.tail[i]] /\ \A i \in 1..25 : s.tail[i] \in Byte
    BY <2>1
  <2> QED BY <2>2, BytesOf
<1>3. Len(s.stages) \in 1..8 /\ s.active \in 1..Len(s.stages)
  BY <1>1 DEF ValidSelection, StageIndex
<1> QED BY <1>1, <1>2, <1>3

LEMMA RawStageIs ==
    ASSUME NEW stages \in Seq(Dpi), NEW i \in 0..7
    PROVE  /\ RawStage(stages, i) \in Nat /\ RawStage(stages, i) =< 519
           /\ i < Len(stages) => 50 * (RawStage(stages, i) + 1) = stages[i + 1]
           /\ i >= Len(stages) => RawStage(stages, i) = 0
<1>1. CASE i < Len(stages)
  <2>1. stages[i + 1] \in Dpi
    <3> HIDE DEF Dpi
    <3>1. i + 1 \in 1..Len(stages)
      BY <1>1
    <3> QED BY <3>1, ElementOfSeq
  <2>2. PICK n \in Nat : n >= 1 /\ n =< 520 /\ stages[i + 1] = 50 * n
    BY <2>1, DpiIs
  <2>3. (50 * n) \div 50 = n
    OBVIOUS
  <2>4. RawStage(stages, i) = n - 1
    BY <1>1, <2>2, <2>3 DEF RawStage
  <2> QED BY <1>1, <2>2, <2>4
<1>2. CASE ~(i < Len(stages))
  BY <1>2 DEF RawStage
<1> QED BY <1>1, <1>2

LEMMA MasksDiffer ==
    ASSUME NEW m \in 1..8, NEW n \in 1..8
    PROVE  StageMask(m) \in Byte /\ (StageMask(m) = StageMask(n) => m = n)
<1>1. /\ 2^1 = 2 /\ 2^2 = 4 /\ 2^3 = 8 /\ 2^4 = 16
      /\ 2^5 = 32 /\ 2^6 = 64 /\ 2^7 = 128 /\ 2^8 = 256
  OBVIOUS
<1>2. /\ StageMask(1) = 1 /\ StageMask(2) = 3 /\ StageMask(3) = 7 /\ StageMask(4) = 15
      /\ StageMask(5) = 31 /\ StageMask(6) = 63 /\ StageMask(7) = 127 /\ StageMask(8) = 255
  BY <1>1 DEF StageMask
<1>3. m \in {1, 2, 3, 4, 5, 6, 7, 8} /\ n \in {1, 2, 3, 4, 5, 6, 7, 8}
  OBVIOUS
<1> QED BY <1>2, <1>3, ByteIs

LEMMA DpiBodyIs ==
    ASSUME NEW s \in States["dpi"]
    PROVE  /\ Joined3(DpiBody(s), DpiFront(s), 21, <<s.active>>, 1, s.tail, 25)
           /\ Joined3(DpiFront(s), DpiHead(s), 5, LowBytes(s), 8, HighBytes(s), 8)
<1>1. /\ s.stages \in Seq(Dpi) /\ Len(s.stages) \in 1..8 /\ s.active \in 1..Len(s.stages)
      /\ s.sensor.lift \in Bit /\ s.sensor.ripple \in Bit
      /\ s.sensor.snap \in Bit /\ s.sensor.sync \in Bit
      /\ s.tail \in Seq(Byte) /\ Len(s.tail) = 25
  BY DpiStateIs
<1>2. DpiHead(s) \in Seq(Byte) /\ Len(DpiHead(s)) = 5
  <2>1. StageMask(Len(s.stages)) \in Byte
    BY <1>1, MasksDiffer
  <2>2. /\ s.sensor.lift \in Byte /\ s.sensor.ripple \in Byte
        /\ s.sensor.snap \in Byte /\ s.sensor.sync \in Byte
    <3>1. \A b \in Bit : b \in Byte
      BY ByteIs DEF Bit
    <3> QED BY <1>1, <3>1
  <2> HIDE DEF Byte
  <2> QED BY <2>1, <2>2 DEF DpiHead
<1>3. /\ LowBytes(s) \in Seq(Byte) /\ Len(LowBytes(s)) = 8
      /\ HighBytes(s) \in Seq(Byte) /\ Len(HighBytes(s)) = 8
  <2>1. ASSUME NEW i \in 1..8
        PROVE  RawStage(s.stages, i - 1) % 256 \in Byte /\ RawStage(s.stages, i - 1) \div 256 \in Byte
    <3> DEFINE r == RawStage(s.stages, i - 1)
    <3>1. i - 1 \in 0..7
      OBVIOUS
    <3>2. r \in Nat /\ r =< 519
      BY <1>1, <3>1, RawStageIs
    <3> HIDE DEF r
    <3>3. r % 256 \in Nat /\ r % 256 < 256 /\ r \div 256 \in Nat /\ r \div 256 < 256
      BY <3>2
    <3> QED BY <3>3, ByteIs DEF r
  <2> HIDE DEF Byte
  <2> QED BY <2>1 DEF LowBytes, HighBytes
<1>4. <<s.active>> \in Seq(Byte) /\ Len(<<s.active>>) = 1
  <2>1. s.active \in Byte
    <3> DEFINE n == Len(s.stages)
    <3>0. n \in 1..8 /\ s.active \in 1..n
      BY <1>1
    <3> HIDE DEF n
    <3>1. s.active \in Nat /\ s.active < 256
      BY <3>0
    <3> QED BY <3>1, ByteIs
  <2> HIDE DEF Byte
  <2> QED BY <2>1
<1>5. Joined3(DpiFront(s), DpiHead(s), 5, LowBytes(s), 8, HighBytes(s), 8)
  <2>1. 5 \in Nat /\ 8 \in Nat
    OBVIOUS
  <2>2. Joined3(DpiHead(s) \o LowBytes(s) \o HighBytes(s), DpiHead(s), 5, LowBytes(s), 8, HighBytes(s), 8)
    BY <1>2, <1>3, <2>1, JoinThree
  <2> QED BY <2>2 DEF DpiFront
<1>6. DpiFront(s) \in Seq(Byte) /\ Len(DpiFront(s)) = 21
  BY <1>5 DEF Joined3
<1>7. Joined3(DpiBody(s), DpiFront(s), 21, <<s.active>>, 1, s.tail, 25)
  <2>1. 21 \in Nat /\ 1 \in Nat /\ 25 \in Nat
    OBVIOUS
  <2>2. Joined3(DpiFront(s) \o <<s.active>> \o s.tail, DpiFront(s), 21, <<s.active>>, 1, s.tail, 25)
    BY <1>1, <1>4, <1>6, <2>1, JoinThree
  <2> QED BY <2>2 DEF DpiBody
<1> QED BY <1>5, <1>7

\* The bytes of the body, counted from one.
LEMMA DpiBytes ==
    ASSUME NEW s \in States["dpi"]
    PROVE  LET body == DpiBody(s)
           IN  /\ body \in Seq(Byte) /\ Len(body) = 47
               /\ body[1] = s.sensor.lift /\ body[2] = s.sensor.ripple
               /\ body[3] = StageMask(Len(s.stages))
               /\ body[4] = s.sensor.snap /\ body[5] = s.sensor.sync
               /\ \A i \in 1..8 : /\ body[5 + i] = RawStage(s.stages, i - 1) % 256
                                  /\ body[13 + i] = RawStage(s.stages, i - 1) \div 256
               /\ body[22] = s.active /\ \A i \in 1..25 : body[22 + i] = s.tail[i]
<1> DEFINE body == DpiBody(s)
           front == DpiFront(s)
           head == DpiHead(s)
           low == LowBytes(s)
           high == HighBytes(s)
           one == <<s.active>>
<1>1. Joined3(body, front, 21, one, 1, s.tail, 25) /\ Joined3(front, head, 5, low, 8, high, 8)
  BY DpiBodyIs
<1> HIDE DEF body, front, head, low, high, one
<1>2. /\ body \in Seq(Byte) /\ Len(body) = 47
      /\ \A i \in 1..21 : body[i] = front[i]
      /\ body[22] = one[1] /\ \A i \in 1..25 : body[22 + i] = s.tail[i]
  BY <1>1 DEF Joined3
<1>3. /\ \A i \in 1..5 : front[i] = head[i]
      /\ \A i \in 1..8 : front[5 + i] = low[i] /\ front[13 + i] = high[i]
  BY <1>1 DEF Joined3
<1>4. /\ \A i \in 1..5 : body[i] = head[i]
      /\ \A i \in 1..8 : body[5 + i] = low[i] /\ body[13 + i] = high[i]
  <2>1. \A i \in 1..5 : i \in 1..21
    OBVIOUS
  <2>2. \A i \in 1..8 : 5 + i \in 1..21 /\ 13 + i \in 1..21
    OBVIOUS
  <2> QED BY <1>2, <1>3, <2>1, <2>2
<1>5. one[1] = s.active
  BY DEF one
<1>6. /\ head[1] = s.sensor.lift /\ head[2] = s.sensor.ripple /\ head[3] = StageMask(Len(s.stages))
      /\ head[4] = s.sensor.snap /\ head[5] = s.sensor.sync
  BY DEF head, DpiHead
<1>7. \A i \in 1..8 : /\ low[i] = RawStage(s.stages, i - 1) % 256
                      /\ high[i] = RawStage(s.stages, i - 1) \div 256
  BY DEF low, high, LowBytes, HighBytes
<1>8. body[1] = head[1] /\ body[2] = head[2] /\ body[3] = head[3] /\ body[4] = head[4] /\ body[5] = head[5]
  BY <1>4
<1>9. \A i \in 1..8 : /\ body[5 + i] = RawStage(s.stages, i - 1) % 256
                      /\ body[13 + i] = RawStage(s.stages, i - 1) \div 256
  BY <1>4, <1>7
<1> QED BY <1>2, <1>5, <1>6, <1>8, <1>9 DEF body

LEMMA DpiFrame ==
    ASSUME NEW s \in States["dpi"], NEW t \in Transport, Target \in Byte, None \notin States["dpi"]
    PROVE  /\ EncodeDpi(s) = Sealed("dpi", Target, DpiBody(s))
           /\ Frame("dpi", Publish("dpi", EncodeDpi(s), t), t, Target, DpiBody(s))
<1> DEFINE body == DpiBody(s)
<1>1. body \in Seq(Byte) /\ Len(body) = 47
  BY DpiBytes
<1>2. s.profile = Target /\ NewDpi(s) # None
  BY DpiStateIs DEF NewDpi
<1>3. "dpi" \in Sectional /\ Layout["dpi"].sum - 3 = 47
  BY DEF Sectional, Layout
<1>4. EncodeDpi(s) = Sealed("dpi", Target, body)
  BY <1>2 DEF EncodeDpi, DpiBody, DpiFront, DpiHead, LowBytes, HighBytes
<1> HIDE DEF body
<1>5. Frame("dpi", Publish("dpi", Sealed("dpi", Target, body), t), t, Target, body)
  BY <1>1, <1>3, PublishedFrame
<1> QED BY <1>4, <1>5 DEF body

LEMMA DpiRoundTrip ==
    ASSUME NEW s \in States["dpi"], NEW t \in Transport, t # "Ble", Target \in Byte,
           None \notin States["dpi"]
    PROVE  DecodeDpi(Publish("dpi", EncodeDpi(s), t), t, Target) = s
<1> DEFINE body == DpiBody(s)
           p == Publish("dpi", EncodeDpi(s), t)
           n == Len(s.stages)
           raw == [i \in 0..7 |-> At(p, 8 + i) + 256 * At(p, 16 + i)]
           fits == {m \in 1..8 : StageMask(m) = At(p, 5)}
<1>1. /\ body \in Seq(Byte) /\ Len(body) = 47
      /\ body[1] = s.sensor.lift /\ body[2] = s.sensor.ripple
      /\ body[3] = StageMask(n)
      /\ body[4] = s.sensor.snap /\ body[5] = s.sensor.sync
      /\ \A i \in 1..8 : /\ body[5 + i] = RawStage(s.stages, i - 1) % 256
                         /\ body[13 + i] = RawStage(s.stages, i - 1) \div 256
      /\ body[22] = s.active /\ \A i \in 1..25 : body[22 + i] = s.tail[i]
  BY DpiBytes
<1>2. "dpi" \in Sectional /\ Layout["dpi"].sum = 50
  BY DEF Sectional, Layout
<1>3. Frame("dpi", p, t, Target, body)
  BY DpiFrame
<1>4. /\ s = [profile |-> s.profile, stages |-> s.stages, active |-> s.active,
              sensor |-> s.sensor, tail |-> s.tail]
      /\ s.profile = Target /\ s.stages \in Seq(Dpi) /\ n \in 1..8 /\ s.active \in 1..n
      /\ s.sensor = [lift |-> s.sensor.lift, ripple |-> s.sensor.ripple,
                     snap |-> s.sensor.snap, sync |-> s.sensor.sync]
      /\ s.sensor.lift \in Bit /\ s.sensor.ripple \in Bit
      /\ s.sensor.snap \in Bit /\ s.sensor.sync \in Bit
      /\ s.tail \in Seq(Byte) /\ Len(s.tail) = 25
  BY DpiStateIs
<1> HIDE DEF body, p, raw, fits, n
<1>5. WellFramed("dpi", p, t, Target)
  BY <1>2, <1>3, Framed
<1>6. /\ At(p, 3) = body[1] /\ At(p, 4) = body[2] /\ At(p, 5) = body[3]
      /\ At(p, 6) = body[4] /\ At(p, 7) = body[5] /\ At(p, 24) = body[22]
  BY <1>2, <1>3, FrameBytes
<1>7. ASSUME NEW i \in 0..7 PROVE raw[i] = RawStage(s.stages, i)
  <2>1. At(p, 8 + i) = body[6 + i] /\ At(p, 16 + i) = body[14 + i]
    <3>1. At(p, 8 + i) = body[(8 + i) - 2] /\ At(p, 16 + i) = body[(16 + i) - 2]
      BY <1>2, <1>3, FrameBytes
    <3> QED BY <3>1
  <2> DEFINE r == RawStage(s.stages, i)
  <2>2. body[6 + i] = r % 256 /\ body[14 + i] = r \div 256
    <3>1. i + 1 \in 1..8 /\ 5 + (i + 1) = 6 + i /\ 13 + (i + 1) = 14 + i /\ (i + 1) - 1 = i
      OBVIOUS
    <3>2. body[5 + (i + 1)] = RawStage(s.stages, (i + 1) - 1) % 256
          /\ body[13 + (i + 1)] = RawStage(s.stages, (i + 1) - 1) \div 256
      BY <1>1, <3>1
    <3> QED BY <3>1, <3>2
  <2>3. r \in Nat
    BY <1>4, RawStageIs
  <2> HIDE DEF r
  <2>4. (r % 256) + 256 * (r \div 256) = r
    BY <2>3
  <2>5. raw[i] = At(p, 8 + i) + 256 * At(p, 16 + i)
    BY DEF raw
  <2> QED BY <2>1, <2>2, <2>4, <2>5 DEF r
<1>8. fits = {n}
  <2>1. \A m \in 1..8 : StageMask(m) = StageMask(n) <=> m = n
    BY <1>4, MasksDiffer
  <2>2. At(p, 5) = StageMask(n) /\ n \in 1..8
    BY <1>1, <1>4, <1>6
  <2>3. \A m : m \in fits <=> m = n
    BY <2>1, <2>2 DEF fits
  <2> QED BY <2>3
<1>9. (CHOOSE m \in fits : TRUE) = n
  BY <1>8
<1>10. \A i \in 0..7 : raw[i] <= IF i < n THEN 519 ELSE 0
  <2>1. ASSUME NEW i \in 0..7 PROVE raw[i] <= IF i < n THEN 519 ELSE 0
    <3>0. s.stages \in Seq(Dpi)
      BY <1>4
    <3>1. RawStage(s.stages, i) \in Nat /\ RawStage(s.stages, i) =< 519
          /\ (i >= n => RawStage(s.stages, i) = 0)
      BY <3>0, RawStageIs DEF n
    <3> QED BY <1>4, <1>7, <3>1
  <2> QED BY <2>1
<1>11. \A i \in {3, 4, 6, 7} : At(p, i) \in {0, 1}
  <2>0. /\ At(p, 3) = s.sensor.lift /\ At(p, 4) = s.sensor.ripple
        /\ At(p, 6) = s.sensor.snap /\ At(p, 7) = s.sensor.sync
    BY <1>1, <1>6
  <2>1. At(p, 3) \in Bit /\ At(p, 4) \in Bit /\ At(p, 6) \in Bit /\ At(p, 7) \in Bit
    BY <1>4, <2>0, Zenon
  <2> QED BY <2>1 DEF Bit
<1>12. [i \in 1..n |-> (raw[i - 1] + 1) * 50] = s.stages
  <2>1. ASSUME NEW i \in 1..n PROVE (raw[i - 1] + 1) * 50 = s.stages[i]
    <3>1. i - 1 \in 0..7 /\ i - 1 < n /\ (i - 1) + 1 = i
      BY <1>4
    <3>0. s.stages \in Seq(Dpi)
      BY <1>4
    <3>2. RawStage(s.stages, i - 1) \in Nat /\ 50 * (RawStage(s.stages, i - 1) + 1) = s.stages[(i - 1) + 1]
      BY <3>0, <3>1, RawStageIs DEF n
    <3>3. raw[i - 1] = RawStage(s.stages, i - 1)
      BY <1>7, <3>1
    <3> QED BY <3>1, <3>2, <3>3
  <2>2. s.stages = [i \in 1..n |-> s.stages[i]]
    <3> HIDE DEF Dpi
    <3> QED BY <1>4 DEF n
  <2> HIDE DEF raw
  <2>3. [i \in 1..n |-> (raw[i - 1] + 1) * 50] = [i \in 1..n |-> s.stages[i]]
    BY <2>1
  <2> QED BY <2>2, <2>3
<1>13. Slice(p, 25, 50) = s.tail
  <2>1. IsPart(s.tail, body, 22, 25)
    BY <1>1, <1>4 DEF IsPart
  <2>2. Slice(p, 22 + 3, 22 + 3 + 25) = s.tail
    BY <1>2, <1>3, <2>1, FrameSlice
  <2> QED BY <2>2
<1>14. \E m \in fits : /\ \A i \in 0..7 : raw[i] <= IF i < m THEN 519 ELSE 0
                       /\ At(p, 24) \in 1..m
  <2>1. At(p, 24) \in 1..n
    BY <1>1, <1>4, <1>6
  <2>2. n \in fits
    BY <1>8
  <2> QED BY <1>10, <2>1, <2>2
<1>15. DecodeDpi(p, t, Target) =
         [profile |-> Target,
          stages  |-> [i \in 1..(CHOOSE m \in fits : TRUE) |-> (raw[i - 1] + 1) * 50],
          active  |-> At(p, 24),
          sensor  |-> [lift |-> At(p, 3), ripple |-> At(p, 4), snap |-> At(p, 6), sync |-> At(p, 7)],
          tail    |-> Slice(p, 25, 50)]
  BY <1>5, <1>11, <1>14 DEF DecodeDpi, raw, fits
<1>16. DecodeDpi(p, t, Target) = s
  BY <1>1, <1>4, <1>6, <1>9, <1>12, <1>13, <1>15
<1> QED BY <1>16 DEF p

\* The polling rate.
RateImage(h, profile, rate) ==
    /\ h \in Seq(Byte) /\ Len(h) = 9
    /\ h[1] = Layout["rate"].id /\ h[2] = Layout["rate"].declared /\ h[3] = profile
    /\ h[4] = RateCode[rate] /\ h[5] = 255 - RateCode[rate]
    /\ \A i \in 6..9 : h[i] = 0

LEMMA RateCodes ==
    ASSUME NEW r \in DOMAIN RateCode
    PROVE  /\ RateCode[r] \in Nat /\ RateCode[r] < 256 /\ 255 - RateCode[r] \in Nat
           /\ 255 - RateCode[r] < 256
           /\ \A q \in DOMAIN RateCode : RateCode[q] = RateCode[r] => q = r
BY DEF RateCode

LEMMA RateImageIs ==
    ASSUME NEW profile \in Byte, NEW rate \in DOMAIN RateCode
    PROVE  RateImage(EncodeRate(profile, rate), profile, rate)
<1> DEFINE a == Header("rate", profile)
           b == <<RateCode[rate], Complement(RateCode[rate])>>
           z == Zeros(4)
           h == a \o b \o z
<1>1. a \in Seq(Byte) /\ Len(a) = 3
      /\ a[1] = Layout["rate"].id /\ a[2] = Layout["rate"].declared /\ a[3] = profile
  <2>1. Layout["rate"].id \in Byte /\ Layout["rate"].declared \in Byte
    BY LayoutOf DEF Kind
  <2> HIDE DEF Byte
  <2> QED BY <2>1 DEF Header
<1>2. b \in Seq(Byte) /\ Len(b) = 2 /\ b[1] = RateCode[rate] /\ b[2] = 255 - RateCode[rate]
  <2>1. RateCode[rate] \in Byte /\ 255 - RateCode[rate] \in Byte
    BY RateCodes, ByteIs
  <2> HIDE DEF Byte
  <2> QED BY <2>1 DEF Complement
<1>3. z \in Seq(Byte) /\ Len(z) = 4 /\ \A i \in 1..4 : z[i] = 0
  BY ZerosAre
<1>4. EncodeRate(profile, rate) = h
  BY DEF EncodeRate
<1> HIDE DEF a, b, z
<1>5. Joined3(h, a, 3, b, 2, z, 4)
  <2>1. 2 \in Nat /\ 3 \in Nat /\ 4 \in Nat
    OBVIOUS
  <2> QED BY <1>1, <1>2, <1>3, <2>1, JoinThree
<1> HIDE DEF h
<1>6. /\ h \in Seq(Byte) /\ Len(h) = 9
      /\ h[1] = a[1] /\ h[2] = a[2] /\ h[3] = a[3] /\ h[4] = b[1] /\ h[5] = b[2]
      /\ h[6] = z[1] /\ h[7] = z[2] /\ h[8] = z[3] /\ h[9] = z[4]
  BY <1>5 DEF Joined3
<1>7. z[1] = 0 /\ z[2] = 0 /\ z[3] = 0 /\ z[4] = 0
  BY <1>3
<1>8. \A i \in 6..9 : h[i] = 0
  BY <1>6, <1>7
<1> QED BY <1>1, <1>2, <1>4, <1>6, <1>8 DEF RateImage

LEMMA RatePublished ==
    ASSUME NEW profile \in Byte, NEW rate \in DOMAIN RateCode, NEW t \in Transport
    PROVE  LET p == Publish("rate", EncodeRate(profile, rate), t)
           IN  /\ p \in Seq(Byte) /\ Len(p) = 9
               /\ p[1] = Layout["rate"].id /\ p[2] = Declared("rate", t) /\ p[3] = profile
               /\ p[4] = RateCode[rate] /\ p[5] = 255 - RateCode[rate]
               /\ \A i \in 6..9 : p[i] = 0
<1> DEFINE h == EncodeRate(profile, rate)
           p == Publish("rate", h, t)
<1>1. RateImage(h, profile, rate)
  BY RateImageIs
<1>2. "rate" \in Kind /\ Layout["rate"].compact = 9 /\ Layout["rate"].full = 9
  BY DEF Kind, Layout
<1> HIDE DEF h
<1>3. /\ p \in Seq(Byte) /\ Len(p) = Layout["rate"].full
      /\ p[2] = Declared("rate", t)
      /\ \A i \in 1..Layout["rate"].compact : i # 2 => p[i] = h[i]
  <2>1. h \in Seq(Byte) /\ Len(h) = Layout["rate"].compact
    BY <1>1, <1>2 DEF RateImage
  <2> QED BY <1>2, <2>1, PublishIs
<1> HIDE DEF p
<1>4. \A i \in 1..9 : i # 2 => p[i] = h[i]
  BY <1>2, <1>3
<1>5. p[1] = h[1] /\ p[3] = h[3] /\ p[4] = h[4] /\ p[5] = h[5]
  BY <1>4
<1>6. \A i \in 6..9 : p[i] = h[i]
  BY <1>4
<1> QED BY <1>1, <1>2, <1>3, <1>5, <1>6 DEF RateImage, p, h

LEMMA RateRoundTrip ==
    ASSUME NEW rate \in DOMAIN RateCode, NEW t \in Transport, Target \in Byte
    PROVE  DecodeRate(Publish("rate", EncodeRate(Target, rate), t), t, Target) = rate
<1> DEFINE p == Publish("rate", EncodeRate(Target, rate), t)
           rates == {r \in DOMAIN RateCode : RateCode[r] = At(p, 3)}
<1>1. /\ Len(p) = 9
      /\ p[1] = Layout["rate"].id /\ p[2] = Declared("rate", t) /\ p[3] = Target
      /\ p[4] = RateCode[rate] /\ p[5] = 255 - RateCode[rate]
      /\ \A i \in 6..9 : p[i] = 0
  BY RatePublished
<1> HIDE DEF p, rates
<1>2. /\ Len(p) = Layout.rate.full /\ At(p, 0) = Layout.rate.id
      /\ At(p, 1) \in ValidDeclared("rate", t) /\ At(p, 2) = Target
  BY <1>1 DEF Layout, At, ValidDeclared, Declared
<1>3. rates = {rate}
  <2>1. At(p, 3) = RateCode[rate]
    BY <1>1 DEF At
  <2>2. \A r : r \in rates <=> r = rate
    BY <2>1, RateCodes DEF rates
  <2> QED BY <2>2
<1>4. IsComplement(At(p, 3), At(p, 4))
  <2>1. RateCode[rate] \in Byte /\ 255 - RateCode[rate] \in Byte
        /\ RateCode[rate] + (255 - RateCode[rate]) = 255
    BY RateCodes, ByteIs
  <2> QED BY <1>1, <2>1 DEF IsComplement, At
<1>5. ZeroFrom(p, 5)
  <2>1. ASSUME NEW i \in 5..(Len(p) - 1) PROVE p[i + 1] = 0
    <3>1. i + 1 \in 6..9
      BY <1>1
    <3> QED BY <1>1, <3>1
  <2> QED BY <2>1 DEF ZeroFrom, At
<1>6. DecodeRate(p, t, Target) = rate
  BY <1>2, <1>3, <1>4, <1>5 DEF DecodeRate, rates
<1> QED BY <1>6 DEF p

\* The metadata.
Metadata == States["metadata"]

LEMMA MetadataPublished ==
    ASSUME NEW m \in Metadata, NEW t \in Transport
    PROVE  LET p == Publish("metadata", PublishMetadata(m), t)
           IN  /\ PublishMetadata(m) \in Seq(Byte) /\ Len(PublishMetadata(m)) = 10
               /\ p \in Seq(Byte) /\ Len(p) = 10
               /\ p[1] = Layout["metadata"].id /\ p[2] = Declared("metadata", t) /\ p[3] = 1
               /\ p[4] = m.current /\ p[5] = 255 - m.current
               /\ p[6] = m.maximum /\ p[7] = 255 - m.maximum
               /\ \A i \in 8..10 : p[i] = 0
<1> DEFINE h == PublishMetadata(m)
           p == Publish("metadata", h, t)
<1>1. m.current \in 1..5 /\ m.maximum \in 1..5
  BY DEF Metadata, States, Profiles
<1>2. /\ h \in Seq(Byte) /\ Len(h) = 10
      /\ h[1] = Layout["metadata"].id /\ h[3] = 1
      /\ h[4] = m.current /\ h[5] = 255 - m.current
      /\ h[6] = m.maximum /\ h[7] = 255 - m.maximum
      /\ h[8] = 0 /\ h[9] = 0 /\ h[10] = 0
  <2>1. /\ m.current \in Byte /\ 255 - m.current \in Byte
        /\ m.maximum \in Byte /\ 255 - m.maximum \in Byte /\ 0 \in Byte /\ 1 \in Byte
    BY <1>1, ByteIs
  <2>2. Layout["metadata"].id \in Byte /\ Layout["metadata"].declared \in Byte
    BY LayoutOf DEF Kind
  <2>3. Layout.metadata = Layout["metadata"]
    OBVIOUS
  <2> HIDE DEF Byte
  <2> QED BY <2>1, <2>2, <2>3 DEF PublishMetadata, Complement
<1>3. "metadata" \in Kind /\ Layout["metadata"].compact = 10 /\ Layout["metadata"].full = 10
  BY DEF Kind, Layout
<1> HIDE DEF h
<1>4. /\ p \in Seq(Byte) /\ Len(p) = Layout["metadata"].full
      /\ p[2] = Declared("metadata", t)
      /\ \A i \in 1..Layout["metadata"].compact : i # 2 => p[i] = h[i]
  <2>1. h \in Seq(Byte) /\ Len(h) = Layout["metadata"].compact
    BY <1>2, <1>3
  <2> QED BY <1>3, <2>1, PublishIs
<1> HIDE DEF p
<1>5. \A i \in 1..10 : i # 2 => p[i] = h[i]
  BY <1>3, <1>4
<1>6. /\ p[1] = h[1] /\ p[3] = h[3] /\ p[4] = h[4] /\ p[5] = h[5]
      /\ p[6] = h[6] /\ p[7] = h[7] /\ p[8] = h[8] /\ p[9] = h[9] /\ p[10] = h[10]
  BY <1>5
<1>7. \A i \in 8..10 : p[i] = 0
  BY <1>2, <1>6
<1> QED BY <1>2, <1>3, <1>4, <1>6, <1>7 DEF p, h

LEMMA MetadataRoundTrip ==
    ASSUME NEW m \in Metadata, NEW t \in Transport
    PROVE  DecodeMetadata(Publish("metadata", PublishMetadata(m), t), t) = m
<1> DEFINE p == Publish("metadata", PublishMetadata(m), t)
<1>1. /\ Len(p) = 10
      /\ p[1] = Layout["metadata"].id /\ p[2] = Declared("metadata", t) /\ p[3] = 1
      /\ p[4] = m.current /\ p[5] = 255 - m.current
      /\ p[6] = m.maximum /\ p[7] = 255 - m.maximum
      /\ \A i \in 8..10 : p[i] = 0
  BY MetadataPublished
<1> HIDE DEF p
<1>2. /\ m.current \in Profiles /\ m.maximum \in Profiles /\ m.current <= m.maximum
      /\ m = [current |-> m.current, maximum |-> m.maximum]
  BY DEF Metadata, States
<1>3. /\ Len(p) = Layout.metadata.full /\ At(p, 0) = Layout.metadata.id
      /\ At(p, 1) \in ValidDeclared("metadata", t) /\ At(p, 2) = 1
  BY <1>1 DEF Layout, At, ValidDeclared, Declared
<1>4. IsComplement(At(p, 3), At(p, 4)) /\ IsComplement(At(p, 5), At(p, 6))
  <2>1. ASSUME NEW b \in Profiles PROVE b \in Byte /\ 255 - b \in Byte /\ b + (255 - b) = 255
    BY ByteIs DEF Profiles
  <2> QED BY <1>1, <1>2, <2>1 DEF IsComplement, At
<1>5. ZeroFrom(p, 7)
  <2>1. ASSUME NEW i \in 7..(Len(p) - 1) PROVE p[i + 1] = 0
    <3>1. i + 1 \in 8..10
      BY <1>1
    <3> QED BY <1>1, <3>1
  <2> QED BY <2>1 DEF ZeroFrom, At
<1>6. /\ At(p, 3) = m.current /\ At(p, 5) = m.maximum
  BY <1>1 DEF At
<1>7. DecodeMetadata(p, t) = m
  BY <1>2, <1>3, <1>4, <1>5, <1>6 DEF DecodeMetadata
<1> QED BY <1>7 DEF p

\* One damaged byte of these, and the decoder refuses them.
LEMMA RateRefused ==
    ASSUME NEW rate \in DOMAIN RateCode, NEW t \in Transport, Target \in Byte,
           NEW j \in 1..9, NEW d \in Damages,
           NEW p, p = Publish("rate", EncodeRate(Target, rate), t)
    PROVE  DecodeRate([p EXCEPT ![j] = (p[j] + d) % 256], t, Target) = None
<1> DEFINE q == [p EXCEPT ![j] = (p[j] + d) % 256]
<1>1. /\ p \in Seq(Byte) /\ Len(p) = 9
      /\ p[1] = Layout["rate"].id /\ p[2] = Declared("rate", t) /\ p[3] = Target
      /\ p[4] = RateCode[rate] /\ p[5] = 255 - RateCode[rate]
      /\ \A i \in 6..9 : p[i] = 0
  BY RatePublished
<1>2. p[j] \in Byte
  BY <1>1, ElementOfSeq
<1>3. (p[j] + d) % 256 \in Byte /\ (p[j] + d) % 256 # p[j]
  BY <1>2, Damaged
<1>4. /\ q \in Seq(Byte) /\ Len(q) = 9
      /\ \A i \in 1..9 : q[i] = IF i = j THEN (p[j] + d) % 256 ELSE p[i]
  <2> DEFINE x == (p[j] + d) % 256
  <2>1. j \in 1..Len(p) /\ p \in Seq(Byte) /\ Len(p) = 9 /\ x \in Byte
    BY <1>1, <1>3
  <2> HIDE DEF x, Byte
  <2>2. /\ [p EXCEPT ![j] = x] \in Seq(Byte) /\ Len([p EXCEPT ![j] = x]) = Len(p)
        /\ \A i \in 1..Len(p) : [p EXCEPT ![j] = x][i] = IF i = j THEN x ELSE p[i]
    BY <2>1, ExceptSeq
  <2>3. /\ [p EXCEPT ![j] = x] \in Seq(Byte) /\ Len([p EXCEPT ![j] = x]) = 9
        /\ \A i \in 1..9 : [p EXCEPT ![j] = x][i] = IF i = j THEN x ELSE p[i]
    BY <2>1, <2>2, Zenon
  <2> QED BY <2>3, Zenon DEF x
<1> SUFFICES DecodeRate(q, t, Target) = None
  OBVIOUS
<1> HIDE DEF q
<1>5. q[j] # p[j] /\ \A i \in 1..9 : i # j => q[i] = p[i]
  BY <1>3, <1>4
<1>6. CASE j = 1
  <2>1. At(q, 0) # Layout.rate.id
    BY <1>1, <1>5, <1>6 DEF At
  <2> QED BY <2>1 DEF DecodeRate
<1>7. CASE j = 2
  <2>1. At(q, 1) \notin ValidDeclared("rate", t)
    BY <1>1, <1>5, <1>7 DEF At, ValidDeclared, Declared
  <2> QED BY <2>1 DEF DecodeRate
<1>8. CASE j = 3
  <2>1. At(q, 2) # Target
    BY <1>1, <1>5, <1>8 DEF At
  <2> QED BY <2>1 DEF DecodeRate
<1>9. CASE j \in {4, 5}
  <2>1. q[4] + q[5] # 255
    <3>1. RateCode[rate] \in Nat
      BY RateCodes
    <3>2. \A i \in 1..9 : q[i] \in Nat
      BY <1>4, ElementOfSeq, ByteIs
    <3>3. q[4] \in Nat /\ q[5] \in Nat
      BY <3>2
    <3>4. CASE j = 4
      <4>1. q[5] = p[5] /\ q[4] # p[4]
        BY <1>5, <3>4
      <4> QED BY <1>1, <3>1, <3>3, <4>1
    <3>5. CASE j = 5
      <4>1. q[4] = p[4] /\ q[5] # p[5]
        BY <1>5, <3>5
      <4> QED BY <1>1, <3>1, <3>3, <4>1
    <3> QED BY <1>9, <3>4, <3>5
  <2>2. ~IsComplement(At(q, 3), At(q, 4))
    BY <2>1 DEF At, IsComplement
  <2> QED BY <2>2 DEF DecodeRate
<1>10. CASE j \in 6..9
  <2>1. j - 1 \in 5..(Len(q) - 1) /\ q[(j - 1) + 1] # 0
    BY <1>1, <1>4, <1>5, <1>10
  <2>2. ~ZeroFrom(q, 5)
    BY <2>1 DEF ZeroFrom, At
  <2> QED BY <2>2 DEF DecodeRate
<1> QED BY <1>6, <1>7, <1>8, <1>9, <1>10

LEMMA MetadataRefused ==
    ASSUME NEW m \in Metadata, NEW t \in Transport,
           NEW j \in 1..10, NEW d \in Damages,
           NEW p, p = Publish("metadata", PublishMetadata(m), t)
    PROVE  DecodeMetadata([p EXCEPT ![j] = (p[j] + d) % 256], t) = None
<1> DEFINE q == [p EXCEPT ![j] = (p[j] + d) % 256]
<1>1. /\ p \in Seq(Byte) /\ Len(p) = 10
      /\ p[1] = Layout["metadata"].id /\ p[2] = Declared("metadata", t) /\ p[3] = 1
      /\ p[4] = m.current /\ p[5] = 255 - m.current
      /\ p[6] = m.maximum /\ p[7] = 255 - m.maximum
      /\ \A i \in 8..10 : p[i] = 0
  BY MetadataPublished
<1>2. p[j] \in Byte
  BY <1>1, ElementOfSeq
<1>3. (p[j] + d) % 256 \in Byte /\ (p[j] + d) % 256 # p[j]
  BY <1>2, Damaged
<1>4. /\ q \in Seq(Byte) /\ Len(q) = 10
      /\ \A i \in 1..10 : q[i] = IF i = j THEN (p[j] + d) % 256 ELSE p[i]
  <2> DEFINE x == (p[j] + d) % 256
  <2>1. j \in 1..Len(p) /\ p \in Seq(Byte) /\ Len(p) = 10 /\ x \in Byte
    BY <1>1, <1>3
  <2> HIDE DEF x, Byte
  <2>2. /\ [p EXCEPT ![j] = x] \in Seq(Byte) /\ Len([p EXCEPT ![j] = x]) = Len(p)
        /\ \A i \in 1..Len(p) : [p EXCEPT ![j] = x][i] = IF i = j THEN x ELSE p[i]
    BY <2>1, ExceptSeq
  <2>3. /\ [p EXCEPT ![j] = x] \in Seq(Byte) /\ Len([p EXCEPT ![j] = x]) = 10
        /\ \A i \in 1..10 : [p EXCEPT ![j] = x][i] = IF i = j THEN x ELSE p[i]
    BY <2>1, <2>2, Zenon
  <2> QED BY <2>3, Zenon DEF x
<1> SUFFICES DecodeMetadata(q, t) = None
  OBVIOUS
<1> HIDE DEF q
<1>5. q[j] # p[j] /\ \A i \in 1..10 : i # j => q[i] = p[i]
  BY <1>3, <1>4
<1>0. m.current \in Nat /\ m.maximum \in Nat
  BY DEF Metadata, States, Profiles
<1>20. \A i \in 1..10 : q[i] \in Nat
  BY <1>4, ElementOfSeq, ByteIs
<1>6. CASE j = 1
  <2>1. At(q, 0) # Layout.metadata.id
    BY <1>1, <1>5, <1>6 DEF At
  <2> QED BY <2>1 DEF DecodeMetadata
<1>7. CASE j = 2
  <2>1. At(q, 1) \notin ValidDeclared("metadata", t)
    BY <1>1, <1>5, <1>7 DEF At, ValidDeclared, Declared
  <2> QED BY <2>1 DEF DecodeMetadata
<1>8. CASE j = 3
  <2>1. At(q, 2) # 1
    BY <1>1, <1>5, <1>8 DEF At
  <2> QED BY <2>1 DEF DecodeMetadata
<1>9. CASE j \in {4, 5}
  <2>1. q[4] + q[5] # 255
    <3>1. q[4] \in Nat /\ q[5] \in Nat
      BY <1>20
    <3>2. CASE j = 4
      <4>1. q[5] = p[5] /\ q[4] # p[4]
        BY <1>5, <3>2
      <4> QED BY <1>0, <1>1, <3>1, <4>1
    <3>3. CASE j = 5
      <4>1. q[4] = p[4] /\ q[5] # p[5]
        BY <1>5, <3>3
      <4> QED BY <1>0, <1>1, <3>1, <4>1
    <3> QED BY <1>9, <3>2, <3>3
  <2>2. ~IsComplement(At(q, 3), At(q, 4))
    BY <2>1 DEF At, IsComplement
  <2> QED BY <2>2 DEF DecodeMetadata
<1>10. CASE j \in {6, 7}
  <2>1. q[6] + q[7] # 255
    <3>1. q[6] \in Nat /\ q[7] \in Nat
      BY <1>20
    <3>2. CASE j = 6
      <4>1. q[7] = p[7] /\ q[6] # p[6]
        BY <1>5, <3>2
      <4> QED BY <1>0, <1>1, <3>1, <4>1
    <3>3. CASE j = 7
      <4>1. q[6] = p[6] /\ q[7] # p[7]
        BY <1>5, <3>3
      <4> QED BY <1>0, <1>1, <3>1, <4>1
    <3> QED BY <1>10, <3>2, <3>3
  <2>2. ~IsComplement(At(q, 5), At(q, 6))
    BY <2>1 DEF At, IsComplement
  <2> QED BY <2>2 DEF DecodeMetadata
<1>11. CASE j \in 8..10
  <2>1. j - 1 \in 7..(Len(q) - 1) /\ q[(j - 1) + 1] # 0
    BY <1>1, <1>4, <1>5, <1>11
  <2>2. ~ZeroFrom(q, 7)
    BY <2>1 DEF ZeroFrom, At
  <2> QED BY <2>2 DEF DecodeMetadata
<1> QED BY <1>6, <1>7, <1>8, <1>9, <1>10, <1>11

-----------------------------------------------------------------------------
(* Every section at once. *)

EncodeOf(k, s) == CASE k = "dpi" -> EncodeDpi(s)
                    [] k = "preferences" -> EncodePreferences(s)
                    [] k = "buttons" -> EncodeButtons(s)
                    [] k = "rate" -> EncodeRate(Target, s)
                    [] k = "metadata" -> PublishMetadata(s)

LEMMA TargetIs ==
    /\ Target \in Byte /\ Other \in Byte /\ Other # Target
    /\ \A k \in Kind : Images[k] \subseteq States[k] /\ None \notin States[k]
<1>1. /\ Target \in Profiles /\ Other \in Profiles \ {Target}
      /\ \A k \in Kind : Images[k] \subseteq States[k] /\ None \notin States[k]
  BY SectionAssumption, Zenon
<1>2. \A n \in Profiles : n \in Byte
  BY ByteIs DEF Profiles
<1> QED BY <1>1, <1>2

\* The write image of a valid state is as long as its section's.
LEMMA EncodedIs ==
    ASSUME NEW k \in Kind, NEW s \in States[k]
    PROVE  EncodeOf(k, s) \in Seq(Byte) /\ Len(EncodeOf(k, s)) = Layout[k].compact
<1>1. CASE k = "dpi"
  <2> DEFINE body == DpiBody(s)
  <2>1. s \in States["dpi"] /\ None \notin States["dpi"] /\ "Wired" \in Transport
    BY <1>1, TargetIs DEF Transport, Kind
  <2>2. EncodeDpi(s) = Sealed("dpi", Target, body) /\ body \in Seq(Byte) /\ Len(body) = 47
    BY <2>1, DpiFrame, DpiBytes, TargetIs
  <2> HIDE DEF body
  <2>3. "dpi" \in Sectional /\ Layout["dpi"].sum - 3 = 47
    BY DEF Sectional, Layout
  <2> DEFINE h == Sealed("dpi", Target, body)
  <2>4. h \in Seq(Byte) /\ Len(h) = Layout["dpi"].compact
    <3>1. Len(body) = Layout["dpi"].sum - 3 /\ body \in Seq(Byte) /\ "dpi" \in Sectional /\ Target \in Byte
      BY <2>2, <2>3, TargetIs
    <3> QED BY <3>1, SealedIs
  <2> QED BY <1>1, <2>2, <2>4 DEF EncodeOf
<1>2. CASE k = "preferences"
  <2> DEFINE body == PreferenceBody(s)
  <2>1. s \in States["preferences"] /\ "Wired" \in Transport
    BY <1>2 DEF Transport
  <2>2. body \in Seq(Byte) /\ Len(body) = Layout["preferences"].sum - 3 /\ s.profile = Target
    BY <2>1, PreferencesFrame, PreferenceBodyIs, TargetIs DEF Frame
  <2>3. EncodePreferences(s) = Sealed("preferences", Target, body)
    BY <2>2 DEF EncodePreferences, PreferenceBody
  <2> HIDE DEF body
  <2>4. "preferences" \in Sectional
    BY DEF Sectional
  <2>5. EncodePreferences(s) \in Seq(Byte) /\ Len(EncodePreferences(s)) = Layout["preferences"].compact
    BY <2>2, <2>3, <2>4, TargetIs, SealedIs
  <2> QED BY <1>2, <2>5 DEF EncodeOf
<1>3. CASE k = "buttons"
  <2> DEFINE body == ButtonBody(s)
  <2>1. s \in States["buttons"] /\ "Wired" \in Transport
    BY <1>3 DEF Transport
  <2>2. body \in Seq(Byte) /\ Len(body) = Layout["buttons"].sum - 3 /\ s.profile = Target
    BY <2>1, ButtonsFrame, ButtonBodyIs, TargetIs DEF Frame
  <2>3. EncodeButtons(s) = Sealed("buttons", Target, body)
    BY <2>2 DEF EncodeButtons, ButtonBody
  <2> HIDE DEF body
  <2>4. "buttons" \in Sectional
    BY DEF Sectional
  <2>5. EncodeButtons(s) \in Seq(Byte) /\ Len(EncodeButtons(s)) = Layout["buttons"].compact
    BY <2>2, <2>3, <2>4, TargetIs, SealedIs
  <2> QED BY <1>3, <2>5 DEF EncodeOf
<1>4. CASE k = "rate"
  <2>1. RateImage(EncodeRate(Target, s), Target, s)
    BY <1>4, TargetIs, RateImageIs DEF States
  <2>2. Layout["rate"].compact = 9
    BY DEF Layout
  <2> QED BY <1>4, <2>1, <2>2 DEF RateImage, EncodeOf
<1>5. CASE k = "metadata"
  <2>1. s \in Metadata /\ "Wired" \in Transport
    BY <1>5 DEF Metadata, Transport
  <2>2. PublishMetadata(s) \in Seq(Byte) /\ Len(PublishMetadata(s)) = 10
    BY <2>1, MetadataPublished
  <2>3. Layout["metadata"].compact = 10
    BY DEF Layout
  <2> QED BY <1>5, <2>2, <2>3 DEF EncodeOf
<1> QED BY <1>1, <1>2, <1>3, <1>4, <1>5 DEF Kind

\* What the mouse publishes of a valid state, the decoder reads back.
LEMMA RoundTrip ==
    ASSUME NEW k \in Kind, NEW s \in States[k], NEW t \in Transport, t # "Ble"
    PROVE  Decode(k, Publish(k, EncodeOf(k, s), t), t, Target) = s
<1>1. CASE k = "dpi"
  <2>1. DecodeDpi(Publish("dpi", EncodeDpi(s), t), t, Target) = s
    BY <1>1, DpiRoundTrip, TargetIs
  <2> QED BY <1>1, <2>1 DEF Decode, EncodeOf
<1>2. CASE k = "preferences"
  <2>1. DecodePreferences(Publish("preferences", EncodePreferences(s), t), t, Target) = s
    BY <1>2, PreferencesRoundTrip, TargetIs
  <2> QED BY <1>2, <2>1 DEF Decode, EncodeOf
<1>3. CASE k = "buttons"
  <2>1. DecodeButtons(Publish("buttons", EncodeButtons(s), t), t, Target) = s
    BY <1>3, ButtonsRoundTrip, TargetIs
  <2> QED BY <1>3, <2>1 DEF Decode, EncodeOf
<1>4. CASE k = "rate"
  <2>1. s \in DOMAIN RateCode
    BY <1>4 DEF States
  <2>2. DecodeRate(Publish("rate", EncodeRate(Target, s), t), t, Target) = s
    BY <2>1, RateRoundTrip, TargetIs
  <2> QED BY <1>4, <2>2 DEF Decode, EncodeOf
<1>5. CASE k = "metadata"
  <2>1. s \in Metadata
    BY <1>5 DEF Metadata
  <2>2. DecodeMetadata(Publish("metadata", PublishMetadata(s), t), t) = s
    BY <2>1, MetadataRoundTrip
  <2> QED BY <1>5, <2>2 DEF Decode, EncodeOf
<1> QED BY <1>1, <1>2, <1>3, <1>4, <1>5 DEF Kind

\* A report of another length, identity or profile is refused.
LEMMA Foreign ==
    ASSUME NEW k \in Kind, NEW t \in Transport, NEW p,
           \/ Len(p) \notin {Layout[k].compact, Layout[k].full}
           \/ At(p, 0) # Layout[k].id
           \/ k # "metadata" /\ At(p, 2) # Target
    PROVE  Decode(k, p, t, Target) = None
<1>1. CASE k \in Sectional
  <2>1. ValidLengths(k, t) \subseteq {Layout[k].compact, Layout[k].full}
    BY DEF ValidLengths, Framings
  <2>2. k # "metadata"
    BY <1>1 DEF Sectional
  <2>3. ~WellFramed(k, p, t, Target)
    BY <2>1, <2>2 DEF WellFramed
  <2> QED BY <1>1, <2>3 DEF Sectional, Decode, DecodeDpi, DecodePreferences, DecodeButtons
<1>2. CASE k = "rate"
  <2>1. Layout[k] = Layout.rate
    BY <1>2
  <2> QED BY <1>2, <2>1 DEF Decode, DecodeRate
<1>3. CASE k = "metadata"
  <2>1. Layout[k] = Layout.metadata
    BY <1>3
  <2> QED BY <1>3, <2>1 DEF Decode, DecodeMetadata
<1> QED BY <1>1, <1>2, <1>3 DEF Kind, Sectional

\* So is one with a damaged byte.
LEMMA DamageRefused ==
    ASSUME NEW k \in Kind, NEW s \in States[k], NEW t \in Transport,
           NEW j \in 1..Layout[k].full, NEW d \in Damages,
           NEW p, p = Publish(k, EncodeOf(k, s), t)
    PROVE  Decode(k, [p EXCEPT ![j] = (p[j] + d) % 256], t, Target) = None
<1> DEFINE q == [p EXCEPT ![j] = (p[j] + d) % 256]
<1>1. CASE k = "dpi"
  <2>1. Frame("dpi", p, t, Target, DpiBody(s))
    BY <1>1, DpiFrame, TargetIs DEF EncodeOf
  <2>2. ~WellFramed("dpi", q, t, Target)
    BY <1>1, <2>1, Refused DEF Sectional
  <2> QED BY <1>1, <2>2 DEF Decode, DecodeDpi
<1>2. CASE k = "preferences"
  <2>1. Frame("preferences", p, t, Target, PreferenceBody(s))
    BY <1>2, PreferencesFrame, TargetIs DEF EncodeOf
  <2>2. ~WellFramed("preferences", q, t, Target)
    BY <1>2, <2>1, Refused DEF Sectional
  <2> QED BY <1>2, <2>2 DEF Decode, DecodePreferences
<1>3. CASE k = "buttons"
  <2>1. Frame("buttons", p, t, Target, ButtonBody(s))
    BY <1>3, ButtonsFrame, TargetIs DEF EncodeOf
  <2>2. ~WellFramed("buttons", q, t, Target)
    BY <1>3, <2>1, Refused DEF Sectional
  <2> QED BY <1>3, <2>2 DEF Decode, DecodeButtons
<1>4. CASE k = "rate"
  <2>1. s \in DOMAIN RateCode /\ p = Publish("rate", EncodeRate(Target, s), t)
    BY <1>4 DEF States, EncodeOf
  <2>2. j \in 1..9
    BY <1>4 DEF Layout
  <2>3. DecodeRate(q, t, Target) = None
    BY <2>1, <2>2, TargetIs, RateRefused
  <2> QED BY <1>4, <2>3 DEF Decode
<1>5. CASE k = "metadata"
  <2>1. s \in Metadata /\ p = Publish("metadata", PublishMetadata(s), t)
    BY <1>5 DEF Metadata, EncodeOf
  <2>2. j \in 1..10
    BY <1>5 DEF Layout
  <2>3. DecodeMetadata(q, t) = None
    BY <2>1, <2>2, MetadataRefused
  <2> QED BY <1>5, <2>3 DEF Decode
<1> QED BY <1>1, <1>2, <1>3, <1>4, <1>5 DEF Kind

\* The section of another profile, and a report of another kind, keep their
\* profile and identity byte when they are published.
LEMMA FirstPublished ==
    ASSUME NEW k \in Kind, NEW t \in Transport, NEW h \in Seq(Byte), Len(h) > 5
    PROVE  At(Publish(k, h, t), 0) = h[1] /\ At(Publish(k, h, t), 2) = h[3]
<1> DEFINE n == Layout[k].full - Len(h)
           z == Zeros(n)
           r == h \o z
           p == [r EXCEPT ![2] = Declared(k, t)]
<1>1. n \in Int
  BY LayoutOf
<1>2. z \in Seq(Byte)
  <2>1. CASE n >= 0
    <3>1. n \in Nat
      BY <1>1, <2>1
    <3> HIDE DEF n
    <3> QED BY <3>1, ZerosAre
  <2>2. CASE n < 0
    <3> HIDE DEF n
    <3>1. 1..n = 1..0
      BY <1>1, <2>2
    <3>2. z = Zeros(0)
      BY <3>1 DEF Zeros
    <3>3. Zeros(0) \in Seq(Byte)
      BY ZerosAre
    <3> QED BY <3>2, <3>3
  <2> QED BY <1>1, <2>1, <2>2
<1>3. IsJoin(r, h, Len(h), z, Len(z))
  <2>1. Len(h) \in Nat /\ Len(z) \in Nat
    BY <1>2, LenProperties
  <2> HIDE DEF z
  <2> QED BY <1>2, <2>1, Joined
<1> HIDE DEF r
<1>4. r \in Seq(Byte) /\ Len(r) > 5 /\ r[1] = h[1] /\ r[3] = h[3]
  <2>1. Len(h) \in Nat /\ Len(z) \in Nat
    BY <1>2, LenProperties
  <2> HIDE DEF z, Byte
  <2> QED BY <1>3, <2>1 DEF IsJoin
<1>5. p[1] = r[1] /\ p[3] = r[3]
  <2>1. 2 \in 1..Len(r) /\ 1 \in 1..Len(r) /\ 3 \in 1..Len(r) /\ Declared(k, t) \in Byte
    BY <1>4, LayoutOf DEF Declared
  <2> HIDE DEF Byte
  <2> QED BY <1>4, <2>1, ExceptSeq
<1>6. Publish(k, h, t) = p
  BY DEF Publish, Declared, r
<1> HIDE DEF p
<1> QED BY <1>4, <1>5, <1>6 DEF At

\* Every reading is refused, or is the state the mouse holds.
LEMMA ReadingsAre ==
    ASSUME kind \in Kind, transport \in Transport, transport # "Ble",
           NEW s \in States[kind], held = Encode(s)
    PROVE  Readings \subseteq {None, s}
<1> DEFINE p == Publish(kind, held, transport)
<1>1. \A x : Encode(x) = EncodeOf(kind, x)
  BY DEF Encode, EncodeOf
<1>2. held = EncodeOf(kind, s) /\ held \in Seq(Byte) /\ Len(held) = Layout[kind].compact
  BY <1>1, EncodedIs
<1>3. p \in Seq(Byte) /\ Len(p) = Layout[kind].full
  BY <1>2, PublishIs
<1>4. /\ Layout[kind].compact \in Nat /\ Layout[kind].compact > 5
      /\ Layout[kind].full \in Nat /\ Layout[kind].full >= Layout[kind].compact
      /\ Layout[kind].full - 1 \notin {Layout[kind].compact, Layout[kind].full}
      /\ \A l \in Kind : Layout[l].id = Layout[kind].id => l = kind
  BY LayoutOf
<1>5. Decode(kind, p, transport, Target) = s
  BY <1>2, RoundTrip
<1>6. Decode(kind, SubSeq(p, 1, Len(p) - 1), transport, Target) = None
  <2>1. Len(SubSeq(p, 1, Len(p) - 1)) = Layout[kind].full - 1
    <3> DEFINE n == Len(p)
    <3>1. n \in Nat /\ n > 5 /\ \A i \in 1..(n - 1) : p[i] \in Byte
      BY <1>3, <1>4, ElementOfSeq
    <3>2. n - 1 \in Int /\ 1 \in Int
      BY <3>1
    <3> HIDE DEF p, n, Byte
    <3>3. Len(SubSeq(p, 1, n - 1)) = IF 1 =< n - 1 THEN (n - 1) - 1 + 1 ELSE 0
      BY <3>1, <3>2, SubSeqProperties
    <3>4. Len(SubSeq(p, 1, n - 1)) = n - 1
      BY <3>1, <3>3
    <3> QED BY <1>3, <3>4 DEF n
  <2> HIDE DEF p
  <2> QED BY <1>4, <2>1, Foreign
<1>7. ASSUME NEW x \in Images[kind], kind # "metadata"
      PROVE  Decode(kind, Publish(kind, [Encode(x) EXCEPT ![3] = Other], transport), transport, Target) = None
  <2> DEFINE e == EncodeOf(kind, x)
             f == [e EXCEPT ![3] = Other]
  <2>1. x \in States[kind]
    BY TargetIs
  <2>2. e \in Seq(Byte) /\ Len(e) = Layout[kind].compact
    BY <2>1, EncodedIs
  <2>3. Other \in Byte
    BY TargetIs
  <2> HIDE DEF e, Byte
  <2>4. f \in Seq(Byte) /\ Len(f) > 5 /\ f[3] = Other
    <3>1. 3 \in 1..Len(e)
      BY <1>4, <2>2
    <3> QED BY <1>4, <2>2, <2>3, <3>1, ExceptSeq
  <2>5. At(Publish(kind, f, transport), 2) = Other
    <3> HIDE DEF f
    <3> QED BY <2>4, FirstPublished
  <2>6. Decode(kind, Publish(kind, f, transport), transport, Target) = None
    <3> HIDE DEF f
    <3> QED BY <1>7, <2>5, TargetIs, Foreign
  <2> QED BY <1>1, <2>6 DEF e
<1>8. ASSUME NEW i \in DOMAIN p, NEW d \in Damages
      PROVE  Decode(kind, [p EXCEPT ![i] = (p[i] + d) % 256], transport, Target) = None
  <2>1. i \in 1..Layout[kind].full
    BY <1>3
  <2>2. p = Publish(kind, EncodeOf(kind, s), transport)
    BY <1>2
  <2> HIDE DEF p
  <2> QED BY <2>1, <2>2, DamageRefused
<1>9. ASSUME NEW k \in Kind \ {kind}
      PROVE  Decode(kind, Publish(k, [held EXCEPT ![1] = Layout[k].id], transport), transport, Target) = None
  <2> DEFINE f == [held EXCEPT ![1] = Layout[k].id]
  <2>1. Layout[k].id \in Byte /\ Layout[k].id # Layout[kind].id
    BY <1>4, LayoutOf
  <2> HIDE DEF Byte
  <2>2. f \in Seq(Byte) /\ Len(f) > 5 /\ f[1] = Layout[k].id
    <3>1. 1 \in 1..Len(held)
      BY <1>2, <1>4
    <3> QED BY <1>2, <1>4, <2>1, <3>1, ExceptSeq
  <2>3. At(Publish(k, f, transport), 0) = Layout[k].id
    <3> HIDE DEF f
    <3> QED BY <2>2, FirstPublished
  <2> HIDE DEF f
  <2>4. Decode(kind, Publish(k, f, transport), transport, Target) = None
    BY <2>1, <2>3, Foreign
  <2> QED BY <2>4 DEF f
<1>10. Readings = {Decode(kind, q, transport, Target) : q \in Arrivals(p)}
  BY DEF Readings
<1> HIDE DEF p
<1>11. ASSUME NEW q \in Arrivals(p) PROVE Decode(kind, q, transport, Target) \in {None, s}
  <2>1. CASE q = p
    BY <1>5, <2>1
  <2>2. CASE q = SubSeq(p, 1, Len(p) - 1)
    BY <1>6, <2>2
  <2>3. CASE q \in {Publish(kind, [Encode(x) EXCEPT ![3] = Other], transport) :
                       x \in IF kind = "metadata" THEN {} ELSE Images[kind]}
    <3>1. PICK x \in Images[kind] : kind # "metadata"
                 /\ q = Publish(kind, [Encode(x) EXCEPT ![3] = Other], transport)
      BY <2>3
    <3> QED BY <1>7, <3>1
  <2>4. CASE q \in {[p EXCEPT ![i] = (p[i] + d) % 256] : i \in DOMAIN p, d \in Damages}
    <3>1. PICK i \in DOMAIN p, d \in Damages : q = [p EXCEPT ![i] = (p[i] + d) % 256]
      BY <2>4
    <3> QED BY <1>8, <3>1
  <2>5. CASE q \in {Publish(k, [held EXCEPT ![1] = Layout[k].id], transport) : k \in Kind \ {kind}}
    <3>1. PICK k \in Kind \ {kind} : q = Publish(k, [held EXCEPT ![1] = Layout[k].id], transport)
      BY <2>5
    <3> QED BY <1>9, <3>1
  <2> QED BY <2>1, <2>2, <2>3, <2>4, <2>5 DEF Arrivals
<1> QED BY <1>10, <1>11

-----------------------------------------------------------------------------
(* The mark of a mouse. *)

\* f adds up the first n bytes of p, each with its place as its weight.
Weighs(f, p, n) ==
    /\ \A i \in 0..n : f[i] \in Nat /\ f[i] <= 5355 * i
    /\ f[0] = 0
    /\ \A i \in 1..n : f[i] = f[i - 1] + i * p[i]

LEMMA WeightIs ==
    ASSUME NEW i \in Nat, i >= 1, i =< 21, NEW b \in Nat, b < 256
    PROVE  i * b \in Nat /\ i * b =< 5355
<1>1. i * b >= 0 /\ i * b \in Int
  BY SMT
<1>2. (21 - i) * b >= 0
  <2>1. 21 - i \in Nat
    OBVIOUS
  <2>2. \A x \in Nat : x * b >= 0
    BY SMT
  <2> QED BY <2>1, <2>2
<1>3. (21 - i) * b = 21 * b - i * b
  OBVIOUS
<1>4. 21 * b =< 5355
  OBVIOUS
<1> QED BY <1>1, <1>2, <1>3, <1>4

LEMMA WeighsOneMore ==
    ASSUME NEW m \in Nat, m >= 1, m =< 21, NEW p, NEW f, p[m] \in Nat, p[m] < 256, Weighs(f, p, m - 1)
    PROVE  Weighs([i \in 0..m |-> IF i = m THEN f[m - 1] + m * p[m] ELSE f[i]], p, m)
<1> DEFINE w == m * p[m]
           g == [i \in 0..m |-> IF i = m THEN f[m - 1] + w ELSE f[i]]
<1>1. /\ \A i \in 0..(m - 1) : f[i] \in Nat /\ f[i] <= 5355 * i
      /\ f[0] = 0
      /\ \A i \in 1..(m - 1) : f[i] = f[i - 1] + i * p[i]
  BY DEF Weighs
<1>2. f[m - 1] \in Nat /\ f[m - 1] <= 5355 * (m - 1)
  BY <1>1
<1>3. w \in Nat /\ w =< 5355
  BY WeightIs
<1> HIDE DEF w
<1>4. f[m - 1] + w \in Nat /\ f[m - 1] + w <= 5355 * m
  BY <1>2, <1>3
<1>5. \A i \in 0..m : g[i] = IF i = m THEN f[m - 1] + w ELSE f[i]
  OBVIOUS
<1> HIDE DEF g
<1>6. \A i \in 0..m : g[i] \in Nat /\ g[i] <= 5355 * i
  <2>1. ASSUME NEW i \in 0..m PROVE g[i] \in Nat /\ g[i] <= 5355 * i
    <3>1. CASE i = m
      BY <1>4, <1>5, <3>1
    <3>2. CASE i # m
      <4>1. i \in 0..(m - 1) /\ g[i] = f[i]
        BY <1>5, <3>2
      <4> QED BY <1>1, <4>1
    <3> QED BY <3>1, <3>2
  <2> QED BY <2>1
<1>7. g[0] = 0
  BY <1>1, <1>5
<1>8. ASSUME NEW i \in 1..m PROVE g[i] = g[i - 1] + i * p[i]
  <2>1. i - 1 \in 0..m /\ i - 1 # m /\ g[i - 1] = f[i - 1]
    BY <1>5
  <2>2. CASE i = m
    BY <1>5, <2>1, <2>2 DEF w
  <2>3. CASE i # m
    <3>1. i \in 1..(m - 1) /\ g[i] = f[i]
      BY <1>5, <2>3
    <3> QED BY <1>1, <2>1, <3>1
  <2> QED BY <2>2, <2>3
<1>9. Weighs(g, p, m)
  BY <1>6, <1>7, <1>8 DEF Weighs
<1> QED BY <1>9 DEF g, w

LEMMA WeighsExist ==
    ASSUME NEW n \in Nat, n =< 21, NEW p, \A i \in 1..n : p[i] \in Nat /\ p[i] < 256
    PROVE  \E f : Weighs(f, p, n)
<1> DEFINE Wrong == {m \in 0..n : ~\E f : Weighs(f, p, m)}
<1>1. Wrong \in SUBSET Nat
  OBVIOUS
<1>2. ASSUME Wrong # {} PROVE FALSE
  <2>1. Min(Wrong) \in Wrong /\ \A y \in Wrong : Min(Wrong) =< y
    <3> HIDE DEF Wrong
    <3> QED BY <1>1, <1>2, Least
  <2>2. PICK m \in 0..n : (~\E f : Weighs(f, p, m)) /\ \A y \in Wrong : m =< y
    BY <2>1
  <2>3. \A k \in 0..n : k < m => \E f : Weighs(f, p, k)
    BY <2>2
  <2> HIDE DEF Wrong
  <2>4. CASE m = 0
    <3>1. Weighs([i \in 0..0 |-> 0], p, 0)
      BY DEF Weighs
    <3> QED BY <2>2, <2>4, <3>1
  <2>5. CASE m # 0
    <3>1. m - 1 \in 0..n /\ m - 1 < m /\ m \in 1..n /\ m \in Nat /\ m >= 1 /\ m =< 21
      BY <2>5
    <3>2. PICK f : Weighs(f, p, m - 1)
      BY <2>3, <3>1
    <3>3. p[m] \in Nat /\ p[m] < 256
      BY <3>1
    <3>4. Weighs([i \in 0..m |-> IF i = m THEN f[m - 1] + m * p[m] ELSE f[i]], p, m)
      BY <3>1, <3>2, <3>3, WeighsOneMore
    <3> QED BY <2>2, <3>4
  <2> QED BY <2>4, <2>5
<1>3. n \in 0..n
  OBVIOUS
<1> QED BY <1>2, <1>3

\* The checksum of a mark is four bytes.
LEMMA CrcIs ==
    ASSUME NEW b \in Seq(Byte), Len(b) =< 21
    PROVE  Crc32(b) \in Seq(Byte) /\ Len(Crc32(b)) = 4
<1> DEFINE n == Len(b)
           Rule(f) == [i \in 0..n |-> IF i = 0 THEN 0 ELSE f[i - 1] + i * b[i]]
           sum == CHOOSE f : f = Rule(f)
           last == sum[n]
<1>1. n \in Nat /\ n =< 21 /\ \A i \in 1..n : b[i] \in Nat /\ b[i] < 256
  <2>1. n \in Nat /\ n =< 21
    OBVIOUS
  <2>2. \A i \in 1..n : b[i] \in Byte
    BY ElementOfSeq
  <2> QED BY <2>1, <2>2, ByteIs
<1>2. Crc32(b) = <<last \div 16777216, (last \div 65536) % 256, (last \div 256) % 256, last % 256>>
  BY DEF Crc32
<1> HIDE DEF n
<1>3. PICK f : Weighs(f, b, n)
  BY <1>1, WeighsExist
<1> DEFINE g == [i \in 0..n |-> f[i]]
<1>4. g = Rule(g)
  <2>1. \A i \in 0..n : g[i] = IF i = 0 THEN 0 ELSE g[i - 1] + i * b[i]
    <3>1. ASSUME NEW i \in 0..n PROVE g[i] = IF i = 0 THEN 0 ELSE g[i - 1] + i * b[i]
      <4>1. CASE i = 0
        BY <1>1, <1>3, <4>1 DEF Weighs
      <4>2. CASE i # 0
        <5>1. i \in 1..n /\ i - 1 \in 0..n
          BY <1>1, <4>2
        <5> QED BY <1>3, <4>2, <5>1 DEF Weighs
      <4> QED BY <4>1, <4>2
    <3> QED BY <3>1
  <2> HIDE DEF Rule
  <2>2. Rule(g) = [i \in 0..n |-> g[i]]
    BY <2>1 DEF Rule
  <2> QED BY <2>2
<1> HIDE DEF g
<1>5. sum = Rule(sum)
  <2> HIDE DEF Rule
  <2> QED BY <1>4
<1> HIDE DEF sum
<1>6. \A i \in 0..n : sum[i] = IF i = 0 THEN 0 ELSE sum[i - 1] + i * b[i]
  BY <1>5
<1>7. \A i \in 0..n : sum[i] = f[i]
  <2> DEFINE Wrong == {i \in 0..n : sum[i] # f[i]}
  <2>1. ASSUME Wrong # {} PROVE FALSE
    <3>1. Wrong \in SUBSET Nat
      BY <1>1
    <3>2. Min(Wrong) \in Wrong /\ \A y \in Wrong : Min(Wrong) =< y
      <4> HIDE DEF Wrong
      <4> QED BY <2>1, <3>1, Least
    <3>3. PICK m \in 0..n : sum[m] # f[m] /\ \A y \in 0..n : sum[y] # f[y] => m =< y
      BY <3>2
    <3>4. m # 0
      BY <1>3, <1>6, <3>3 DEF Weighs
    <3>5. m - 1 \in 0..n /\ m \in 1..n
      BY <1>1, <3>4
    <3>6. sum[m - 1] = f[m - 1]
      BY <1>1, <3>3, <3>5
    <3>7. f[m] = f[m - 1] + m * b[m]
      BY <1>3, <3>5 DEF Weighs
    <3>8. sum[m] = sum[m - 1] + m * b[m]
      BY <1>6, <3>4
    <3> QED BY <3>3, <3>6, <3>7, <3>8
  <2> QED BY <2>1
<1>8. last \in Nat /\ last =< 5355 * n
  <2>1. n \in 0..n
    BY <1>1
  <2> QED BY <1>3, <1>7, <2>1 DEF Weighs
<1> HIDE DEF last
<1>9. /\ last \div 16777216 \in Nat /\ last \div 16777216 < 256
      /\ (last \div 65536) % 256 \in Nat /\ (last \div 65536) % 256 < 256
      /\ (last \div 256) % 256 \in Nat /\ (last \div 256) % 256 < 256
      /\ last % 256 \in Nat /\ last % 256 < 256
  BY <1>1, <1>8
<1>10. /\ last \div 16777216 \in Byte /\ (last \div 65536) % 256 \in Byte
       /\ (last \div 256) % 256 \in Byte /\ last % 256 \in Byte
  BY <1>9, ByteIs
<1> HIDE DEF Byte
<1>11. \A a1, a2, a3, a4 \in Byte : <<a1, a2, a3, a4>> \in Seq(Byte) /\ Len(<<a1, a2, a3, a4>>) = 4
  OBVIOUS
<1> QED BY <1>2, <1>10, <1>11

\* The tail a ceremony stamps is a valid mark of its token.
LEMMA MarkIs ==
    ASSUME NEW u \in [1..16 -> Byte]
    PROVE  /\ ToWatermark(u) \in Seq(Byte) /\ Len(ToWatermark(u)) = 25
           /\ DecodeWatermark(ToWatermark(u)) = [mark |-> "Valid", token |-> u]
<1> DEFINE one == <<MarkVersion>>
           m == Magic \o one \o u
           c == Crc32(m)
           r == m \o c
<1>1. Magic \in Seq(Byte) /\ Len(Magic) = 4 /\ one \in Seq(Byte) /\ Len(one) = 1 /\ one[1] = 1
  <2>1. 88 \in Byte /\ 51 \in Byte /\ 73 \in Byte /\ 68 \in Byte /\ 1 \in Byte
    BY ByteIs
  <2> HIDE DEF Byte
  <2> QED BY <2>1 DEF Magic, MarkVersion
<1>2. u \in Seq(Byte) /\ Len(u) = 16
  <2>1. u = [i \in 1..16 |-> u[i]] /\ \A i \in 1..16 : u[i] \in Byte
    OBVIOUS
  <2> QED BY <2>1, BytesOf
<1> HIDE DEF one
<1>3. Joined3(m, Magic, 4, one, 1, u, 16)
  <2>1. 4 \in Nat /\ 1 \in Nat /\ 16 \in Nat
    OBVIOUS
  <2> QED BY <1>1, <1>2, <2>1, JoinThree
<1> HIDE DEF m
<1>4. /\ m \in Seq(Byte) /\ Len(m) = 21
      /\ \A i \in 1..4 : m[i] = Magic[i]
      /\ m[5] = 1 /\ \A i \in 1..16 : m[5 + i] = u[i]
  BY <1>1, <1>3 DEF Joined3
<1>5. c \in Seq(Byte) /\ Len(c) = 4
  <2>1. Len(m) =< 21
    BY <1>4
  <2> QED BY <1>4, <2>1, CrcIs
<1> HIDE DEF c
<1>6. IsJoin(r, m, 21, c, 4)
  <2>1. 21 \in Nat /\ 4 \in Nat
    OBVIOUS
  <2> QED BY <1>4, <1>5, <2>1, Joined
<1>7. ToWatermark(u) = r
  BY DEF ToWatermark, r, c, m, one
<1> HIDE DEF r
<1>8. /\ r \in Seq(Byte) /\ Len(r) = 25
      /\ \A i \in 1..21 : r[i] = m[i]
      /\ \A i \in 1..4 : r[21 + i] = c[i]
  BY <1>6 DEF IsJoin
<1>9. Slice(r, 0, 4) = Magic
  <2> DEFINE q == Slice(r, 0, 4)
  <2>1. q \in Seq(Byte) /\ Len(q) = 4 - 0 /\ \A i \in 1..(4 - 0) : q[i] = r[0 + i]
    <3>1. 0 \in Nat /\ 4 \in Nat /\ 0 =< 4 /\ 4 =< Len(r)
      BY <1>8
    <3> QED BY <1>8, <3>1, SliceIs
  <2> HIDE DEF q
  <2>4. Len(q) = 4 /\ 4 \in Nat /\ \A i \in 1..4 : q[i] = r[i]
    BY <2>1
  <2>5. ASSUME NEW i \in 1..4 PROVE q[i] = Magic[i]
    <3>1. i \in 1..21
      OBVIOUS
    <3>2. r[i] = m[i] /\ m[i] = Magic[i] /\ q[i] = r[i]
      BY <1>4, <1>8, <2>4, <3>1
    <3> QED BY <3>2
  <2>2. Len(q) = 4 /\ 4 \in Nat /\ \A i \in 1..4 : q[i] = Magic[i]
    BY <2>4, <2>5
  <2>3. q = Magic
    BY <1>1, <2>1, <2>2, SameBytes
  <2> QED BY <2>3 DEF q
<1>10. Slice(r, 0, 21) = m
  <2> DEFINE q == Slice(r, 0, 21)
  <2>1. q \in Seq(Byte) /\ Len(q) = 21 - 0 /\ \A i \in 1..(21 - 0) : q[i] = r[0 + i]
    <3>1. 0 \in Nat /\ 21 \in Nat /\ 0 =< 21 /\ 21 =< Len(r)
      BY <1>8
    <3> QED BY <1>8, <3>1, SliceIs
  <2> HIDE DEF q
  <2>2. Len(q) = 21 /\ 21 \in Nat /\ \A i \in 1..21 : q[i] = m[i]
    BY <1>8, <2>1
  <2>3. q = m
    BY <1>4, <2>1, <2>2, SameBytes
  <2> QED BY <2>3 DEF q
<1>11. Slice(r, 21, 25) = c
  <2> DEFINE q == Slice(r, 21, 25)
  <2>1. q \in Seq(Byte) /\ Len(q) = 25 - 21 /\ \A i \in 1..(25 - 21) : q[i] = r[21 + i]
    <3>1. 21 \in Nat /\ 25 \in Nat /\ 21 =< 25 /\ 25 =< Len(r)
      BY <1>8
    <3> QED BY <1>8, <3>1, SliceIs
  <2> HIDE DEF q
  <2>2. Len(q) = 4 /\ 4 \in Nat /\ \A i \in 1..4 : q[i] = c[i]
    BY <1>8, <2>1
  <2>3. q = c
    BY <1>5, <2>1, <2>2, SameBytes
  <2> QED BY <2>3 DEF q
<1>12. Slice(r, 5, 21) = u
  <2> DEFINE q == Slice(r, 5, 21)
  <2>1. q \in Seq(Byte) /\ Len(q) = 21 - 5 /\ \A i \in 1..(21 - 5) : q[i] = r[5 + i]
    <3>1. 5 \in Nat /\ 21 \in Nat /\ 5 =< 21 /\ 21 =< Len(r)
      BY <1>8
    <3> QED BY <1>8, <3>1, SliceIs
  <2> HIDE DEF q
  <2>2. Len(q) = 16 /\ 16 \in Nat /\ \A i \in 1..16 : q[i] = r[5 + i]
    BY <2>1
  <2>3. ASSUME NEW i \in 1..16 PROVE q[i] = u[i]
    <3>1. 5 + i \in 1..21
      OBVIOUS
    <3>2. q[i] = r[5 + i]
      BY <2>2, Zenon
    <3>3. r[5 + i] = m[5 + i]
      BY <1>8, <3>1, Zenon
    <3>4. m[5 + i] = u[i]
      BY <1>4, Zenon
    <3> QED BY <3>2, <3>3, <3>4, Zenon
  <2>4. q = u
    BY <1>2, <2>1, <2>2, <2>3, SameBytes
  <2> QED BY <2>4 DEF q
<1>13. At(r, 4) = MarkVersion
  BY <1>4, <1>8 DEF At, MarkVersion
<1>14. DecodeWatermark(r) = [mark |-> "Valid", token |-> u]
  BY <1>8, <1>9, <1>10, <1>11, <1>12, <1>13 DEF DecodeWatermark, WatermarkLength, c
<1> QED BY <1>7, <1>8, <1>14

-----------------------------------------------------------------------------
(* What an operation writes is a valid state. *)

LEMMA MarkedIs ==
    ASSUME NEW s \in States["dpi"], NEW u \in [1..16 -> Byte]
    PROVE  LET m == OverlayPhysicalId(s, u)
           IN  /\ m \in States["dpi"] /\ m.tail = ToWatermark(u)
               /\ m.stages = s.stages /\ m.active = s.active /\ m.sensor = s.sensor
<1>1. /\ s \in [profile : {Target}, stages : Seq(Dpi), active : StageIndex,
                sensor : [lift : Bit, ripple : Bit, snap : Bit, sync : Bit],
                tail : [1..WatermarkLength -> Byte]]
      /\ ValidSelection(s.stages, s.active)
  BY DEF States
<1>2. ToWatermark(u) \in [1..WatermarkLength -> Byte]
  <2> DEFINE w == ToWatermark(u)
  <2>1. w \in Seq(Byte) /\ Len(w) = 25
    BY MarkIs
  <2> HIDE DEF w, Byte
  <2>2. w \in [1..25 -> Byte]
    BY <2>1, LenProperties
  <2> QED BY <2>2 DEF w, WatermarkLength
<1> DEFINE w == ToWatermark(u)
           m == [s EXCEPT !.tail = w]
<1>3. OverlayPhysicalId(s, u) = m
  BY DEF OverlayPhysicalId
<1> HIDE DEF w, Byte, Dpi, Bit, StageIndex
<1>4. /\ m \in [profile : {Target}, stages : Seq(Dpi), active : StageIndex,
                sensor : [lift : Bit, ripple : Bit, snap : Bit, sync : Bit],
                tail : [1..WatermarkLength -> Byte]]
      /\ m.tail = w /\ m.stages = s.stages /\ m.active = s.active /\ m.sensor = s.sensor
  BY <1>1, <1>2 DEF w
<1>5. ValidSelection(m.stages, m.active)
  BY <1>1, <1>4
<1> HIDE DEF m
<1>6. m \in States["dpi"]
  BY <1>4, <1>5 DEF States
<1> QED BY <1>3, <1>4, <1>6 DEF w

LEMMA DpiDeltaIs ==
    ASSUME NEW d \in Deltas["dpi"]
    PROVE  /\ DOMAIN d \subseteq {"stages", "active", "lift", "ripple", "snap", "sync"}
           /\ \A f \in DOMAIN d :
                 d[f] \in IF f = "stages" THEN Seq(Dpi) ELSE IF f = "active" THEN Byte ELSE Bit
BY SectionAssumption, Zenon

LEMMA MergeDpiIs ==
    ASSUME NEW b \in States["dpi"], NEW d \in Deltas["dpi"], MergeDpi(b, d) # None
    PROVE  LET m == MergeDpi(b, d)
           IN  /\ m \in States["dpi"] /\ m.tail = b.tail
               /\ m.stages = Pick(d, "stages", b.stages)
               /\ m.active = Pick(d, "active", b.active)
               /\ m.sensor.lift = Pick(d, "lift", b.sensor.lift)
               /\ m.sensor.ripple = Pick(d, "ripple", b.sensor.ripple)
               /\ m.sensor.snap = Pick(d, "snap", b.sensor.snap)
               /\ m.sensor.sync = Pick(d, "sync", b.sensor.sync)
<1> DEFINE st == Pick(d, "stages", b.stages)
           ac == Pick(d, "active", b.active)
           se == [f \in DOMAIN b.sensor |-> Pick(d, f, b.sensor[f])]
           m == [b EXCEPT !.stages = st, !.active = ac, !.sensor = se]
<1>1. /\ b \in [profile : {Target}, stages : Seq(Dpi), active : StageIndex,
                sensor : [lift : Bit, ripple : Bit, snap : Bit, sync : Bit],
                tail : [1..WatermarkLength -> Byte]]
      /\ b.stages \in Seq(Dpi) /\ b.sensor \in [lift : Bit, ripple : Bit, snap : Bit, sync : Bit]
  BY DEF States
<1>2. \A f \in DOMAIN d :
         d[f] \in IF f = "stages" THEN Seq(Dpi) ELSE IF f = "active" THEN Byte ELSE Bit
  BY DpiDeltaIs
<1>3. MergeDpi(b, d) = NewDpi(m)
  BY DEF MergeDpi
<1> HIDE DEF Dpi, Bit, Byte
<1>4. st \in Seq(Dpi)
  BY <1>1, <1>2 DEF Pick
<1>5. se \in [lift : Bit, ripple : Bit, snap : Bit, sync : Bit]
      /\ se.lift = Pick(d, "lift", b.sensor.lift) /\ se.ripple = Pick(d, "ripple", b.sensor.ripple)
      /\ se.snap = Pick(d, "snap", b.sensor.snap) /\ se.sync = Pick(d, "sync", b.sensor.sync)
  <2>1. DOMAIN b.sensor = {"lift", "ripple", "snap", "sync"}
    BY <1>1
  <2>2. /\ Pick(d, "lift", b.sensor.lift) \in Bit /\ Pick(d, "ripple", b.sensor.ripple) \in Bit
        /\ Pick(d, "snap", b.sensor.snap) \in Bit /\ Pick(d, "sync", b.sensor.sync) \in Bit
    BY <1>1, <1>2 DEF Pick
  <2>3. /\ se.lift = Pick(d, "lift", b.sensor.lift) /\ se.ripple = Pick(d, "ripple", b.sensor.ripple)
        /\ se.snap = Pick(d, "snap", b.sensor.snap) /\ se.sync = Pick(d, "sync", b.sensor.sync)
    BY <2>1
  <2>4. se = [lift |-> se.lift, ripple |-> se.ripple, snap |-> se.snap, sync |-> se.sync]
    BY <2>1
  <2> HIDE DEF se
  <2>5. se \in [lift : Bit, ripple : Bit, snap : Bit, sync : Bit]
    BY <2>2, <2>3, <2>4
  <2> QED BY <2>3, <2>5
<1> HIDE DEF st, ac, se
<1>6. m.stages = st /\ m.active = ac /\ m.sensor = se /\ m.tail = b.tail
  BY <1>1
<1>7. NewDpi(m) = m /\ ValidSelection(st, ac)
  BY <1>3, <1>6 DEF NewDpi
<1>8. ac \in StageIndex
  <2> DEFINE n == Len(st)
  <2>1. n \in 1..8 /\ ac \in 1..n
    BY <1>7 DEF ValidSelection, StageIndex
  <2> HIDE DEF n
  <2> QED BY <2>1 DEF StageIndex
<1> HIDE DEF StageIndex
<1>9. m \in [profile : {Target}, stages : Seq(Dpi), active : StageIndex,
             sensor : [lift : Bit, ripple : Bit, snap : Bit, sync : Bit],
             tail : [1..WatermarkLength -> Byte]]
  BY <1>1, <1>4, <1>5, <1>8
<1> HIDE DEF m
<1>10. m \in States["dpi"]
  BY <1>6, <1>7, <1>9 DEF States
<1> QED BY <1>3, <1>5, <1>6, <1>7, <1>10 DEF st, ac

LEMMA PreferencesDeltaIs ==
    ASSUME NEW d \in Deltas["preferences"]
    PROVE  /\ DOMAIN d \subseteq PreferenceField
           /\ \A f \in DOMAIN d : d[f] \in IF f = "color" THEN Color ELSE Byte
BY SectionAssumption, Zenon

LEMMA MergePreferencesIs ==
    ASSUME NEW b \in States["preferences"], NEW d \in Deltas["preferences"]
    PROVE  LET m == MergePreferences(b, d)
           IN  /\ m \in States["preferences"]
               /\ m.light = Pick(d, "light", b.light)
               /\ m.configuration = Pick(d, "configuration", b.configuration)
               /\ m.deepSleep = Pick(d, "deepSleep", b.deepSleep)
               /\ m.color = Pick(d, "color", b.color)
               /\ m.sleep = Pick(d, "sleep", b.sleep)
               /\ m.debounce = Pick(d, "debounce", b.debounce)
<1> DEFINE m == MergePreferences(b, d)
<1> HIDE DEF Byte, Color
<1>1. b \in [profile : {Target}, light : Byte, configuration : Byte, deepSleep : Byte,
             color : Color, sleep : Byte, debounce : Byte]
  BY DEF States
<1>2. DOMAIN b = {"profile", "light", "configuration", "deepSleep", "color", "sleep", "debounce"}
  BY <1>1
<1>3. \A f \in DOMAIN d : d[f] \in IF f = "color" THEN Color ELSE Byte
  BY PreferencesDeltaIs
<1>4. /\ m.profile = b.profile
      /\ m.light = Pick(d, "light", b.light)
      /\ m.configuration = Pick(d, "configuration", b.configuration)
      /\ m.deepSleep = Pick(d, "deepSleep", b.deepSleep)
      /\ m.color = Pick(d, "color", b.color)
      /\ m.sleep = Pick(d, "sleep", b.sleep)
      /\ m.debounce = Pick(d, "debounce", b.debounce)
  BY <1>2 DEF MergePreferences
<1>5. m = [profile |-> m.profile, light |-> m.light, configuration |-> m.configuration,
           deepSleep |-> m.deepSleep, color |-> m.color, sleep |-> m.sleep, debounce |-> m.debounce]
  BY <1>2 DEF MergePreferences
<1>6. /\ Pick(d, "light", b.light) \in Byte /\ Pick(d, "configuration", b.configuration) \in Byte
      /\ Pick(d, "deepSleep", b.deepSleep) \in Byte /\ Pick(d, "color", b.color) \in Color
      /\ Pick(d, "sleep", b.sleep) \in Byte /\ Pick(d, "debounce", b.debounce) \in Byte
      /\ b.profile = Target
  BY <1>1, <1>3 DEF Pick
<1> HIDE DEF m
<1>7. m \in [profile : {Target}, light : Byte, configuration : Byte, deepSleep : Byte,
             color : Color, sleep : Byte, debounce : Byte]
  BY <1>4, <1>5, <1>6
<1>8. m \in States["preferences"]
  BY <1>7 DEF States
<1> QED BY <1>4, <1>8 DEF m

LEMMA ButtonsDeltaIs ==
    ASSUME NEW d \in Deltas["buttons"]
    PROVE  /\ DOMAIN d \subseteq DOMAIN SlotIndex
           /\ \A s \in DOMAIN d : d[s] \in DOMAIN Shortcut \cup DOMAIN ActionByte
BY SectionAssumption, Zenon

LEMMA SlotsDiffer ==
    ASSUME NEW s \in DOMAIN SlotIndex, NEW t \in DOMAIN SlotIndex
    PROVE  SlotIndex[s] \in 0..17 /\ (SlotIndex[s] = SlotIndex[t] => s = t)
BY DEF SlotIndex

LEMMA Prefixed ==
    ASSUME NEW h \in Byte, NEW x \in Byte, NEW y \in Byte
    PROVE  <<h>> \o <<x, y>> = <<h, x, y>>
<1> DEFINE a == <<h>>
           c == <<x, y>>
           r == a \o c
           s == <<h, x, y>>
<1> HIDE DEF Byte
<1>1. a \in Seq(Byte) /\ Len(a) = 1 /\ c \in Seq(Byte) /\ Len(c) = 2 /\ s \in Seq(Byte) /\ Len(s) = 3
  OBVIOUS
<1>2. a[1] = h /\ c[1] = x /\ c[2] = y /\ s[1] = h /\ s[2] = x /\ s[3] = y
  OBVIOUS
<1> HIDE DEF a, c, s
<1>3. IsJoin(r, a, 1, c, 2)
  <2>1. 1 \in Nat /\ 2 \in Nat
    OBVIOUS
  <2> QED BY <1>1, <2>1, Joined
<1> HIDE DEF r
<1>4. r \in Seq(Byte) /\ Len(r) = 3 /\ r[1] = h /\ r[2] = x /\ r[3] = y
  BY <1>2, <1>3 DEF IsJoin
<1>5. 3 \in Nat /\ \A i \in 1..3 : r[i] = s[i]
  BY <1>2, <1>4
<1>6. r = s
  BY <1>1, <1>4, <1>5, SameBytes
<1> QED BY <1>6 DEF r, a, c, s

\* An assignment is three bytes.
LEMMA AssignmentIs ==
    ASSUME NEW a \in DOMAIN Shortcut \cup DOMAIN ActionByte
    PROVE  ToAssignment(a) \in [1..3 -> Byte]
<1>0. \A x, y, z \in Byte : <<x, y, z>> \in [1..3 -> Byte]
  <2> HIDE DEF Byte
  <2> QED OBVIOUS
<1>1. CASE a \in DOMAIN Shortcut
  <2>1. PICK x \in Nat, y \in Nat : x < 256 /\ y < 256 /\ Shortcut[a] = <<x, y>>
    BY <1>1 DEF Shortcut
  <2>3. ShortcutByte \in Byte /\ x \in Byte /\ y \in Byte
    BY <2>1, ByteIs DEF ShortcutByte
  <2>4. <<ShortcutByte>> \o <<x, y>> = <<ShortcutByte, x, y>>
    BY <2>3, Prefixed
  <2>2. ToAssignment(a) = <<ShortcutByte, x, y>>
    BY <1>1, <2>1, <2>4, Zenon DEF ToAssignment, FirmwareByte
  <2> QED BY <1>0, <2>2, <2>3
<1>2. CASE a \notin DOMAIN Shortcut
  <2>1. ActionByte[a] \in Nat /\ ActionByte[a] < 256
    BY <1>2 DEF ActionByte
  <2>2. ToAssignment(a) = <<ActionByte[a], 0, 0>>
    BY <1>2 DEF ToAssignment, FirmwareByte
  <2>3. ActionByte[a] \in Byte /\ 0 \in Byte
    BY <2>1, ByteIs
  <2> QED BY <1>0, <2>2, <2>3
<1> QED BY <1>1, <1>2

LEMMA MergeSlotIs ==
    ASSUME NEW b \in States["buttons"], NEW d \in Deltas["buttons"]
    PROVE  LET m == MergeSlot(b, d)
           IN  /\ m \in States["buttons"]
               /\ \A s \in DOMAIN d : m.slots[SlotIndex[s]] = ToAssignment(d[s])
               /\ \A i \in 0..17 :
                     (\A s \in DOMAIN d : SlotIndex[s] # i) => m.slots[i] = b.slots[i]
<1> DEFINE v == [i \in 0..17 |->
                    IF \E s \in DOMAIN d : SlotIndex[s] = i
                    THEN ToAssignment(d[CHOOSE s \in DOMAIN d : SlotIndex[s] = i])
                    ELSE b.slots[i]]
           m == [b EXCEPT !.slots = v]
<1>1. b \in [profile : {Target}, slots : [0..17 -> [1..3 -> Byte]]]
  BY DEF States, SlotCount
<1>2. \A s \in DOMAIN d : (CHOOSE t \in DOMAIN d : SlotIndex[t] = SlotIndex[s]) = s
  <2>1. \A s, t \in DOMAIN d : SlotIndex[t] = SlotIndex[s] => t = s
    BY ButtonsDeltaIs, SlotsDiffer
  <2> QED BY <2>1
<1>3. MergeSlot(b, d) = m
  <2>1. DOMAIN b.slots = 0..17
    BY <1>1
  <2> QED BY <2>1 DEF MergeSlot
<1>4. ASSUME NEW i \in 0..17 PROVE v[i] \in [1..3 -> Byte]
  <2>1. CASE \E s \in DOMAIN d : SlotIndex[s] = i
    <3>1. PICK s \in DOMAIN d : SlotIndex[s] = i
      BY <2>1
    <3>4. (CHOOSE t \in DOMAIN d : SlotIndex[t] = i) = s
      BY <1>2, <3>1
    <3>2. v[i] = ToAssignment(d[s])
      BY <3>1, <3>4
    <3>3. d[s] \in DOMAIN Shortcut \cup DOMAIN ActionByte
      BY ButtonsDeltaIs
    <3> QED BY <3>2, <3>3, AssignmentIs
  <2>2. CASE ~\E s \in DOMAIN d : SlotIndex[s] = i
    <3>1. v[i] = b.slots[i]
      BY <2>2
    <3> HIDE DEF v, Byte
    <3> QED BY <1>1, <3>1
  <2> QED BY <2>1, <2>2
<1>5. ASSUME NEW s \in DOMAIN d PROVE v[SlotIndex[s]] = ToAssignment(d[s])
  <2>1. SlotIndex[s] \in 0..17
    BY ButtonsDeltaIs, SlotsDiffer
  <2> QED BY <1>2, <2>1
<1>6. ASSUME NEW i \in 0..17, \A s \in DOMAIN d : SlotIndex[s] # i PROVE v[i] = b.slots[i]
  BY <1>6
<1>7. v \in [0..17 -> [1..3 -> Byte]]
  <2>1. v = [i \in 0..17 |-> v[i]]
    OBVIOUS
  <2> HIDE DEF v
  <2> QED BY <1>4, <2>1
<1> HIDE DEF v
<1>8. m \in [profile : {Target}, slots : [0..17 -> [1..3 -> Byte]]] /\ m.slots = v
  BY <1>1, <1>7
<1> HIDE DEF m
<1>9. m \in States["buttons"]
  BY <1>8 DEF States, SlotCount
<1> QED BY <1>3, <1>5, <1>6, <1>8, <1>9

\* The captured defaults are valid states.
LEMMA CapturedIs ==
    ASSUME kind \in Sectional
    PROVE  Captured \in States[kind]
<1>0. /\ 0 \in Byte /\ 1 \in Byte /\ 2 \in Byte /\ 3 \in Byte /\ 4 \in Byte /\ 5 \in Byte /\ 6 \in Byte
      /\ 9 \in Byte /\ 10 \in Byte /\ 13 \in Byte /\ 15 \in Byte /\ 60 \in Byte /\ 64 \in Byte /\ 255 \in Byte
  BY ByteIs
<1>1. CASE kind = "dpi"
  <2>1. CapturedTail \in [1..WatermarkLength -> Byte]
    <3> HIDE DEF Byte
    <3>1. CapturedTail \in Seq(Byte) /\ Len(CapturedTail) = 25
      BY <1>0 DEF CapturedTail
    <3>2. CapturedTail \in [1..25 -> Byte]
      BY <3>1, LenProperties
    <3> QED BY <3>2 DEF WatermarkLength
  <2>2. <<800>> \in Seq(Dpi) /\ Len(<<800>>) = 1
    <3>1. 16 \in 1..520 /\ 800 = 50 * 16
      OBVIOUS
    <3>2. 800 \in Dpi
      <4>1. 50 * 16 \in Dpi
        BY <3>1, Zenon DEF Dpi
      <4> QED BY <3>1, <4>1
    <3> HIDE DEF Dpi
    <3> QED BY <3>2
  <2>3. ValidSelection(<<800>>, 1) /\ 1 \in StageIndex
    BY <2>2 DEF ValidSelection, StageIndex
  <2>4. 0 \in Bit
    BY DEF Bit
  <2> DEFINE se == [lift |-> 0, ripple |-> 0, snap |-> 0, sync |-> 0]
             m == [profile |-> Target, stages |-> <<800>>, active |-> 1, tail |-> CapturedTail, sensor |-> se]
  <2> HIDE DEF Byte, Dpi, StageIndex, Bit
  <2>5. se \in [lift : Bit, ripple : Bit, snap : Bit, sync : Bit]
    BY <2>4
  <2> HIDE DEF se
  <2>6. /\ m \in [profile : {Target}, stages : Seq(Dpi), active : StageIndex,
                  sensor : [lift : Bit, ripple : Bit, snap : Bit, sync : Bit],
                  tail : [1..WatermarkLength -> Byte]]
        /\ m.stages = <<800>> /\ m.active = 1
    BY <2>1, <2>2, <2>3, <2>5
  <2>7. Captured = m
    BY <1>1 DEF Captured, CapturedDpi, se
  <2> HIDE DEF m
  <2>8. m \in States["dpi"]
    BY <2>3, <2>6 DEF States
  <2> QED BY <1>1, <2>7, <2>8
<1>2. CASE kind = "preferences"
  <2> HIDE DEF Byte
  <2>1. <<255, 0, 0>> \in Color
    BY <1>0 DEF Color
  <2> HIDE DEF Color
  <2>2. CapturedPreferences \in States["preferences"]
    BY <1>0, <2>1 DEF CapturedPreferences, States
  <2> QED BY <1>2, <2>2 DEF Captured
<1>3. CASE kind = "buttons"
  <2> DEFINE code == <<2, 3, 4, 13, 60, 15, 6, 5, 60, 1, 1, 1, 1, 1, 1, 1, 10, 9>>
  <2> HIDE DEF Byte
  <2>1. code \in Seq(Byte) /\ Len(code) = 18
    BY <1>0
  <2>2. DefaultSlots = [i \in 0..17 |-> <<code[i + 1], 0, 0>>]
    BY DEF DefaultSlots, SlotCount, Assignment
  <2> HIDE DEF code
  <2>3. ASSUME NEW i \in 0..17 PROVE <<code[i + 1], 0, 0>> \in [1..3 -> Byte]
    <3>1. i + 1 \in 1..Len(code)
      BY <2>1
    <3>2. code[i + 1] \in Byte
      BY <2>1, <3>1, ElementOfSeq
    <3> QED BY <1>0, <3>2
  <2>4. DefaultSlots \in [0..17 -> [1..3 -> Byte]]
    BY <2>2, <2>3
  <2>5. [profile |-> Target, slots |-> DefaultSlots] \in States["buttons"]
    BY <2>4 DEF States, SlotCount
  <2> QED BY <1>3, <2>5 DEF Captured
<1> QED BY <1>1, <1>2, <1>3 DEF Sectional

\* A merge with a partial update, and the mark of the mouse over it.
LEMMA MergeIs ==
    ASSUME kind \in Kind, NEW b \in States[kind], NEW d \in Deltas[kind], Merge(b, d) # None
    PROVE  Merge(b, d) \in States[kind]
<1>1. kind \notin {"rate", "metadata"}
  <2>1. \A k \in {"rate", "metadata"} : Deltas[k] = {}
    BY SectionAssumption, Zenon
  <2> QED BY <2>1
<1>2. CASE kind = "dpi"
  <2>1. Merge(b, d) = MergeDpi(b, d)
    BY <1>2 DEF Merge
  <2> QED BY <1>2, <2>1, MergeDpiIs
<1>3. CASE kind = "preferences"
  <2>1. Merge(b, d) = MergePreferences(b, d)
    BY <1>3 DEF Merge
  <2> QED BY <1>3, <2>1, MergePreferencesIs
<1>4. CASE kind = "buttons"
  <2>1. Merge(b, d) = MergeSlot(b, d)
    BY <1>4 DEF Merge
  <2> QED BY <1>4, <2>1, MergeSlotIs
<1> QED BY <1>1, <1>2, <1>3, <1>4 DEF Kind

LEMMA WantedIs ==
    ASSUME kind \in Kind, token \in {None, Token}, op.base \in States[kind],
           op.call = "delta" => op.delta \in Deltas[kind], Wanted # None
    PROVE  Wanted \in States[kind]
<1> DEFINE s == IF op.call = "delta" THEN Merge(op.base, op.delta) ELSE op.base
<1>1. s # None /\ Wanted = WithWatermark(s)
  BY DEF Wanted
<1>2. s \in States[kind]
  BY <1>1, MergeIs
<1> HIDE DEF s
<1>3. CASE kind = "dpi" /\ token # None
  <2>1. token \in [1..16 -> Byte]
    <3>1. Token \in [1..16 -> Byte]
      BY SectionAssumption, Zenon
    <3> QED BY <1>3, <3>1
  <2>2. OverlayPhysicalId(s, token) \in States["dpi"]
    BY <1>2, <1>3, <2>1, MarkedIs
  <2> QED BY <1>1, <1>3, <2>2 DEF WithWatermark
<1>4. CASE ~(kind = "dpi" /\ token # None)
  BY <1>1, <1>2, <1>4 DEF WithWatermark
<1> QED BY <1>3, <1>4

-----------------------------------------------------------------------------
(* The invariant, in parts: of a section k on a transport t. *)

FixedIs(k, t, u) ==
    k \in Kind /\ t \in Transport /\ u \in {None, Token} /\ (u # None => k = "dpi")

\* What the mouse holds is the image of a valid state.
HeldIs(k, h) == \E s \in States[k] : h = EncodeOf(k, s)

StoredIs(k, st) ==
    st \in [desired : States[k] \cup {None}, observed : States[k] \cup {None}]

OperationIs(k, t, o) ==
    /\ o \in [call : {"read", "full", "delta"}, policy : Policies(t),
              phase : {"read", "write", "verify", "persist"},
              base : States[k] \cup {None}, delta : Deltas[k] \cup {None},
              was : Seq(Byte), tries : 1..MaxAttempts]
    /\ o.call = "delta" => o.delta \in Deltas[k]
    /\ o.call = "full" => k \in {"dpi", "preferences"}
    /\ o.phase = "read" => o.policy.live
    /\ o.phase = "verify" => o.policy.readback
    /\ o.phase # "read" => o.base \in States[k]
    /\ o.call = "delta" /\ o.phase = "write" /\ o.policy.live => o.was = EncodeOf(k, o.base)

LEMMA HeldSame ==
    ASSUME NEW k \in Kind, NEW h
    PROVE  LET v == Decode(k, Publish(k, h, "Wired"), "Wired", Target)
           IN  v \in States[k] /\ h = EncodeOf(k, v) <=> HeldIs(k, h)
<1> DEFINE v == Decode(k, Publish(k, h, "Wired"), "Wired", Target)
<1>1. ASSUME NEW s \in States[k], h = EncodeOf(k, s) PROVE v = s
  <2>1. "Wired" \in Transport /\ "Wired" # "Ble"
    BY DEF Transport
  <2> QED BY <1>1, <2>1, RoundTrip
<1> HIDE DEF v
<1> QED BY <1>1 DEF HeldIs, v

LEMMA EncodeSame == \A s : Encode(s) = EncodeOf(kind, s)
BY DEF Encode, EncodeOf

LEMMA SectionTypesAre ==
    SectionTypes <=> /\ FixedIs(kind, transport, token) /\ HeldIs(kind, held)
                     /\ StoredIs(kind, stored) /\ (op # None => OperationIs(kind, transport, op))
<1>1. kind \in Kind => (Held \in States[kind] /\ held = Encode(Held) <=> HeldIs(kind, held))
  BY HeldSame, EncodeSame DEF Held
<1>2. ASSUME op # None
      PROVE  OperationIs(kind, transport, op) <=>
             /\ op \in [call : {"read", "full", "delta"}, policy : Policies(transport),
                        phase : {"read", "write", "verify", "persist"},
                        base : States[kind] \cup {None}, delta : Deltas[kind] \cup {None},
                        was : Seq(Byte), tries : 1..MaxAttempts]
             /\ op.call = "delta" => op.delta \in Deltas[kind]
             /\ op.call = "full" => kind \in {"dpi", "preferences"}
             /\ op.phase = "read" => op.policy.live
             /\ op.phase = "verify" => op.policy.readback
             /\ op.phase # "read" => op.base \in States[kind]
             /\ op.call = "delta" /\ op.phase = "write" /\ op.policy.live => op.was = Encode(op.base)
  BY EncodeSame, Zenon DEF OperationIs
<1> QED BY <1>1, <1>2, Zenon DEF SectionTypes, FixedIs, StoredIs

LEMMA SectionTypesKept ==
    ASSUME FixedIs(kind', transport', token'), HeldIs(kind', held'), StoredIs(kind', stored'),
           op' # None => OperationIs(kind', transport', op')
    PROVE  SectionTypes'
<1>0. \A s : (Encode(s))' = EncodeOf(kind', s)
  BY DEF Encode, EncodeOf
<1>1. Held' \in States[kind'] /\ held' = (Encode(Held))'
  <2>1. Held' = Decode(kind', Publish(kind', held', "Wired"), "Wired", Target)
    BY DEF Held
  <2>2. kind' \in Kind
    BY DEF FixedIs
  <2>3. Held' \in States[kind'] /\ held' = EncodeOf(kind', Held')
    BY <2>1, <2>2, HeldSame
  <2>4. (Encode(Held))' = EncodeOf(kind', Held')
    BY DEF Encode, EncodeOf
  <2> QED BY <2>3, <2>4
<1>2. (Encode(op.base))' = EncodeOf(kind', op'.base)
  BY DEF Encode, EncodeOf
<1> QED BY <1>1, <1>2, Zenon DEF SectionTypes, FixedIs, StoredIs, OperationIs

LEMMA SectionTypesInit == SectionInit => SectionTypes
<1> SUFFICES ASSUME SectionInit PROVE SectionTypes
  OBVIOUS
<1>1. FixedIs(kind, transport, token)
  BY DEF SectionInit, FixedIs
<1>2. HeldIs(kind, held)
  <2>1. PICK s \in Images[kind] : held = Encode(s)
    BY DEF SectionInit
  <2>2. s \in States[kind]
    BY <1>1, TargetIs DEF FixedIs
  <2> QED BY <2>1, <2>2, EncodeSame DEF HeldIs
<1>3. StoredIs(kind, stored)
  BY DEF SectionInit, StoredIs
<1>4. op = None
  BY DEF SectionInit
<1> QED BY <1>1, <1>2, <1>3, <1>4, SectionTypesAre

-----------------------------------------------------------------------------
(* One lemma per action. *)

LEMMA HeldBytes ==
    ASSUME SectionTypes
    PROVE  /\ kind \in Kind /\ transport \in Transport /\ held \in Seq(Byte)
           /\ \E s \in States[kind] : held = Encode(s) /\ (transport # "Ble" => Readings \subseteq {None, s})
<1>1. FixedIs(kind, transport, token) /\ HeldIs(kind, held)
  BY SectionTypesAre
<1>2. PICK s \in States[kind] : held = EncodeOf(kind, s)
  BY <1>1 DEF HeldIs
<1>3. kind \in Kind /\ transport \in Transport
  BY <1>1 DEF FixedIs
<1>4. held = Encode(s)
  BY <1>2, EncodeSame
<1> QED BY <1>2, <1>3, <1>4, EncodedIs, ReadingsAre

\* A reading can be taken only over a cable or a receiver, and is exact.
LEMMA ReadingIs ==
    ASSUME SectionTypes, transport # "Ble", NEW v \in Readings, v # None
    PROVE  v \in States[kind] /\ Encode(v) = held
BY HeldBytes

\* Bluetooth has neither live reads nor readbacks.
LEMMA OffBluetooth ==
    ASSUME SectionTypes, op # None, op.phase \in {"read", "verify"}
    PROVE  transport # "Ble"
<1>1. OperationIs(kind, transport, op)
  BY SectionTypesAre
<1> QED BY <1>1 DEF OperationIs, Policies

\* Where an operation starts.
LEMMA StartKeeps ==
    ASSUME SectionTypes, NEW what, NEW policy, NEW phase, NEW base, NEW delta,
           Start(what, policy, phase, base, delta),
           what \in {"read", "full", "delta"}, policy \in Policies(transport),
           phase \in {"read", "write"}, base \in States[kind] \cup {None},
           delta \in Deltas[kind] \cup {None},
           what = "delta" => delta \in Deltas[kind],
           what = "full" => kind \in {"dpi", "preferences"},
           phase = "read" => policy.live,
           phase # "read" => base \in States[kind] /\ ~(what = "delta" /\ policy.live)
    PROVE  SectionTypes'
<1>1. /\ FixedIs(kind, transport, token) /\ HeldIs(kind, held) /\ StoredIs(kind, stored)
      /\ held \in Seq(Byte)
  BY SectionTypesAre, HeldBytes
<1>2. kind' = kind /\ transport' = transport /\ token' = token /\ held' = held /\ stored' = stored
  BY DEF Start, fixed
<1>3. op' = [call |-> what, policy |-> policy, phase |-> phase, base |-> base,
             delta |-> delta, was |-> held, tries |-> MaxAttempts]
  BY DEF Start
<1>4. MaxAttempts \in 1..MaxAttempts
  <2>1. MaxAttempts \in Nat \ {0}
    BY SectionAssumption, Zenon
  <2> QED BY <2>1
<1>5. OperationIs(kind, transport, op')
  <2> HIDE DEF Byte, Kind
  <2>1. op' \in [call : {"read", "full", "delta"}, policy : Policies(transport),
                 phase : {"read", "write", "verify", "persist"},
                 base : States[kind] \cup {None}, delta : Deltas[kind] \cup {None},
                 was : Seq(Byte), tries : 1..MaxAttempts]
    BY <1>1, <1>3, <1>4
  <2> QED BY <1>3, <2>1 DEF OperationIs
<1> QED BY <1>1, <1>2, <1>5, SectionTypesKept

LEMMA BeginReadKeeps == SectionTypes /\ BeginRead => SectionTypes'
<1> SUFFICES ASSUME SectionTypes, BeginRead PROVE SectionTypes'
  OBVIOUS
<1> DEFINE policy == [consent |-> FALSE, readback |-> TRUE, live |-> TRUE]
<1>1. Start("read", policy, "read", None, None) /\ transport # "Ble"
  BY DEF BeginRead, Readable
<1>2. policy \in Policies(transport)
  BY <1>1 DEF Policies, Policy
<1>3. policy.live
  OBVIOUS
<1> HIDE DEF policy
<1> QED BY <1>1, <1>2, <1>3, StartKeeps

LEMMA BeginFullKeeps ==
    ASSUME SectionTypes, NEW policy \in Policies(transport), NEW s \in Images[kind], BeginFull(s, policy)
    PROVE  SectionTypes'
<1>1. Start("full", policy, "write", s, None) /\ kind \in {"dpi", "preferences"}
  BY DEF BeginFull
<1>2. s \in States[kind]
  BY <1>1, TargetIs, HeldBytes
<1> QED BY <1>1, <1>2, StartKeeps

LEMMA BeginLiveKeeps ==
    ASSUME SectionTypes, NEW policy \in Policies(transport), NEW d \in Deltas[kind], BeginLive(d, policy)
    PROVE  SectionTypes'
<1>1. Start("delta", policy, "read", None, d) /\ policy.live
  BY DEF BeginLive
<1> QED BY <1>1, StartKeeps

LEMMA BeginStoredKeeps ==
    ASSUME SectionTypes, NEW policy \in Policies(transport), NEW d \in Deltas[kind], BeginStored(d, policy)
    PROVE  SectionTypes'
<1> DEFINE base == StoredBaseline(policy.consent)
<1>1. Start("delta", policy, "write", base, d) /\ ~policy.live /\ base # None
  BY DEF BeginStored
<1>2. base \in States[kind]
  <2>1. StoredIs(kind, stored) /\ kind \in Kind
    BY SectionTypesAre, HeldBytes
  <2>2. kind \in Sectional
    <3>1. \A k \in {"rate", "metadata"} : Deltas[k] = {}
      BY SectionAssumption, Zenon
    <3> QED BY <2>1, <3>1 DEF Kind, Sectional
  <2>3. Evidence \in States[kind] \cup {None}
    BY <2>1 DEF StoredIs, Evidence
  <2>4. Captured \in States[kind]
    BY <2>2, CapturedIs
  <2> QED BY <1>1, <2>3, <2>4 DEF StoredBaseline
<1> HIDE DEF base
<1> QED BY <1>1, <1>2, StartKeeps

\* Everything but the operation in progress stays.
LEMMA OperationMoves ==
    ASSUME SectionTypes, UNCHANGED <<fixed, held, stored>>,
           op' # None => OperationIs(kind, transport, op')
    PROVE  SectionTypes'
<1>1. FixedIs(kind, transport, token) /\ HeldIs(kind, held) /\ StoredIs(kind, stored)
  BY SectionTypesAre
<1>2. kind' = kind /\ transport' = transport /\ token' = token /\ held' = held /\ stored' = stored
  BY DEF fixed
<1> QED BY <1>1, <1>2, SectionTypesKept

\* One attempt fewer.
LEMMA RetryKeeps ==
    ASSUME NEW k, NEW t, NEW o, OperationIs(k, t, o), o.tries > 1
    PROVE  OperationIs(k, t, [o EXCEPT !.tries = @ - 1])
<1> DEFINE n == o.tries - 1
           r == [o EXCEPT !.tries = n]
<1>1. MaxAttempts \in Nat \ {0}
  BY SectionAssumption, Zenon
<1>2. n \in 1..MaxAttempts
  BY <1>1 DEF OperationIs
<1> HIDE DEF n
<1>3. OperationIs(k, t, r)
  BY <1>2 DEF OperationIs
<1> QED BY <1>3 DEF n

LEMMA ReadSectionKeeps == SectionTypes /\ ReadSection => SectionTypes'
<1> SUFFICES ASSUME SectionTypes, ReadSection PROVE SectionTypes'
  OBVIOUS
<1> DEFINE next(v) == [op EXCEPT !.phase = IF op.call = "read" THEN "persist" ELSE "write",
                                 !.base = v, !.was = held, !.tries = MaxAttempts]
<1>1. PICK v \in Readings : Attempt(v, next(v))
  BY DEF ReadSection
<1>2. op # None /\ op.phase = "read" /\ OperationIs(kind, transport, op) /\ transport # "Ble"
  BY SectionTypesAre, OffBluetooth DEF ReadSection
<1>3. UNCHANGED <<fixed, held, stored>>
  BY DEF ReadSection
<1>4. ASSUME op' # None PROVE OperationIs(kind, transport, op')
  <2>1. CASE v # None
    <3>1. v \in States[kind] /\ Encode(v) = held /\ held \in Seq(Byte)
      BY <1>2, <2>1, ReadingIs, HeldBytes
    <3>2. op' = next(v)
      BY <1>1, <2>1 DEF Attempt
    <3>3. MaxAttempts \in 1..MaxAttempts
      <4>1. MaxAttempts \in Nat \ {0}
        BY SectionAssumption, Zenon
      <4> QED BY <4>1
    <3> HIDE DEF Byte
    <3>4. held = EncodeOf(kind, v)
      BY <3>1, EncodeSame
    <3> QED BY <1>2, <3>1, <3>2, <3>3, <3>4 DEF OperationIs
  <2>2. CASE v = None
    <3>1. op.tries > 1 /\ op' = [op EXCEPT !.tries = @ - 1]
      BY <1>1, <1>4, <2>2 DEF Attempt
    <3> QED BY <1>2, <3>1, RetryKeeps
  <2> QED BY <2>1, <2>2
<1> QED BY <1>3, <1>4, OperationMoves

LEMMA VerifyWriteKeeps == SectionTypes /\ VerifyWrite => SectionTypes'
<1> SUFFICES ASSUME SectionTypes, VerifyWrite PROVE SectionTypes'
  OBVIOUS
<1>1. PICK v \in Readings : Attempt(v, IF v = op.base THEN [op EXCEPT !.phase = "persist"] ELSE None)
  BY DEF VerifyWrite
<1>2. op # None /\ op.phase = "verify" /\ OperationIs(kind, transport, op)
  BY SectionTypesAre DEF VerifyWrite
<1>3. UNCHANGED <<fixed, held, stored>>
  BY DEF VerifyWrite
<1>4. ASSUME op' # None PROVE OperationIs(kind, transport, op')
  <2>1. CASE v # None
    <3>1. op' = [op EXCEPT !.phase = "persist"]
      BY <1>1, <1>4, <2>1 DEF Attempt
    <3> HIDE DEF Byte
    <3> QED BY <1>2, <3>1 DEF OperationIs
  <2>2. CASE v = None
    <3>1. op.tries > 1 /\ op' = [op EXCEPT !.tries = @ - 1]
      BY <1>1, <1>4, <2>2 DEF Attempt
    <3> QED BY <1>2, <3>1, RetryKeeps
  <2> QED BY <2>1, <2>2
<1> QED BY <1>3, <1>4, OperationMoves

\* The image that is written is that of a valid state.
LEMMA WrittenIs ==
    ASSUME SectionTypes, WriteSection, Wanted # None
    PROVE  Wanted \in States[kind]
<1>1. op # None /\ op.phase = "write" /\ OperationIs(kind, transport, op)
      /\ FixedIs(kind, transport, token)
  BY SectionTypesAre DEF WriteSection
<1>2. op.base \in States[kind] /\ (op.call = "delta" => op.delta \in Deltas[kind])
  BY <1>1 DEF OperationIs
<1>3. kind \in Kind /\ token \in {None, Token}
  BY <1>1 DEF FixedIs
<1> QED BY <1>2, <1>3, WantedIs

LEMMA WriteSectionKeeps == SectionTypes /\ WriteSection => SectionTypes'
<1> SUFFICES ASSUME SectionTypes, WriteSection PROVE SectionTypes'
  OBVIOUS
<1>1. /\ FixedIs(kind, transport, token) /\ HeldIs(kind, held) /\ StoredIs(kind, stored)
      /\ op # None /\ OperationIs(kind, transport, op)
  BY SectionTypesAre DEF WriteSection
<1>2. kind' = kind /\ transport' = transport /\ token' = token /\ stored' = stored
  BY DEF WriteSection, fixed
<1> DEFINE image == IF Wanted = None THEN None ELSE Encode(Wanted)
           next == [op EXCEPT !.phase = IF op.policy.readback THEN "verify" ELSE "persist",
                              !.base = Wanted]
<1>3. \/ op' = None /\ held' = held
      \/ Wanted # None /\ held' = Encode(Wanted) /\ op' \in {None, next}
  BY DEF WriteSection
<1>4. CASE op' = None /\ held' = held
  BY <1>1, <1>2, <1>4, SectionTypesKept
<1>5. CASE Wanted # None /\ held' = Encode(Wanted) /\ op' \in {None, next}
  <2>1. Wanted \in States[kind]
    BY <1>5, WrittenIs
  <2>2. HeldIs(kind, held')
    BY <1>5, <2>1, EncodeSame DEF HeldIs
  <2>3. OperationIs(kind, transport, next)
    <3> DEFINE w == Wanted
    <3>1. w \in States[kind]
      BY <2>1
    <3> HIDE DEF w, Byte
    <3>2. OperationIs(kind, transport, [op EXCEPT
             !.phase = IF op.policy.readback THEN "verify" ELSE "persist", !.base = w])
      BY <1>1, <3>1 DEF OperationIs
    <3> QED BY <3>2 DEF w
  <2> HIDE DEF next
  <2>4. op' # None => OperationIs(kind, transport, op')
    BY <1>5, <2>3
  <2> QED BY <1>1, <1>2, <2>2, <2>4, SectionTypesKept
<1> QED BY <1>3, <1>4, <1>5

LEMMA PersistKeeps == SectionTypes /\ Persist => SectionTypes'
<1> SUFFICES ASSUME SectionTypes, Persist PROVE SectionTypes'
  OBVIOUS
<1>1. /\ FixedIs(kind, transport, token) /\ HeldIs(kind, held) /\ StoredIs(kind, stored)
      /\ op # None /\ OperationIs(kind, transport, op) /\ op.phase = "persist"
  BY SectionTypesAre DEF Persist
<1>2. kind' = kind /\ transport' = transport /\ token' = token /\ held' = held /\ op' = None
  BY DEF Persist, fixed
<1>3. op.base \in States[kind]
  BY <1>1 DEF OperationIs
<1>4. StoredIs(kind, stored')
  BY <1>1, <1>3 DEF Persist, StoredIs
<1> QED BY <1>1, <1>2, <1>4, SectionTypesKept

LEMMA ImportKeeps ==
    ASSUME SectionTypes, NEW s \in Images[kind], Import(s)
    PROVE  SectionTypes'
<1>1. /\ FixedIs(kind, transport, token) /\ HeldIs(kind, held) /\ StoredIs(kind, stored)
      /\ kind \in Kind /\ op = None
  BY SectionTypesAre, HeldBytes DEF Import
<1>2. kind' = kind /\ transport' = transport /\ token' = token /\ held' = held /\ op' = op
  BY DEF Import, fixed
<1>3. s \in States[kind]
  BY <1>1, TargetIs
<1> DEFINE x == IF kind = "dpi" THEN [s EXCEPT !.tail = Evidence.tail] ELSE s
<1>4. x \in States[kind]
  <2>1. CASE kind = "dpi"
    <3> DEFINE e == Evidence
               m == [s EXCEPT !.tail = e.tail]
    <3>1. e \in States["dpi"]
      <4>1. e # None
        BY <2>1 DEF Import
      <4> QED BY <1>1, <2>1, <4>1 DEF StoredIs, Evidence
    <3> HIDE DEF e, Dpi, Bit, Byte, StageIndex
    <3>2. e.tail \in [1..WatermarkLength -> Byte]
      BY <3>1 DEF States
    <3>3. /\ s \in [profile : {Target}, stages : Seq(Dpi), active : StageIndex,
                    sensor : [lift : Bit, ripple : Bit, snap : Bit, sync : Bit],
                    tail : [1..WatermarkLength -> Byte]]
          /\ ValidSelection(s.stages, s.active)
      BY <1>3, <2>1 DEF States
    <3>4. /\ m \in [profile : {Target}, stages : Seq(Dpi), active : StageIndex,
                    sensor : [lift : Bit, ripple : Bit, snap : Bit, sync : Bit],
                    tail : [1..WatermarkLength -> Byte]]
          /\ ValidSelection(m.stages, m.active)
      BY <3>2, <3>3
    <3> HIDE DEF m
    <3>5. m \in States["dpi"]
      BY <3>4 DEF States
    <3> QED BY <2>1, <3>5 DEF m, e
  <2>2. CASE kind # "dpi"
    BY <1>3, <2>2
  <2> QED BY <2>1, <2>2
<1>5. stored' = [stored EXCEPT !.desired = x]
  BY DEF Import
<1> HIDE DEF x
<1>6. StoredIs(kind, stored')
  BY <1>1, <1>4, <1>5 DEF StoredIs
<1>7. op' = None
  BY <1>1, <1>2
<1> QED BY <1>1, <1>2, <1>6, <1>7, SectionTypesKept

LEMMA TouchKeeps ==
    ASSUME SectionTypes, NEW s \in Images[kind], Touch(s)
    PROVE  SectionTypes'
<1>1. /\ FixedIs(kind, transport, token) /\ StoredIs(kind, stored) /\ kind \in Kind
      /\ (op # None => OperationIs(kind, transport, op))
  BY SectionTypesAre, HeldBytes
<1>2. kind' = kind /\ transport' = transport /\ token' = token /\ stored' = stored /\ op' = op
  BY DEF Touch, fixed
<1>3. s \in States[kind] /\ held' = Encode(s)
  BY <1>1, TargetIs DEF Touch
<1>4. HeldIs(kind, held')
  BY <1>3, EncodeSame DEF HeldIs
<1> QED BY <1>1, <1>2, <1>4, SectionTypesKept

LEMMA SectionStep == SectionTypes /\ [SectionNext]_sectionVars => SectionTypes'
<1> SUFFICES ASSUME SectionTypes, [SectionNext]_sectionVars PROVE SectionTypes'
  OBVIOUS
<1>1. CASE BeginRead
  BY <1>1, BeginReadKeeps
<1>2. ASSUME NEW policy \in Policies(transport), NEW s \in Images[kind], BeginFull(s, policy)
      PROVE  SectionTypes'
  BY <1>2, BeginFullKeeps
<1>3. ASSUME NEW policy \in Policies(transport), NEW d \in Deltas[kind], BeginLive(d, policy)
      PROVE  SectionTypes'
  BY <1>3, BeginLiveKeeps
<1>4. ASSUME NEW policy \in Policies(transport), NEW d \in Deltas[kind], BeginStored(d, policy)
      PROVE  SectionTypes'
  BY <1>4, BeginStoredKeeps
<1>5. CASE ReadSection
  BY <1>5, ReadSectionKeeps
<1>6. CASE WriteSection
  BY <1>6, WriteSectionKeeps
<1>7. CASE VerifyWrite
  BY <1>7, VerifyWriteKeeps
<1>8. CASE Persist
  BY <1>8, PersistKeeps
<1>9. ASSUME NEW s \in Images[kind], Import(s) PROVE SectionTypes'
  BY <1>9, ImportKeeps
<1>10. ASSUME NEW s \in Images[kind], Touch(s) PROVE SectionTypes'
  BY <1>10, TouchKeeps
<1>11. CASE UNCHANGED sectionVars
  <2>1. UNCHANGED <<fixed, held, stored>> /\ op' = op
    BY <1>11 DEF sectionVars, fixed
  <2> QED BY <2>1, SectionTypesAre, OperationMoves
<1> QED
  BY <1>1, <1>2, <1>3, <1>4, <1>5, <1>6, <1>7, <1>8, <1>9, <1>10, <1>11, Zenon DEF SectionNext

-----------------------------------------------------------------------------

\* Every value a section operation keeps is one the driver can encode, and the
\* mouse holds the image of one.
THEOREM SectionInvariance == SectionSpec => []SectionTypes
BY SectionTypesInit, SectionStep, PTL DEF SectionSpec

\* Every section the driver leaves on the mouse can be read again.
THEOREM SectionsStayReadable == SectionSpec => []StaysReadable
<1>1. SectionTypes => StaysReadable
  <2> SUFFICES ASSUME SectionTypes, NEW t \in Transport \ {"Ble"}
               PROVE  Decode(kind, Publish(kind, held, t), t, Target) # None
    BY DEF StaysReadable
  <2>1. kind \in Kind
    BY HeldBytes
  <2>2. PICK s \in States[kind] : held = EncodeOf(kind, s)
    BY SectionTypesAre DEF HeldIs
  <2>3. Decode(kind, Publish(kind, held, t), t, Target) = s
    BY <2>1, <2>2, RoundTrip
  <2> QED BY <2>1, <2>3, TargetIs
<1> QED BY <1>1, SectionInvariance, PTL

\* What a read returns is what the mouse held.
THEOREM ReadsAreExact == SectionSpec => ReadIsExact
<1>1. ASSUME SectionTypes, [SectionNext]_sectionVars,
             NEW next \in {"persist", "write"},
             op # None, op.phase \in {"read", "verify"}, op' # None, op'.phase = next
      PROVE  Encode(op'.base) = held
  <2>0. transport # "Ble" /\ OperationIs(kind, transport, op)
    BY <1>1, OffBluetooth, SectionTypesAre
  <2>1. CASE ReadSection
    <3>1. op.phase = "read"
      BY <2>1 DEF ReadSection
    <3>2. PICK v \in Readings :
             Attempt(v, [op EXCEPT !.phase = IF op.call = "read" THEN "persist" ELSE "write",
                                   !.base = v, !.was = held, !.tries = MaxAttempts])
      BY <2>1 DEF ReadSection
    <3>3. CASE v # None
      <4>1. op'.base = v
        BY <2>0, <3>2, <3>3 DEF Attempt, OperationIs
      <4> QED BY <1>1, <2>0, <3>3, <4>1, ReadingIs
    <3>4. CASE v = None
      <4>1. op' = [op EXCEPT !.tries = @ - 1]
        BY <1>1, <3>2, <3>4 DEF Attempt
      <4>2. op'.phase = "read"
        BY <2>0, <3>1, <4>1 DEF OperationIs
      <4> QED BY <1>1, <4>2
    <3> QED BY <3>3, <3>4
  <2>2. CASE VerifyWrite
    <3>1. op.phase = "verify"
      BY <2>2 DEF VerifyWrite
    <3>2. PICK v \in Readings : Attempt(v, IF v = op.base THEN [op EXCEPT !.phase = "persist"] ELSE None)
      BY <2>2 DEF VerifyWrite
    <3>3. CASE v # None
      <4>1. v = op.base /\ op' = [op EXCEPT !.phase = "persist"]
        BY <1>1, <3>2, <3>3 DEF Attempt
      <4>2. op'.base = v
        BY <2>0, <4>1 DEF OperationIs
      <4> QED BY <1>1, <2>0, <3>3, <4>2, ReadingIs
    <3>4. CASE v = None
      <4>1. op' = [op EXCEPT !.tries = @ - 1]
        BY <1>1, <3>2, <3>4 DEF Attempt
      <4>2. op'.phase = "verify"
        BY <2>0, <3>1, <4>1 DEF OperationIs
      <4> QED BY <1>1, <4>2
    <3> QED BY <3>3, <3>4
  <2>3. op' = op => FALSE
    BY <1>1
  <2>4. CASE UNCHANGED sectionVars
    BY <2>3, <2>4 DEF sectionVars
  <2>5. ASSUME NEW s \in Images[kind], Import(s) \/ Touch(s) PROVE FALSE
    BY <2>3, <2>5 DEF Import, Touch
  <2>6. CASE Persist \/ WriteSection
    BY <1>1, <2>6 DEF Persist, WriteSection
  <2>7. \A what, policy, phase, base, delta : ~Start(what, policy, phase, base, delta)
    BY <1>1 DEF Start
  <2>8. CASE BeginRead
    BY <2>7, <2>8 DEF BeginRead
  <2>9. ASSUME NEW policy, NEW s, BeginFull(s, policy) PROVE FALSE
    BY <2>7, <2>9 DEF BeginFull
  <2>10. ASSUME NEW policy, NEW d, BeginLive(d, policy) \/ BeginStored(d, policy) PROVE FALSE
    BY <2>7, <2>10 DEF BeginLive, BeginStored
  <2> QED
    BY <1>1, <2>1, <2>2, <2>4, <2>5, <2>6, <2>8, <2>9, <2>10, Zenon DEF SectionNext
<1>2. SectionTypes /\ [SectionNext]_sectionVars
        => [\A next \in {"persist", "write"} :
              op # None /\ op.phase \in {"read", "verify"} /\ op' # None /\ op'.phase = next
                  => Encode(op'.base) = held]_sectionVars
  BY <1>1
<1> QED BY <1>2, SectionInvariance, PTL DEF SectionSpec, ReadIsExact

-----------------------------------------------------------------------------
(* What a partial update changes. *)

\* Byte i of a sealed image.
LEMMA SealedBytes ==
    ASSUME NEW k \in Sectional, NEW body \in Seq(Byte), Len(body) = Layout[k].sum - 3,
           NEW h, h = Sealed(k, Target, body)
    PROVE  /\ h \in Seq(Byte) /\ Len(h) = Layout[k].compact
           /\ \A i \in 3..(Layout[k].sum - 1) : At(h, i) = body[i - 2]
<1> DEFINE s == Layout[k].sum
<1>1. /\ h \in Seq(Byte) /\ Len(h) = Layout[k].compact
      /\ \A i \in 1..(s - 3) : h[3 + i] = body[i]
  BY TargetIs, SealedIs
<1>2. s \in Nat /\ s > 3
  BY LayoutIs
<1> HIDE DEF s
<1>3. ASSUME NEW i \in 3..(s - 1) PROVE h[i + 1] = body[i - 2]
  <2>1. i - 2 \in 1..(s - 3) /\ 3 + (i - 2) = i + 1
    BY <1>2
  <2> QED BY <1>1, <2>1
<1> QED BY <1>1, <1>3 DEF At, s

LEMMA DpiImage ==
    ASSUME NEW s \in States["dpi"]
    PROVE  LET p == EncodeDpi(s)
           IN  /\ p \in Seq(Byte) /\ Len(p) = 52
               /\ At(p, 3) = s.sensor.lift /\ At(p, 4) = s.sensor.ripple
               /\ At(p, 5) = StageMask(Len(s.stages))
               /\ At(p, 6) = s.sensor.snap /\ At(p, 7) = s.sensor.sync
               /\ \A i \in 0..7 : /\ At(p, 8 + i) = RawStage(s.stages, i) % 256
                                  /\ At(p, 16 + i) = RawStage(s.stages, i) \div 256
               /\ At(p, 24) = s.active
               /\ \A i \in 25..49 : At(p, i) = s.tail[i - 24]
<1> DEFINE p == EncodeDpi(s)
           body == DpiBody(s)
<1>1. /\ body \in Seq(Byte) /\ Len(body) = 47
      /\ body[1] = s.sensor.lift /\ body[2] = s.sensor.ripple
      /\ body[3] = StageMask(Len(s.stages))
      /\ body[4] = s.sensor.snap /\ body[5] = s.sensor.sync
      /\ \A i \in 1..8 : /\ body[5 + i] = RawStage(s.stages, i - 1) % 256
                         /\ body[13 + i] = RawStage(s.stages, i - 1) \div 256
      /\ body[22] = s.active /\ \A i \in 1..25 : body[22 + i] = s.tail[i]
  BY DpiBytes
<1>2. p = Sealed("dpi", Target, body)
  <2>1. "Wired" \in Transport /\ None \notin States["dpi"]
    BY TargetIs DEF Transport, Kind
  <2> QED BY <2>1, TargetIs, DpiFrame
<1>3. "dpi" \in Sectional /\ Layout["dpi"].sum = 50 /\ Layout["dpi"].compact = 52
  BY DEF Sectional, Layout
<1> HIDE DEF p, body
<1>4. p \in Seq(Byte) /\ Len(p) = 52 /\ \A i \in 3..49 : At(p, i) = body[i - 2]
  <2>1. body \in Seq(Byte) /\ Len(body) = Layout["dpi"].sum - 3 /\ "dpi" \in Sectional
    BY <1>1, <1>3
  <2>2. /\ p \in Seq(Byte) /\ Len(p) = Layout["dpi"].compact
        /\ \A i \in 3..(Layout["dpi"].sum - 1) : At(p, i) = body[i - 2]
    BY <1>2, <2>1, SealedBytes
  <2> QED BY <1>3, <2>2
<1>5. /\ At(p, 3) = body[1] /\ At(p, 4) = body[2] /\ At(p, 5) = body[3] /\ At(p, 6) = body[4]
      /\ At(p, 7) = body[5] /\ At(p, 24) = body[22]
  BY <1>4
<1>6. ASSUME NEW i \in 0..7
      PROVE  /\ At(p, 8 + i) = RawStage(s.stages, i) % 256
             /\ At(p, 16 + i) = RawStage(s.stages, i) \div 256
  <2>1. /\ i + 1 \in 1..8 /\ 5 + (i + 1) = (8 + i) - 2 /\ 13 + (i + 1) = (16 + i) - 2 /\ (i + 1) - 1 = i
        /\ 8 + i \in 3..49 /\ 16 + i \in 3..49
    OBVIOUS
  <2>2. At(p, 8 + i) = body[(8 + i) - 2] /\ At(p, 16 + i) = body[(16 + i) - 2]
    BY <1>4, <2>1
  <2>3. /\ body[5 + (i + 1)] = RawStage(s.stages, (i + 1) - 1) % 256
        /\ body[13 + (i + 1)] = RawStage(s.stages, (i + 1) - 1) \div 256
    BY <1>1, <2>1
  <2> QED BY <2>1, <2>2, <2>3
<1>7. ASSUME NEW i \in 25..49 PROVE At(p, i) = s.tail[i - 24]
  <2>1. i - 24 \in 1..25 /\ 22 + (i - 24) = i - 2 /\ i \in 3..49
    OBVIOUS
  <2>2. At(p, i) = body[i - 2]
    BY <1>4, <2>1
  <2>3. body[22 + (i - 24)] = s.tail[i - 24]
    BY <1>1, <2>1
  <2> QED BY <2>1, <2>2, <2>3
<1> QED BY <1>1, <1>4, <1>5, <1>6, <1>7 DEF p

LEMMA PreferencesImage ==
    ASSUME NEW s \in States["preferences"]
    PROVE  LET p == EncodePreferences(s)
           IN  /\ p \in Seq(Byte) /\ Len(p) = 13
               /\ At(p, 3) = s.light /\ At(p, 4) = s.configuration /\ At(p, 5) = s.deepSleep
               /\ At(p, 6) = s.color[1] /\ At(p, 7) = s.color[2] /\ At(p, 8) = s.color[3]
               /\ At(p, 9) = s.sleep /\ At(p, 10) = s.debounce
<1> DEFINE p == EncodePreferences(s)
           body == PreferenceBody(s)
           a == <<s.light, s.configuration, s.deepSleep>>
           c == <<s.sleep, s.debounce>>
<1>1. Joined3(body, a, 3, s.color, 3, c, 2) /\ s.profile = Target
  BY PreferenceBodyIs
<1>2. p = Sealed("preferences", Target, body)
  BY <1>1 DEF EncodePreferences, PreferenceBody
<1>3. "preferences" \in Sectional /\ Layout["preferences"].sum = 11 /\ Layout["preferences"].compact = 13
  BY DEF Sectional, Layout
<1>4. a[1] = s.light /\ a[2] = s.configuration /\ a[3] = s.deepSleep /\ c[1] = s.sleep /\ c[2] = s.debounce
  OBVIOUS
<1> HIDE DEF p, body, a, c
<1>5. /\ body \in Seq(Byte) /\ Len(body) = 8
      /\ body[1] = a[1] /\ body[2] = a[2] /\ body[3] = a[3]
      /\ body[4] = s.color[1] /\ body[5] = s.color[2] /\ body[6] = s.color[3]
      /\ body[7] = c[1] /\ body[8] = c[2]
  BY <1>1 DEF Joined3
<1>6. p \in Seq(Byte) /\ Len(p) = 13 /\ \A i \in 3..10 : At(p, i) = body[i - 2]
  <2>1. body \in Seq(Byte) /\ Len(body) = Layout["preferences"].sum - 3 /\ "preferences" \in Sectional
    BY <1>3, <1>5
  <2>2. /\ p \in Seq(Byte) /\ Len(p) = Layout["preferences"].compact
        /\ \A i \in 3..(Layout["preferences"].sum - 1) : At(p, i) = body[i - 2]
    BY <1>2, <2>1, SealedBytes
  <2> QED BY <1>3, <2>2
<1>7. /\ At(p, 3) = body[1] /\ At(p, 4) = body[2] /\ At(p, 5) = body[3] /\ At(p, 6) = body[4]
      /\ At(p, 7) = body[5] /\ At(p, 8) = body[6] /\ At(p, 9) = body[7] /\ At(p, 10) = body[8]
  BY <1>6
<1> QED BY <1>4, <1>5, <1>6, <1>7 DEF p

LEMMA ButtonsImage ==
    ASSUME NEW s \in States["buttons"]
    PROVE  LET p == EncodeButtons(s)
           IN  /\ p \in Seq(Byte) /\ Len(p) = 59
               /\ \A i \in 0..17 : /\ At(p, 3 + 3 * i) = s.slots[i][1]
                                   /\ At(p, 4 + 3 * i) = s.slots[i][2]
                                   /\ At(p, 5 + 3 * i) = s.slots[i][3]
<1> DEFINE p == EncodeButtons(s)
           body == ButtonBody(s)
<1>1. body \in Seq(Byte) /\ Len(body) = 54 /\ s.profile = Target
  BY ButtonBodyIs
<1>slots. \A i \in 0..17 : \A j \in 1..3 : body[3 * i + j] = s.slots[i][j]
  BY ButtonBodyIs
<1>2. p = Sealed("buttons", Target, body)
  BY <1>1 DEF EncodeButtons, ButtonBody
<1>3. "buttons" \in Sectional /\ Layout["buttons"].sum = 57 /\ Layout["buttons"].compact = 59
  BY DEF Sectional, Layout
<1> HIDE DEF p, body
<1>4. p \in Seq(Byte) /\ Len(p) = 59 /\ \A i \in 3..56 : At(p, i) = body[i - 2]
  <2>1. body \in Seq(Byte) /\ Len(body) = Layout["buttons"].sum - 3 /\ "buttons" \in Sectional
    BY <1>1, <1>3
  <2>2. /\ p \in Seq(Byte) /\ Len(p) = Layout["buttons"].compact
        /\ \A i \in 3..(Layout["buttons"].sum - 1) : At(p, i) = body[i - 2]
    BY <1>2, <2>1, SealedBytes
  <2> QED BY <1>3, <2>2
<1>5. ASSUME NEW i \in 0..17, NEW j \in 1..3 PROVE At(p, 2 + j + 3 * i) = s.slots[i][j]
  <2>1. 2 + j + 3 * i \in 3..56 /\ (2 + j + 3 * i) - 2 = 3 * i + j
    OBVIOUS
  <2>2. At(p, 2 + j + 3 * i) = body[(2 + j + 3 * i) - 2]
    BY <1>4, <2>1
  <2>3. body[3 * i + j] = s.slots[i][j]
    BY <1>slots, Zenon
  <2> QED BY <2>1, <2>2, <2>3
<1>6. ASSUME NEW i \in 0..17
      PROVE  /\ At(p, 3 + 3 * i) = s.slots[i][1] /\ At(p, 4 + 3 * i) = s.slots[i][2]
             /\ At(p, 5 + 3 * i) = s.slots[i][3]
  <2>1. 2 + 1 + 3 * i = 3 + 3 * i /\ 2 + 2 + 3 * i = 4 + 3 * i /\ 2 + 3 + 3 * i = 5 + 3 * i
    OBVIOUS
  <2>2. 1 \in 1..3 /\ 2 \in 1..3 /\ 3 \in 1..3
    OBVIOUS
  <2> QED BY <1>5, <2>1, <2>2
<1> QED BY <1>4, <1>6 DEF p

\* Image p has the fields that d names, and otherwise the bytes of image q, but
\* for those of the mark.
ExactUpdate(k, p, q, d, mark) ==
    LET named == UNION {FieldBytes[f] : f \in DOMAIN d}
    IN  /\ \A f \in DOMAIN d : Means(p, f, d[f])
        /\ \A i \in 3..(Layout[k].sum - 1) : i \in named \cup mark \/ At(p, i) = At(q, i)

\* The two bytes of a stage give it back.
LEMMA StageMeans ==
    ASSUME NEW stages \in Seq(Dpi), NEW i \in 0..7, i < Len(stages), NEW low, NEW high,
           low = RawStage(stages, i) % 256, high = RawStage(stages, i) \div 256
    PROVE  50 * (low + 256 * high + 1) = stages[i + 1]
<1> DEFINE r == RawStage(stages, i)
<1>1. r \in Nat /\ 50 * (r + 1) = stages[i + 1]
  BY RawStageIs
<1>2. low = r % 256 /\ high = r \div 256
  OBVIOUS
<1> HIDE DEF r
<1>3. (r % 256) + 256 * (r \div 256) = r
  BY <1>1
<1> QED BY <1>1, <1>2, <1>3

\* The meaning of a field by its name.
LEMMA StagesMean ==
    ASSUME NEW p, NEW v, At(p, 5) = StageMask(Len(v)),
           \A i \in 0..(Len(v) - 1) : 50 * (At(p, 8 + i) + 256 * At(p, 16 + i) + 1) = v[i + 1]
    PROVE  Means(p, "stages", v)
<1>1. At(p, 5) = 2^Len(v) - 1
  BY DEF StageMask
<1>2. "stages" \notin DOMAIN SlotIndex
  BY DEF SlotIndex
<1> QED BY <1>1, <1>2, Zenon DEF Means

LEMMA ColorMeans ==
    ASSUME NEW p, NEW v, Slice(p, 6, 9) = v
    PROVE  Means(p, "color", v)
<1>1. "color" \notin DOMAIN SlotIndex
  BY DEF SlotIndex
<1> QED BY <1>1, Zenon DEF Means

LEMMA DpiExact ==
    ASSUME NEW b \in States["dpi"], NEW w \in States["dpi"], NEW d \in Deltas["dpi"],
           w.stages = Pick(d, "stages", b.stages), w.active = Pick(d, "active", b.active),
           w.sensor.lift = Pick(d, "lift", b.sensor.lift),
           w.sensor.ripple = Pick(d, "ripple", b.sensor.ripple),
           w.sensor.snap = Pick(d, "snap", b.sensor.snap),
           w.sensor.sync = Pick(d, "sync", b.sensor.sync),
           NEW mark, mark = {} => w.tail = b.tail, mark = {} \/ mark = 25..49
    PROVE  ExactUpdate("dpi", EncodeDpi(w), EncodeDpi(b), d, mark)
<1> DEFINE p == EncodeDpi(w)
           q == EncodeDpi(b)
           named == UNION {FieldBytes[f] : f \in DOMAIN d}
<1>1. /\ At(p, 3) = w.sensor.lift /\ At(p, 4) = w.sensor.ripple
      /\ At(p, 5) = StageMask(Len(w.stages))
      /\ At(p, 6) = w.sensor.snap /\ At(p, 7) = w.sensor.sync
      /\ \A i \in 0..7 : /\ At(p, 8 + i) = RawStage(w.stages, i) % 256
                         /\ At(p, 16 + i) = RawStage(w.stages, i) \div 256
      /\ At(p, 24) = w.active
      /\ \A i \in 25..49 : At(p, i) = w.tail[i - 24]
  BY DpiImage
<1>2. /\ At(q, 3) = b.sensor.lift /\ At(q, 4) = b.sensor.ripple
      /\ At(q, 5) = StageMask(Len(b.stages))
      /\ At(q, 6) = b.sensor.snap /\ At(q, 7) = b.sensor.sync
      /\ \A i \in 0..7 : /\ At(q, 8 + i) = RawStage(b.stages, i) % 256
                         /\ At(q, 16 + i) = RawStage(b.stages, i) \div 256
      /\ At(q, 24) = b.active
      /\ \A i \in 25..49 : At(q, i) = b.tail[i - 24]
  BY DpiImage
<1> HIDE DEF p, q
<1>3. DOMAIN d \subseteq {"stages", "active", "lift", "ripple", "snap", "sync"}
  BY DpiDeltaIs
<1>4. /\ FieldBytes["stages"] = {5} \cup 8..23 /\ FieldBytes["active"] = {24}
      /\ FieldBytes["lift"] = {3} /\ FieldBytes["ripple"] = {4}
      /\ FieldBytes["snap"] = {6} /\ FieldBytes["sync"] = {7}
  BY DEF FieldBytes
<1>5. w.stages \in Seq(Dpi) /\ Len(w.stages) \in 1..8
  BY DpiStateIs
<1>6. ASSUME NEW f \in DOMAIN d PROVE Means(p, f, d[f])
  <2>1. CASE f = "stages"
    <3> DEFINE v == d["stages"]
    <3>1. w.stages = v
      BY <2>1 DEF Pick
    <3>2. At(p, 5) = StageMask(Len(v))
      BY <1>1, <3>1
    <3>3. ASSUME NEW i \in 0..(Len(v) - 1)
          PROVE  50 * (At(p, 8 + i) + 256 * At(p, 16 + i) + 1) = v[i + 1]
      <4>1. v \in Seq(Dpi) /\ Len(v) \in 1..8
        BY <1>5, <3>1
      <4>2. i \in 0..7 /\ i < Len(v)
        <5> DEFINE n == Len(v)
        <5>1. n \in 1..8 /\ i \in 0..(n - 1)
          BY <4>1
        <5> HIDE DEF n
        <5>2. i \in 0..7 /\ i < n
          BY <5>1
        <5> QED BY <5>2 DEF n
      <4>4. /\ At(p, 8 + i) = RawStage(w.stages, i) % 256
            /\ At(p, 16 + i) = RawStage(w.stages, i) \div 256
        BY <1>1, <4>2, Zenon
      <4>3. At(p, 8 + i) = RawStage(v, i) % 256 /\ At(p, 16 + i) = RawStage(v, i) \div 256
        BY <3>1, <4>4, Zenon
      <4> HIDE DEF v
      <4> QED BY <4>1, <4>2, <4>3, StageMeans
    <3> HIDE DEF v
    <3>4. Means(p, "stages", v)
      BY <3>2, <3>3, StagesMean
    <3> QED BY <2>1, <3>4 DEF v
  <2>2. CASE f = "active"
    <3>1. At(p, 24) = d[f]
      BY <1>1, <2>2 DEF Pick
    <3> QED BY <1>4, <2>2, <3>1 DEF Means, SlotIndex
  <2>3. CASE f = "lift"
    <3>1. At(p, 3) = d[f]
      BY <1>1, <2>3 DEF Pick
    <3> QED BY <1>4, <2>3, <3>1 DEF Means, SlotIndex
  <2>4. CASE f = "ripple"
    <3>1. At(p, 4) = d[f]
      BY <1>1, <2>4 DEF Pick
    <3> QED BY <1>4, <2>4, <3>1 DEF Means, SlotIndex
  <2>5. CASE f = "snap"
    <3>1. At(p, 6) = d[f]
      BY <1>1, <2>5 DEF Pick
    <3> QED BY <1>4, <2>5, <3>1 DEF Means, SlotIndex
  <2>6. CASE f = "sync"
    <3>1. At(p, 7) = d[f]
      BY <1>1, <2>6 DEF Pick
    <3> QED BY <1>4, <2>6, <3>1 DEF Means, SlotIndex
  <2> QED BY <1>3, <2>1, <2>2, <2>3, <2>4, <2>5, <2>6
<1>7. ASSUME NEW i \in 3..49 PROVE i \in named \cup mark \/ At(p, i) = At(q, i)
  <2>1. \A f \in DOMAIN d : \A j \in FieldBytes[f] : j \in named
    OBVIOUS
  <2> HIDE DEF named
  <2>2. CASE i \in {5} \cup 8..23
    <3>1. CASE "stages" \in DOMAIN d
      BY <1>4, <2>1, <2>2, <3>1
    <3>2. CASE "stages" \notin DOMAIN d
      <4>1. w.stages = b.stages
        BY <3>2 DEF Pick
      <4>2. CASE i = 5
        BY <1>1, <1>2, <4>1, <4>2
      <4>3. CASE i \in 8..15
        <5>1. i - 8 \in 0..7 /\ 8 + (i - 8) = i
          BY <4>3
        <5>2. ASSUME NEW j \in 0..7 PROVE At(p, 8 + j) = At(q, 8 + j)
          <6>1. At(p, 8 + j) = RawStage(w.stages, j) % 256
            BY <1>1, Zenon
          <6>2. At(q, 8 + j) = RawStage(b.stages, j) % 256
            BY <1>2, Zenon
          <6> QED BY <4>1, <6>1, <6>2, Zenon
        <5>3. At(p, 8 + (i - 8)) = At(q, 8 + (i - 8))
          BY <5>1, <5>2
        <5> QED BY <5>1, <5>3
      <4>4. CASE i \in 16..23
        <5>1. i - 16 \in 0..7 /\ 16 + (i - 16) = i
          BY <4>4
        <5>2. ASSUME NEW j \in 0..7 PROVE At(p, 16 + j) = At(q, 16 + j)
          <6>1. At(p, 16 + j) = RawStage(w.stages, j) \div 256
            BY <1>1, Zenon
          <6>2. At(q, 16 + j) = RawStage(b.stages, j) \div 256
            BY <1>2, Zenon
          <6> QED BY <4>1, <6>1, <6>2, Zenon
        <5>3. At(p, 16 + (i - 16)) = At(q, 16 + (i - 16))
          BY <5>1, <5>2
        <5> QED BY <5>1, <5>3
      <4>5. i = 5 \/ i \in 8..15 \/ i \in 16..23
        BY <2>2
      <4> QED BY <4>2, <4>3, <4>4, <4>5
    <3> QED BY <3>1, <3>2
  <2>3. CASE i \in {3, 4, 6, 7, 24}
    <3>1. i = 3 => i \in named \/ At(p, i) = At(q, i)
      BY <1>1, <1>2, <1>4, <2>1 DEF Pick
    <3>2. i = 4 => i \in named \/ At(p, i) = At(q, i)
      BY <1>1, <1>2, <1>4, <2>1 DEF Pick
    <3>3. i = 6 => i \in named \/ At(p, i) = At(q, i)
      BY <1>1, <1>2, <1>4, <2>1 DEF Pick
    <3>4. i = 7 => i \in named \/ At(p, i) = At(q, i)
      BY <1>1, <1>2, <1>4, <2>1 DEF Pick
    <3>5. i = 24 => i \in named \/ At(p, i) = At(q, i)
      BY <1>1, <1>2, <1>4, <2>1 DEF Pick
    <3> QED BY <2>3, <3>1, <3>2, <3>3, <3>4, <3>5
  <2>4. CASE i \in 25..49
    <3>1. CASE mark = {}
      <4>1. At(p, i) = w.tail[i - 24]
        BY <1>1, <2>4
      <4>2. At(q, i) = b.tail[i - 24]
        BY <1>2, <2>4
      <4>3. w.tail = b.tail
        BY <3>1
      <4> QED BY <4>1, <4>2, <4>3
    <3>2. CASE mark = 25..49
      BY <2>4, <3>2
    <3> QED BY <3>1, <3>2
  <2>5. i \in {5} \cup 8..23 \/ i \in {3, 4, 6, 7, 24} \/ i \in 25..49
    OBVIOUS
  <2> QED BY <2>2, <2>3, <2>4, <2>5
<1>8. Layout["dpi"].sum - 1 = 49
  BY DEF Layout
<1> HIDE DEF named
<1> QED BY <1>6, <1>7, <1>8 DEF ExactUpdate, p, q, named

LEMMA PreferencesExact ==
    ASSUME NEW b \in States["preferences"], NEW d \in Deltas["preferences"]
    PROVE  ExactUpdate("preferences", EncodePreferences(MergePreferences(b, d)), EncodePreferences(b), d, {})
<1> DEFINE w == MergePreferences(b, d)
           p == EncodePreferences(w)
           q == EncodePreferences(b)
           named == UNION {FieldBytes[f] : f \in DOMAIN d}
<1>0. /\ w \in States["preferences"]
      /\ w.light = Pick(d, "light", b.light)
      /\ w.configuration = Pick(d, "configuration", b.configuration)
      /\ w.deepSleep = Pick(d, "deepSleep", b.deepSleep)
      /\ w.color = Pick(d, "color", b.color)
      /\ w.sleep = Pick(d, "sleep", b.sleep)
      /\ w.debounce = Pick(d, "debounce", b.debounce)
  BY MergePreferencesIs
<1> HIDE DEF w
<1>1. /\ p \in Seq(Byte) /\ Len(p) = 13
      /\ At(p, 3) = w.light /\ At(p, 4) = w.configuration /\ At(p, 5) = w.deepSleep
      /\ At(p, 6) = w.color[1] /\ At(p, 7) = w.color[2] /\ At(p, 8) = w.color[3]
      /\ At(p, 9) = w.sleep /\ At(p, 10) = w.debounce
  BY <1>0, PreferencesImage
<1>2. /\ At(q, 3) = b.light /\ At(q, 4) = b.configuration /\ At(q, 5) = b.deepSleep
      /\ At(q, 6) = b.color[1] /\ At(q, 7) = b.color[2] /\ At(q, 8) = b.color[3]
      /\ At(q, 9) = b.sleep /\ At(q, 10) = b.debounce
  BY PreferencesImage
<1> HIDE DEF p, q
<1>3. DOMAIN d \subseteq PreferenceField
  BY PreferencesDeltaIs
<1>4. /\ FieldBytes["light"] = {3} /\ FieldBytes["configuration"] = {4}
      /\ FieldBytes["deepSleep"] = {5} /\ FieldBytes["color"] = 6..8
      /\ FieldBytes["sleep"] = {9} /\ FieldBytes["debounce"] = {10}
  BY DEF FieldBytes
<1>5. w.color \in Seq(Byte) /\ Len(w.color) = 3
  BY <1>0, PreferenceBodyIs
<1>6. ASSUME NEW f \in DOMAIN d PROVE Means(p, f, d[f])
  <2>1. CASE f = "color"
    <3> DEFINE c == Slice(p, 6, 9)
    <3>1. c \in Seq(Byte) /\ Len(c) = 3 /\ \A i \in 1..3 : c[i] = p[6 + i]
      <4>1. 6 \in Nat /\ 9 \in Nat /\ 6 =< 9 /\ 9 =< Len(p) /\ 9 - 6 = 3
        BY <1>1
      <4>2. c \in Seq(Byte) /\ Len(c) = 9 - 6 /\ \A i \in 1..(9 - 6) : c[i] = p[6 + i]
        BY <1>1, <4>1, SliceIs
      <4> HIDE DEF c
      <4> QED BY <4>1, <4>2
    <3> HIDE DEF c
    <3>2. c[1] = p[7] /\ c[2] = p[8] /\ c[3] = p[9]
      BY <3>1
    <3>3. p[7] = w.color[1] /\ p[8] = w.color[2] /\ p[9] = w.color[3]
      BY <1>1 DEF At
    <3>4. 3 \in Nat /\ \A i \in 1..3 : c[i] = w.color[i]
      BY <3>2, <3>3
    <3>5. c = w.color
      BY <1>5, <3>1, <3>4, SameBytes
    <3>6. w.color = d[f]
      BY <1>0, <2>1 DEF Pick
    <3>7. Slice(p, 6, 9) = d[f]
      BY <3>5, <3>6 DEF c
    <3>8. Means(p, "color", d[f])
      BY <3>7, ColorMeans
    <3> QED BY <2>1, <3>8
  <2>2. CASE f = "light"
    <3>1. At(p, 3) = d[f]
      BY <1>0, <1>1, <2>2 DEF Pick
    <3> QED BY <1>4, <2>2, <3>1 DEF Means, SlotIndex
  <2>3. CASE f = "configuration"
    <3>1. At(p, 4) = d[f]
      BY <1>0, <1>1, <2>3 DEF Pick
    <3> QED BY <1>4, <2>3, <3>1 DEF Means, SlotIndex
  <2>4. CASE f = "deepSleep"
    <3>1. At(p, 5) = d[f]
      BY <1>0, <1>1, <2>4 DEF Pick
    <3> QED BY <1>4, <2>4, <3>1 DEF Means, SlotIndex
  <2>5. CASE f = "sleep"
    <3>1. At(p, 9) = d[f]
      BY <1>0, <1>1, <2>5 DEF Pick
    <3> QED BY <1>4, <2>5, <3>1 DEF Means, SlotIndex
  <2>6. CASE f = "debounce"
    <3>1. At(p, 10) = d[f]
      BY <1>0, <1>1, <2>6 DEF Pick
    <3> QED BY <1>4, <2>6, <3>1 DEF Means, SlotIndex
  <2> QED BY <1>3, <2>1, <2>2, <2>3, <2>4, <2>5, <2>6 DEF PreferenceField
<1>7. ASSUME NEW i \in 3..10 PROVE i \in named \cup {} \/ At(p, i) = At(q, i)
  <2>1. \A f \in DOMAIN d : \A j \in FieldBytes[f] : j \in named
    OBVIOUS
  <2> HIDE DEF named
  <2>2. i = 3 => i \in named \/ At(p, i) = At(q, i)
    BY <1>0, <1>1, <1>2, <1>4, <2>1 DEF Pick
  <2>3. i = 4 => i \in named \/ At(p, i) = At(q, i)
    BY <1>0, <1>1, <1>2, <1>4, <2>1 DEF Pick
  <2>4. i = 5 => i \in named \/ At(p, i) = At(q, i)
    BY <1>0, <1>1, <1>2, <1>4, <2>1 DEF Pick
  <2>5. ASSUME i \in 6..8 PROVE i \in named \/ At(p, i) = At(q, i)
    <3>1. CASE "color" \in DOMAIN d
      BY <1>4, <2>1, <2>5, <3>1
    <3>2. CASE "color" \notin DOMAIN d
      <4>1. w.color = b.color
        BY <1>0, <3>2 DEF Pick
      <4>2. i = 6 \/ i = 7 \/ i = 8
        BY <2>5
      <4> QED BY <1>1, <1>2, <4>1, <4>2
    <3> QED BY <3>1, <3>2
  <2>6. i = 9 => i \in named \/ At(p, i) = At(q, i)
    BY <1>0, <1>1, <1>2, <1>4, <2>1 DEF Pick
  <2>7. i = 10 => i \in named \/ At(p, i) = At(q, i)
    BY <1>0, <1>1, <1>2, <1>4, <2>1 DEF Pick
  <2>8. i = 3 \/ i = 4 \/ i = 5 \/ i \in 6..8 \/ i = 9 \/ i = 10
    OBVIOUS
  <2> QED BY <2>2, <2>3, <2>4, <2>5, <2>6, <2>7, <2>8
<1>8. Layout["preferences"].sum - 1 = 10
  BY DEF Layout
<1> HIDE DEF named
<1> QED BY <1>6, <1>7, <1>8 DEF ExactUpdate, p, q, w, named

\* The decoder names the action that was assigned.
LEMMA ActionsDiffer ==
    ASSUME NEW a \in DOMAIN ActionByte
    PROVE  /\ ActionByte[a] # ShortcutByte /\ a \notin DOMAIN Shortcut
           /\ \A x \in DOMAIN ActionByte : ActionByte[x] = ActionByte[a] => x = a
BY DEF ActionByte, ShortcutByte, Shortcut

LEMMA ShortcutIs ==
    ASSUME NEW a \in DOMAIN Shortcut
    PROVE  \E x \in Nat, y \in Nat : /\ x =< 15 /\ y >= 4 /\ y =< 231
                                     /\ Shortcut[a] = <<x, y>>
BY DEF Shortcut

LEMMA ActionIs ==
    ASSUME NEW a \in DOMAIN Shortcut \cup DOMAIN ActionByte
    PROVE  DecodeAction(ToAssignment(a)) =
             IF a \in DOMAIN ActionByte THEN [action |-> a]
             ELSE [action |-> "KeyboardShortcut", modifiers |-> Shortcut[a][1], key |-> Shortcut[a][2]]
<1>1. CASE a \in DOMAIN ActionByte
  <2> DEFINE slot == <<ActionByte[a], 0, 0>>
             named == {x \in DOMAIN ActionByte : ActionByte[x] = slot[1]}
  <2>1. ToAssignment(a) = slot
    BY <1>1, ActionsDiffer DEF ToAssignment, FirmwareByte
  <2>2. slot[1] = ActionByte[a] /\ slot[2] = 0 /\ slot[3] = 0
    OBVIOUS
  <2> HIDE DEF slot
  <2>3. named = {a}
    <3>1. \A x : x \in named <=> x = a
      BY <1>1, <2>2, ActionsDiffer
    <3> QED BY <3>1
  <2>4. named # {} /\ (CHOOSE x \in named : TRUE) = a
    BY <2>3
  <2>5. DecodeAction(slot) = [action |-> CHOOSE x \in named : TRUE]
    BY <2>2, <2>4 DEF DecodeAction
  <2> QED BY <1>1, <2>1, <2>4, <2>5
<1>2. CASE a \in DOMAIN Shortcut /\ a \notin DOMAIN ActionByte
  <2>1. PICK x \in Nat, y \in Nat : x =< 15 /\ y >= 4 /\ y =< 231 /\ Shortcut[a] = <<x, y>>
    BY <1>2, ShortcutIs
  <2> DEFINE slot == <<ShortcutByte, x, y>>
             named == {z \in DOMAIN ActionByte : ActionByte[z] = slot[1]}
  <2>2. ToAssignment(a) = slot
    <3>1. ShortcutByte \in Byte /\ x \in Byte /\ y \in Byte
      BY <2>1, ByteIs DEF ShortcutByte
    <3>2. <<ShortcutByte>> \o <<x, y>> = <<ShortcutByte, x, y>>
      BY <3>1, Prefixed
    <3> QED BY <1>2, <2>1, <3>2, Zenon DEF ToAssignment, FirmwareByte
  <2>3. slot[1] = ShortcutByte /\ slot[2] = x /\ slot[3] = y
    OBVIOUS
  <2> HIDE DEF slot
  <2>4. named = {}
    BY <2>3, ActionsDiffer
  <2>5. slot[2] \in 0..15 /\ slot[3] \in 4..231
    BY <2>1, <2>3
  <2>6. DecodeAction(slot) = [action |-> "KeyboardShortcut", modifiers |-> slot[2], key |-> slot[3]]
    BY <2>3, <2>4, <2>5, Zenon DEF DecodeAction
  <2>7. Shortcut[a][1] = x /\ Shortcut[a][2] = y
    BY <2>1
  <2> QED BY <1>2, <2>2, <2>3, <2>6, <2>7, Zenon
<1> QED BY <1>1, <1>2

LEMMA SlotMeans ==
    ASSUME NEW p, NEW f \in DOMAIN SlotIndex, NEW a \in DOMAIN Shortcut \cup DOMAIN ActionByte,
           Slice(p, 3 + 3 * SlotIndex[f], 6 + 3 * SlotIndex[f]) = ToAssignment(a)
    PROVE  Means(p, f, a)
<1>1. f # "stages" /\ f # "color"
  BY DEF SlotIndex
<1>2. DecodeAction(Slice(p, 3 + 3 * SlotIndex[f], 6 + 3 * SlotIndex[f])) =
        IF a \in DOMAIN ActionByte THEN [action |-> a]
        ELSE [action |-> "KeyboardShortcut", modifiers |-> Shortcut[a][1], key |-> Shortcut[a][2]]
  BY ActionIs, Zenon
<1> QED BY <1>1, <1>2, Zenon DEF Means

LEMMA SlotBytes ==
    ASSUME NEW f \in DOMAIN SlotIndex
    PROVE  FieldBytes[f] = (3 + 3 * SlotIndex[f])..(5 + 3 * SlotIndex[f])
<1>1. f \in {"Left", "Right", "Middle", "Dpi", "Forward", "Backward"}
  BY DEF SlotIndex
<1>2. /\ SlotIndex["Left"] = 0 /\ SlotIndex["Right"] = 1 /\ SlotIndex["Middle"] = 2
      /\ SlotIndex["Dpi"] = 3 /\ SlotIndex["Forward"] = 6 /\ SlotIndex["Backward"] = 7
  BY DEF SlotIndex
<1>3. /\ FieldBytes["Left"] = 3..5 /\ FieldBytes["Right"] = 6..8 /\ FieldBytes["Middle"] = 9..11
      /\ FieldBytes["Dpi"] = 12..14 /\ FieldBytes["Forward"] = 21..23 /\ FieldBytes["Backward"] = 24..26
  BY DEF FieldBytes
<1>4. CASE f = "Left"
  <2>1. 3 + 3 * SlotIndex[f] = 3 /\ 5 + 3 * SlotIndex[f] = 5
    BY <1>2, <1>4
  <2>2. FieldBytes[f] = 3..5
    BY <1>3, <1>4, Zenon
  <2> QED BY <2>1, <2>2
<1>5. CASE f = "Right"
  <2>1. 3 + 3 * SlotIndex[f] = 6 /\ 5 + 3 * SlotIndex[f] = 8
    BY <1>2, <1>5
  <2>2. FieldBytes[f] = 6..8
    BY <1>3, <1>5, Zenon
  <2> QED BY <2>1, <2>2
<1>6. CASE f = "Middle"
  <2>1. 3 + 3 * SlotIndex[f] = 9 /\ 5 + 3 * SlotIndex[f] = 11
    BY <1>2, <1>6
  <2>2. FieldBytes[f] = 9..11
    BY <1>3, <1>6, Zenon
  <2> QED BY <2>1, <2>2
<1>7. CASE f = "Dpi"
  <2>1. 3 + 3 * SlotIndex[f] = 12 /\ 5 + 3 * SlotIndex[f] = 14
    BY <1>2, <1>7
  <2>2. FieldBytes[f] = 12..14
    BY <1>3, <1>7, Zenon
  <2> QED BY <2>1, <2>2
<1>8. CASE f = "Forward"
  <2>1. 3 + 3 * SlotIndex[f] = 21 /\ 5 + 3 * SlotIndex[f] = 23
    BY <1>2, <1>8
  <2>2. FieldBytes[f] = 21..23
    BY <1>3, <1>8, Zenon
  <2> QED BY <2>1, <2>2
<1>9. CASE f = "Backward"
  <2>1. 3 + 3 * SlotIndex[f] = 24 /\ 5 + 3 * SlotIndex[f] = 26
    BY <1>2, <1>9
  <2>2. FieldBytes[f] = 24..26
    BY <1>3, <1>9, Zenon
  <2> QED BY <2>1, <2>2
<1> QED BY <1>1, <1>4, <1>5, <1>6, <1>7, <1>8, <1>9

\* Byte i of the image stands in one slot.
LEMMA SlotOf ==
    ASSUME NEW i \in 3..56
    PROVE  \E n \in 0..17 : i = 3 + 3 * n \/ i = 4 + 3 * n \/ i = 5 + 3 * n
<1> DEFINE n == (i - 3) \div 3
<1>1. n \in 0..17 /\ (i - 3) = 3 * n + ((i - 3) % 3) /\ (i - 3) % 3 \in {0, 1, 2}
  OBVIOUS
<1> HIDE DEF n
<1>2. i = 3 + 3 * n \/ i = 4 + 3 * n \/ i = 5 + 3 * n
  BY <1>1
<1> QED BY <1>1, <1>2

LEMMA ButtonsExact ==
    ASSUME NEW b \in States["buttons"], NEW d \in Deltas["buttons"]
    PROVE  ExactUpdate("buttons", EncodeButtons(MergeSlot(b, d)), EncodeButtons(b), d, {})
<1> DEFINE w == MergeSlot(b, d)
           p == EncodeButtons(w)
           q == EncodeButtons(b)
           named == UNION {FieldBytes[f] : f \in DOMAIN d}
<1>0. /\ w \in States["buttons"]
      /\ \A s \in DOMAIN d : w.slots[SlotIndex[s]] = ToAssignment(d[s])
      /\ \A i \in 0..17 : (\A s \in DOMAIN d : SlotIndex[s] # i) => w.slots[i] = b.slots[i]
  BY MergeSlotIs
<1> HIDE DEF w
<1>1. /\ p \in Seq(Byte) /\ Len(p) = 59
      /\ \A i \in 0..17 : /\ At(p, 3 + 3 * i) = w.slots[i][1]
                          /\ At(p, 4 + 3 * i) = w.slots[i][2]
                          /\ At(p, 5 + 3 * i) = w.slots[i][3]
  BY <1>0, ButtonsImage
<1>2. \A i \in 0..17 : /\ At(q, 3 + 3 * i) = b.slots[i][1]
                       /\ At(q, 4 + 3 * i) = b.slots[i][2]
                       /\ At(q, 5 + 3 * i) = b.slots[i][3]
  BY ButtonsImage
<1> HIDE DEF p, q
<1>3. \A f \in DOMAIN d : /\ f \in DOMAIN SlotIndex /\ SlotIndex[f] \in 0..17
                          /\ d[f] \in DOMAIN Shortcut \cup DOMAIN ActionByte
  BY ButtonsDeltaIs, SlotsDiffer
<1>4. ASSUME NEW f \in DOMAIN d PROVE Means(p, f, d[f])
  <2> DEFINE n == SlotIndex[f]
             c == Slice(p, 3 + 3 * n, 6 + 3 * n)
             a == ToAssignment(d[f])
  <2>1. n \in 0..17 /\ w.slots[n] = a
    BY <1>0, <1>3
  <2>2. a \in Seq(Byte) /\ Len(a) = 3
    <3>1. a \in [1..3 -> Byte]
      BY <1>3, AssignmentIs
    <3>2. a = [j \in 1..3 |-> a[j]] /\ \A j \in 1..3 : a[j] \in Byte
      BY <3>1
    <3> HIDE DEF a
    <3> QED BY <3>2, BytesOf
  <2>3. f \in DOMAIN SlotIndex /\ d[f] \in DOMAIN Shortcut \cup DOMAIN ActionByte
    BY <1>3
  <2> HIDE DEF n, a
  <2>4. /\ c \in Seq(Byte) /\ Len(c) = 3
        /\ \A i \in 1..3 : c[i] = p[(3 + 3 * n) + i]
    <3> DEFINE from == 3 + 3 * n
               to == 6 + 3 * n
    <3>1. from \in Nat /\ to \in Nat /\ from =< to /\ to =< Len(p) /\ to - from = 3
      BY <1>1, <2>1
    <3> HIDE DEF from, to
    <3>2. /\ Slice(p, from, to) \in Seq(Byte) /\ Len(Slice(p, from, to)) = to - from
          /\ \A i \in 1..(to - from) : Slice(p, from, to)[i] = p[from + i]
      BY <1>1, <3>1, SliceIs
    <3>3. /\ Slice(p, from, to) \in Seq(Byte) /\ Len(Slice(p, from, to)) = 3
          /\ \A i \in 1..3 : Slice(p, from, to)[i] = p[from + i]
      BY <3>1, <3>2
    <3> QED BY <3>3 DEF from, to
  <2> HIDE DEF c
  <2>5. c[1] = p[(3 + 3 * n) + 1] /\ c[2] = p[(3 + 3 * n) + 2] /\ c[3] = p[(3 + 3 * n) + 3]
    BY <2>4
  <2>6. /\ (3 + 3 * n) + 1 = (3 + 3 * n) + 1 /\ (3 + 3 * n) + 2 = (4 + 3 * n) + 1
        /\ (3 + 3 * n) + 3 = (5 + 3 * n) + 1
    BY <2>1
  <2>7. c[1] = At(p, 3 + 3 * n) /\ c[2] = At(p, 4 + 3 * n) /\ c[3] = At(p, 5 + 3 * n)
    BY <2>5, <2>6 DEF At
  <2>8. c[1] = a[1] /\ c[2] = a[2] /\ c[3] = a[3]
    BY <1>1, <2>1, <2>7
  <2>9. 3 \in Nat /\ \A i \in 1..3 : c[i] = a[i]
    BY <2>8
  <2>10. c = a
    BY <2>2, <2>4, <2>9, SameBytes
  <2> QED BY <2>3, <2>10, SlotMeans DEF c, n, a
<1>5. ASSUME NEW i \in 3..56 PROVE i \in named \cup {} \/ At(p, i) = At(q, i)
  <2>1. PICK n \in 0..17 : i = 3 + 3 * n \/ i = 4 + 3 * n \/ i = 5 + 3 * n
    BY SlotOf
  <2>2. CASE \E f \in DOMAIN d : SlotIndex[f] = n
    <3>1. PICK f \in DOMAIN d : SlotIndex[f] = n
      BY <2>2
    <3>2. FieldBytes[f] = (3 + 3 * n)..(5 + 3 * n)
      BY <1>3, <3>1, SlotBytes
    <3>3. i \in (3 + 3 * n)..(5 + 3 * n)
      BY <2>1
    <3>4. i \in FieldBytes[f]
      BY <3>2, <3>3, Zenon
    <3> QED BY <3>4
  <2>3. CASE ~\E f \in DOMAIN d : SlotIndex[f] = n
    <3>1. w.slots[n] = b.slots[n]
      BY <1>0, <2>3
    <3> HIDE DEF named
    <3>2. /\ At(p, 3 + 3 * n) = w.slots[n][1] /\ At(p, 4 + 3 * n) = w.slots[n][2]
          /\ At(p, 5 + 3 * n) = w.slots[n][3]
      BY <1>1, Zenon
    <3>3. /\ At(q, 3 + 3 * n) = b.slots[n][1] /\ At(q, 4 + 3 * n) = b.slots[n][2]
          /\ At(q, 5 + 3 * n) = b.slots[n][3]
      BY <1>2, Zenon
    <3>4. /\ At(p, 3 + 3 * n) = At(q, 3 + 3 * n) /\ At(p, 4 + 3 * n) = At(q, 4 + 3 * n)
          /\ At(p, 5 + 3 * n) = At(q, 5 + 3 * n)
      BY <3>1, <3>2, <3>3, Zenon
    <3> QED BY <2>1, <3>4, Zenon
  <2> QED BY <2>2, <2>3
<1>6. Layout["buttons"].sum - 1 = 56
  BY DEF Layout
<1> HIDE DEF named
<1> QED BY <1>4, <1>5, <1>6 DEF ExactUpdate, p, q, w, named

\* What a write puts on the mouse, against the baseline of the update.
LEMMA WantedExact ==
    ASSUME SectionTypes, WriteSection, op.call = "delta", Wanted # None
    PROVE  LET mark == IF kind = "dpi" /\ token # None THEN 25..49 ELSE {}
           IN  /\ ExactUpdate(kind, Encode(Wanted), Encode(op.base), op.delta, mark)
               /\ mark # {} => DecodeWatermark(Slice(Encode(Wanted), 25, 50))
                                 = [mark |-> "Valid", token |-> token]
<1> DEFINE b == op.base
           d == op.delta
           m == Merge(b, d)
           w == Wanted
           mark == IF kind = "dpi" /\ token # None THEN 25..49 ELSE {}
<1>1. /\ op # None /\ op.phase = "write" /\ OperationIs(kind, transport, op)
      /\ FixedIs(kind, transport, token)
  BY SectionTypesAre DEF WriteSection
<1>2. /\ b \in States[kind] /\ d \in Deltas[kind] /\ kind \in Kind
      /\ token \in {None, Token} /\ w # None
  BY <1>1 DEF OperationIs, FixedIs
<1>3. m # None /\ w = WithWatermark(m)
  BY <1>2 DEF Wanted
<1>4. kind \in Sectional
  <2>1. \A k \in {"rate", "metadata"} : Deltas[k] = {}
    BY SectionAssumption, Zenon
  <2> QED BY <1>2, <2>1 DEF Kind, Sectional
<1>5. Encode(w) = EncodeOf(kind, w) /\ Encode(b) = EncodeOf(kind, b)
  BY EncodeSame
<1> HIDE DEF b, d, w, mark
<1>6. CASE kind = "dpi"
  <2>1. m = MergeDpi(b, d)
    BY <1>6 DEF Merge
  <2>2. /\ m \in States["dpi"] /\ m.tail = b.tail
        /\ m.stages = Pick(d, "stages", b.stages)
        /\ m.active = Pick(d, "active", b.active)
        /\ m.sensor.lift = Pick(d, "lift", b.sensor.lift)
        /\ m.sensor.ripple = Pick(d, "ripple", b.sensor.ripple)
        /\ m.sensor.snap = Pick(d, "snap", b.sensor.snap)
        /\ m.sensor.sync = Pick(d, "sync", b.sensor.sync)
    <3> HIDE DEF m
    <3>1. MergeDpi(b, d) # None /\ b \in States["dpi"] /\ d \in Deltas["dpi"]
      BY <1>2, <1>3, <1>6, <2>1
    <3> QED BY <2>1, <3>1, MergeDpiIs
  <2> HIDE DEF m
  <2>3. /\ w \in States["dpi"] /\ w.stages = m.stages /\ w.active = m.active /\ w.sensor = m.sensor
        /\ (mark = {} => w.tail = m.tail)
        /\ (mark # {} => token \in [1..16 -> Byte] /\ w.tail = ToWatermark(token))
    <3>1. CASE token # None
      <4>1. token \in [1..16 -> Byte]
        <5>1. Token \in [1..16 -> Byte]
          BY SectionAssumption, Zenon
        <5> QED BY <1>2, <3>1, <5>1
      <4>2. w = OverlayPhysicalId(m, token)
        BY <1>3, <1>6, <3>1 DEF WithWatermark
      <4>3. mark = 25..49
        BY <1>6, <3>1 DEF mark
      <4>4. mark # {}
        <5>1. 25 \in 25..49
          OBVIOUS
        <5> QED BY <4>3, <5>1
      <4>5. /\ w \in States["dpi"] /\ w.tail = ToWatermark(token)
            /\ w.stages = m.stages /\ w.active = m.active /\ w.sensor = m.sensor
        BY <2>2, <4>1, <4>2, MarkedIs
      <4> QED BY <4>1, <4>4, <4>5
    <3>2. CASE token = None
      <4>1. w = m /\ mark = {}
        BY <1>3, <3>2 DEF WithWatermark, mark
      <4> QED BY <2>2, <4>1
    <3> QED BY <3>1, <3>2
  <2>4. ExactUpdate("dpi", EncodeDpi(w), EncodeDpi(b), d, mark)
    <3>1. b \in States["dpi"] /\ d \in Deltas["dpi"]
      BY <1>2, <1>6
    <3>2. mark = {} \/ mark = 25..49
      BY DEF mark
    <3>3. mark = {} => w.tail = b.tail
      BY <2>2, <2>3
    <3>4. /\ w.stages = Pick(d, "stages", b.stages)
          /\ w.active = Pick(d, "active", b.active)
          /\ w.sensor.lift = Pick(d, "lift", b.sensor.lift)
          /\ w.sensor.ripple = Pick(d, "ripple", b.sensor.ripple)
          /\ w.sensor.snap = Pick(d, "snap", b.sensor.snap)
          /\ w.sensor.sync = Pick(d, "sync", b.sensor.sync)
      BY <2>2, <2>3
    <3>5. w \in States["dpi"]
      BY <2>3
    <3> QED BY <3>1, <3>2, <3>3, <3>4, <3>5, DpiExact
  <2>5. ASSUME mark # {} PROVE Slice(EncodeDpi(w), 25, 50) = w.tail
    <3> DEFINE p == EncodeDpi(w)
               q == Slice(p, 25, 50)
    <3>1. p \in Seq(Byte) /\ Len(p) = 52 /\ \A i \in 25..49 : At(p, i) = w.tail[i - 24]
      BY <2>3, DpiImage
    <3>2. w.tail \in Seq(Byte) /\ Len(w.tail) = 25
      BY <2>3, DpiStateIs
    <3> HIDE DEF p
    <3>3. q \in Seq(Byte) /\ Len(q) = 25 /\ \A i \in 1..25 : q[i] = p[25 + i]
      <4>1. 25 \in Nat /\ 50 \in Nat /\ 25 =< 50 /\ 50 =< Len(p) /\ 50 - 25 = 25
        BY <3>1
      <4>2. q \in Seq(Byte) /\ Len(q) = 50 - 25 /\ \A i \in 1..(50 - 25) : q[i] = p[25 + i]
        BY <3>1, <4>1, SliceIs
      <4> HIDE DEF q
      <4> QED BY <4>1, <4>2
    <3> HIDE DEF q
    <3>4. ASSUME NEW i \in 1..25 PROVE q[i] = w.tail[i]
      <4>1. 24 + i \in 25..49 /\ (24 + i) - 24 = i /\ (24 + i) + 1 = 25 + i
        OBVIOUS
      <4>2. At(p, 24 + i) = w.tail[(24 + i) - 24]
        BY <3>1, <4>1
      <4>3. At(p, 24 + i) = p[25 + i]
        BY <4>1 DEF At
      <4>4. q[i] = p[25 + i]
        BY <3>3
      <4> QED BY <4>1, <4>2, <4>3, <4>4
    <3>5. 25 \in Nat
      OBVIOUS
    <3>6. q = w.tail
      BY <3>2, <3>3, <3>4, <3>5, SameBytes
    <3> QED BY <3>6 DEF q, p
  <2>6. ASSUME mark # {}
        PROVE  DecodeWatermark(Slice(EncodeDpi(w), 25, 50)) = [mark |-> "Valid", token |-> token]
    <3>1. token \in [1..16 -> Byte] /\ w.tail = ToWatermark(token)
      BY <2>3, <2>6
    <3>2. DecodeWatermark(ToWatermark(token)) = [mark |-> "Valid", token |-> token]
      BY <3>1, MarkIs
    <3>3. Slice(EncodeDpi(w), 25, 50) = ToWatermark(token)
      BY <2>5, <2>6, <3>1
    <3> QED BY <3>2, <3>3, Zenon
  <2>7. Encode(w) = EncodeDpi(w) /\ Encode(b) = EncodeDpi(b)
    BY <1>5, <1>6 DEF EncodeOf
  <2> QED BY <1>6, <2>4, <2>6, <2>7, Zenon DEF b, d, w, mark
<1>7. CASE kind # "dpi"
  <2>1. w = m /\ mark = {}
    BY <1>3, <1>7 DEF WithWatermark, mark
  <2>2. CASE kind = "preferences"
    <3>1. m = MergePreferences(b, d)
      BY <2>2 DEF Merge
    <3>2. Encode(w) = EncodePreferences(w) /\ Encode(b) = EncodePreferences(b)
      BY <1>5, <2>2 DEF EncodeOf
    <3>3. ExactUpdate("preferences", EncodePreferences(MergePreferences(b, d)), EncodePreferences(b), d, {})
      BY <1>2, <2>2, PreferencesExact
    <3> HIDE DEF m
    <3>4. ExactUpdate(kind, Encode(w), Encode(b), d, mark)
      BY <2>1, <2>2, <3>1, <3>2, <3>3, Zenon
    <3> QED BY <2>1, <3>4, Zenon DEF b, d, w, mark
  <2>3. CASE kind = "buttons"
    <3>1. m = MergeSlot(b, d)
      BY <2>3 DEF Merge
    <3>2. Encode(w) = EncodeButtons(w) /\ Encode(b) = EncodeButtons(b)
      BY <1>5, <2>3 DEF EncodeOf
    <3>3. ExactUpdate("buttons", EncodeButtons(MergeSlot(b, d)), EncodeButtons(b), d, {})
      BY <1>2, <2>3, ButtonsExact
    <3> HIDE DEF m
    <3>4. ExactUpdate(kind, Encode(w), Encode(b), d, mark)
      BY <2>1, <2>3, <3>1, <3>2, <3>3, Zenon
    <3> QED BY <2>1, <3>4, Zenon DEF b, d, w, mark
  <2> QED BY <1>4, <1>7, <2>2, <2>3 DEF Sectional
<1> QED BY <1>6, <1>7

\* The changes by others are counted.
TouchesCounted == touches \in Nat

LEMMA TouchesCount == SectionSpec => []TouchesCounted
<1>1. SectionInit => TouchesCounted
  BY DEF SectionInit, TouchesCounted
<1>2. TouchesCounted /\ [SectionNext]_sectionVars => TouchesCounted'
  <2> SUFFICES ASSUME touches \in Nat, [SectionNext]_sectionVars, touches' # touches
               PROVE  touches' \in Nat
    BY DEF TouchesCounted
  <2>1. ASSUME NEW s, Touch(s) PROVE touches' \in Nat
    BY <2>1 DEF Touch
  <2> QED
    BY <2>1 DEF SectionNext, sectionVars, BeginRead, BeginFull, BeginLive, BeginStored, Start,
                ReadSection, WriteSection, VerifyWrite, Persist, Import
<1> QED BY <1>1, <1>2, PTL DEF SectionSpec

\* A partial update puts on the mouse exactly the fields it names, and the
\* mark of a marked mouse.
THEOREM UpdatesAreExact == SectionSpec => UpdateIsExact
<1>1. ASSUME SectionTypes, TouchesCounted, [SectionNext]_sectionVars,
             op # None, op.call = "delta", held' # held, touches' = touches
      PROVE  LET before == IF op.policy.live THEN op.was ELSE Encode(op.base)
                 named == UNION {FieldBytes[f] : f \in DOMAIN op.delta}
                 mark == IF kind = "dpi" /\ token # None THEN 25..49 ELSE {}
             IN  /\ \A f \in DOMAIN op.delta : Means(held', f, op.delta[f])
                 /\ \A i \in 3..(Layout[kind].sum - 1) :
                       i \in named \cup mark \/ At(held', i) = At(before, i)
                 /\ mark # {} => DecodeWatermark(Slice(held', 25, 50))
                                   = [mark |-> "Valid", token |-> token]
  <2>1. WriteSection
    <3>1. ASSUME NEW s, Touch(s) PROVE FALSE
      BY <1>1, <3>1 DEF Touch, TouchesCounted
    <3> QED
      BY <1>1, <3>1 DEF SectionNext, sectionVars, BeginRead, BeginFull, BeginLive, BeginStored,
                        Start, ReadSection, VerifyWrite, Persist, Import
  <2>2. Wanted # None /\ held' = Encode(Wanted)
    BY <1>1, <2>1 DEF WriteSection
  <2>3. LET mark == IF kind = "dpi" /\ token # None THEN 25..49 ELSE {}
        IN  /\ ExactUpdate(kind, Encode(Wanted), Encode(op.base), op.delta, mark)
            /\ mark # {} => DecodeWatermark(Slice(Encode(Wanted), 25, 50))
                              = [mark |-> "Valid", token |-> token]
    BY <1>1, <2>1, <2>2, WantedExact
  <2>4. (IF op.policy.live THEN op.was ELSE Encode(op.base)) = Encode(op.base)
    <3>1. OperationIs(kind, transport, op) /\ op.phase = "write"
      BY <1>1, <2>1, SectionTypesAre DEF WriteSection
    <3>2. op.policy.live => op.was = Encode(op.base)
      BY <1>1, <3>1, EncodeSame DEF OperationIs
    <3> QED BY <3>2, Zenon
  <2> QED BY <2>2, <2>3, <2>4, Zenon DEF ExactUpdate
<1>2. SectionTypes /\ TouchesCounted /\ [SectionNext]_sectionVars
        => [op # None /\ op.call = "delta" /\ held' # held /\ touches' = touches =>
             LET before == IF op.policy.live THEN op.was ELSE Encode(op.base)
                 named == UNION {FieldBytes[f] : f \in DOMAIN op.delta}
                 mark == IF kind = "dpi" /\ token # None THEN 25..49 ELSE {}
             IN  /\ \A f \in DOMAIN op.delta : Means(held', f, op.delta[f])
                 /\ \A i \in 3..(Layout[kind].sum - 1) :
                       i \in named \cup mark \/ At(held', i) = At(before, i)
                 /\ mark # {} => DecodeWatermark(Slice(held', 25, 50))
                                   = [mark |-> "Valid", token |-> token]]_sectionVars
  BY <1>1, Zenon
<1> QED BY <1>2, SectionInvariance, TouchesCount, PTL DEF SectionSpec, UpdateIsExact
=============================================================================
