-------------------------------- MODULE BleDriver --------------------------------
(***************************************************************************)
(* A configuration session over Bluetooth: the shared handle, its lock,    *)
(* the task that forwards FEE4 notifications, the bounded inbox, and the   *)
(* mouse, whose acknowledgements name a report but no transaction.         *)
(*                                                                         *)
(* One mouse is modelled.  Why it cannot be opened (no adapter, several    *)
(* candidates, a missing service or characteristic) is not distinguished.  *)
(* The two platforms differ in closing: the subscription of Windows may    *)
(* survive an attempt to close it, that of the others never does.          *)
(* Packets are their report identifiers.  The manager keeps other          *)
(* processes from the mouse with its operation lock.                       *)
(***************************************************************************)
EXTENDS Naturals, Sequences, FiniteSets, SequencesExt, Option

CONSTANTS Clients,      \* the callers that share the handle
          Reports,      \* report identifiers
          Capacity,     \* notifications the inbox holds (16 in the code)
          MaxWrites,    \* packets sent
          MaxLinks,     \* times the connection breaks
          MaxFailures   \* backend calls that fail

ASSUME BleAssumption == Capacity \in Nat \ {0} /\ None \notin Reports
ASSUME BoundsAssumption == MaxWrites \in Nat /\ MaxLinks \in Nat /\ MaxFailures \in Nat

VARIABLES
    link,      \* the mouse is connected
    flying,    \* the packets handed to the operating system and not delivered
    owed,      \* the packets it has taken and not acknowledged, in order
    opening,   \* how far opening a session has come, or None
    session,   \* the open session, or None
    lock,      \* the lock of the session: its holder and those who wait
    call,      \* what each client does: its report, and how it stands
    counts     \* packets, broken connections and failures so far

vars == <<link, flying, owed, opening, session, lock, call, counts>>

-----------------------------------------------------------------------------
(* The session and its inbox. *)

\* closed blocks writes, done is shutdown_complete; the task forwards
\* notifications until the stream ends or it is stopped.
Fresh == [closed |-> FALSE, done |-> FALSE, overflowed |-> FALSE, inbox |-> <<>>, task |-> TRUE]

\* A notification: an acknowledgement of packet n, or another one.
Note(kind, report, n) == [kind |-> kind, report |-> report, n |-> n]

\* What the inbox may hold, and what a session is.
Errors == {"Gone", "Broken"}
Notice == [kind : {"Accepts", "Rejects", "Malformed", "Other"} \cup Errors,
           report : Reports \cup {None}, n : Nat]
Session == [closed : BOOLEAN, done : BOOLEAN, overflowed : BOOLEAN, inbox : Seq(Notice), task : BOOLEAN]

ASSUME AbsentAssumption ==
    /\ None \notin Session
    /\ None \notin {"Connected", "Discovered", "Disconnected", "Notification", "Overflow"}

\* NotificationSender::send: a full inbox drops it and raises the flag.
Forward(note) ==
    IF session = None \/ ~session.task THEN UNCHANGED session
    ELSE session' = IF Len(session.inbox) < Capacity
                    THEN [session EXCEPT !.inbox = Append(@, note)]
                    ELSE [session EXCEPT !.overflowed = TRUE]

Fails == /\ counts.failures < MaxFailures
         /\ counts' = [counts EXCEPT !.failures = @ + 1]

\* BleError::is_connection_lost, of the errors a write can return.
Lost == {"Disconnected", "Notification"}

\* What a notification does to the session: an item that is an error.
ErrorOf(note) == CASE note.kind = "Gone" -> "Disconnected" [] note.kind = "Broken" -> "Notification" [] OTHER -> None

Holds(c) == lock # <<>> /\ Head(lock) = c

\* A caller at rest; n is its packet, open those without an acknowledgement when
\* its write began, from the packet whose acknowledgement it took.
Resting == [pc |-> "Idle", op |-> None, report |-> None, n |-> 0, open |-> {}, from |-> 0]

\* The call returns, with success or an error, and gives up the lock.
Ends(c) == call' = [call EXCEPT ![c] = Resting] /\ lock' = Tail(lock)

\* A failed write: a lost connection closes the session for good, and the
\* notifications are stopped before the call returns.
FailsWith(c, error, s) ==
    IF error \in Lost
    THEN /\ session' = [s EXCEPT !.closed = TRUE]
         /\ call' = [call EXCEPT ![c].pc = "Close"]
         /\ UNCHANGED lock
    ELSE session' = s /\ Ends(c)

-----------------------------------------------------------------------------
(* The handle. *)

\* open_with_policy: one candidate is selected and connected.
Open ==
    /\ session = None /\ opening = None
    /\ opening' = "Connected" /\ link' = TRUE
    /\ UNCHANGED <<flying, owed, session, lock, call, counts>>

\* The service and its two characteristics are found, each exactly once.
Discover ==
    /\ opening = "Connected"
    /\ \/ link /\ opening' = "Discovered" /\ UNCHANGED counts
       \/ opening' = None /\ IF link THEN Fails ELSE UNCHANGED counts
    /\ UNCHANGED <<link, flying, owed, session, lock, call>>

\* Notifications are enabled: the session begins, with an empty inbox.
Subscribe ==
    /\ opening = "Discovered" /\ opening' = None
    /\ \/ link /\ session' = Fresh /\ UNCHANGED counts
       \/ UNCHANGED session /\ IF link THEN Fails ELSE UNCHANGED counts
    /\ UNCHANGED <<link, flying, owed, lock, call>>

\* The last clone of the handle is dropped.
Drop ==
    /\ session # None /\ lock = <<>> /\ session' = None
    /\ UNCHANGED <<link, flying, owed, opening, lock, call, counts>>

\* write or disconnect: the caller queues for the lock.
Call(c, op, report) ==
    /\ session # None /\ call[c].pc = "Idle"
    /\ call' = [call EXCEPT ![c] = [Resting EXCEPT !.pc = "Wait", !.op = op, !.report = report]]
    /\ lock' = Append(lock, c)
    /\ UNCHANGED <<link, flying, owed, opening, session, counts>>

\* The items of the inbox that are errors.
Bad == {i \in DOMAIN session.inbox : session.inbox[i].kind \in Errors}

\* drain_idle: its error, or None when the inbox is now empty.
Drained ==
    IF session.overflowed THEN "Overflow"
    ELSE IF Bad # {} THEN ErrorOf(session.inbox[Min(Bad)])
    ELSE IF session.task THEN None ELSE "Disconnected"

\* Faulty variant: what waits in the inbox stays there.
AfterNoDrain == session

\* What the drain leaves in the inbox.
AfterDrain ==
    IF session.overflowed THEN session
    ELSE [session EXCEPT !.inbox = IF Bad = {} THEN <<>> ELSE SubSeq(@, Min(Bad) + 1, Len(@))]

Begin(c) ==
    /\ Holds(c) /\ call[c].pc = "Wait" /\ call[c].op = "Write"
    /\ IF session.closed THEN Ends(c) /\ UNCHANGED session
       ELSE IF Drained # None THEN FailsWith(c, Drained, AfterDrain)
       ELSE /\ session' = AfterDrain
            /\ call' = [call EXCEPT ![c].pc = "Send", ![c].open = {p.n : p \in ToSet(owed) \cup flying}]
            /\ UNCHANGED lock
    /\ UNCHANGED <<link, flying, owed, opening, counts>>

\* The write to FEE3 is handed to the operating system, which may not take it.
Send(c) ==
    /\ Holds(c) /\ call[c].pc = "Send"
    /\ \/ /\ counts.sent < MaxWrites /\ counts' = [counts EXCEPT !.sent = @ + 1]
          /\ flying' = flying \cup {[report |-> call[c].report, n |-> counts.sent + 1]}
          /\ call' = [call EXCEPT ![c].pc = "Sent", ![c].n = counts.sent + 1]
          /\ UNCHANGED lock
       \/ ~link /\ Ends(c) /\ UNCHANGED <<flying, counts>>
       \/ counts.sent = MaxWrites /\ Ends(c) /\ UNCHANGED <<flying, counts>>
    /\ UNCHANGED <<link, owed, opening, session>>

\* The write returns: with success when the mouse has the packet, or with an
\* error, which does not count as a lost connection, whether it has it or may
\* yet get it.
Returned(c) ==
    /\ Holds(c) /\ call[c].pc = "Sent"
    /\ LET arrived == \A p \in flying : p.n # call[c].n
       IN  \/ arrived /\ call' = [call EXCEPT ![c].pc = "Ack"] /\ UNCHANGED <<lock, counts>>
           \/ arrived /\ Fails /\ Ends(c)
           \/ ~arrived /\ Ends(c) /\ UNCHANGED counts
    /\ UNCHANGED <<link, flying, owed, opening, session>>

\* Faulty variant: the overflow is noticed before a write only.
NextNoteUnchecked(s) == IF s.inbox # <<>> THEN Head(s.inbox)
                 ELSE IF s.task THEN None ELSE Note("Gone", None, 0)

\* poll_next: None while there is nothing, and the end of the stream.
NextNote(s) ==
    IF s.overflowed THEN Note("Overflow", None, 0)
    ELSE IF s.inbox # <<>> THEN Head(s.inbox)
    ELSE IF s.task THEN None ELSE Note("Gone", None, 0)

\* complete_ble_write: the first acknowledgement of the report decides.
Receive(c) ==
    /\ Holds(c) /\ call[c].pc = "Ack" /\ NextNote(session) # None
    /\ LET note == NextNote(session)
           rest == IF note.kind = "Overflow" \/ session.inbox = <<>> THEN session
                   ELSE [session EXCEPT !.inbox = Tail(@)]
           mine == note.report = call[c].report
       IN  CASE ErrorOf(note) # None -> FailsWith(c, ErrorOf(note), rest)
             [] note.kind \in {"Overflow", "Malformed"} -> FailsWith(c, note.kind, rest)
             [] note.kind = "Rejects" /\ mine -> FailsWith(c, "AckRejected", rest)
             [] note.kind = "Accepts" /\ mine ->
                    /\ session' = rest
                    /\ call' = [call EXCEPT ![c].pc = "Quiet", ![c].from = note.n]
                    /\ UNCHANGED lock
             [] OTHER -> session' = rest /\ UNCHANGED <<call, lock>>
    /\ UNCHANGED <<link, flying, owed, opening, counts>>

\* Faulty variant: every notification starts the time limit afresh.
ExpireInSilence(c) ==
    /\ Holds(c) /\ call[c].pc = "Ack" /\ session.inbox = <<>> /\ Ends(c)
    /\ UNCHANGED <<link, flying, owed, opening, session, counts>>

\* The deadline passes.
Expire(c) ==
    /\ Holds(c) /\ call[c].pc = "Ack" /\ Ends(c)
    /\ UNCHANGED <<link, flying, owed, opening, session, counts>>

\* The quiet period after an accepted write ends.
Rest(c) ==
    /\ Holds(c) /\ call[c].pc = "Quiet" /\ Ends(c)
    /\ UNCHANGED <<link, flying, owed, opening, session, counts>>

\* close_notifications.
Closes(works) ==
    /\ IF works THEN UNCHANGED counts ELSE Fails
    /\ session' = IF works THEN [session EXCEPT !.task = FALSE] ELSE session

\* After a lost connection its result is ignored.
Close(c) ==
    /\ Holds(c) /\ call[c].pc = "Close" /\ \E works \in BOOLEAN : Closes(works)
    /\ Ends(c)
    /\ UNCHANGED <<link, flying, owed, opening>>

\* disconnect: block writes, stop the notifications, leave the device.  It is
\* complete when both worked, and can be called again when not.
Shut(c) ==
    /\ Holds(c) /\ call[c].pc = "Wait" /\ call[c].op = "Disconnect"
    /\ IF session.done THEN Ends(c) /\ UNCHANGED session
       ELSE /\ session' = [session EXCEPT !.closed = TRUE]
            /\ call' = [call EXCEPT ![c].pc = "Stop"] /\ UNCHANGED lock
    /\ UNCHANGED <<link, flying, owed, opening, counts>>

Stop(c) ==
    /\ Holds(c) /\ call[c].pc = "Stop"
    /\ \E works \in BOOLEAN :
          /\ Closes(works)
          /\ call' = [call EXCEPT ![c].pc = IF works THEN "Leave" ELSE "LeaveAnyway"]
    /\ UNCHANGED <<link, flying, owed, opening, lock>>

Leave(c) ==
    /\ Holds(c) /\ call[c].pc \in {"Leave", "LeaveAnyway"} /\ Ends(c) /\ UNCHANGED <<flying, opening>>
    /\ \/ /\ link' = FALSE /\ owed' = <<>> /\ UNCHANGED counts
          /\ session' = [session EXCEPT !.done = (call[c].pc = "Leave")]
       \/ Fails /\ UNCHANGED <<link, owed, session>>

\* Where a caller stands in the queue for the lock.
Place(c) == CHOOSE i \in DOMAIN lock : lock[i] = c

\* The caller drops its call: the lock is free again, wherever it was, and a
\* packet handed over stays with the operating system.
Abandon(c) ==
    /\ call[c].pc # "Idle"
    /\ call' = [call EXCEPT ![c] = Resting]
    /\ lock' = RemoveAt(lock, Place(c))
    /\ UNCHANGED <<link, flying, owed, opening, session, counts>>

-----------------------------------------------------------------------------
(* The mouse and the connection. *)

\* A packet reaches the mouse, while its call waits or long after it.  One that
\* is lost stays in flight.
Deliver ==
    /\ link
    /\ \E p \in flying : flying' = flying \ {p} /\ owed' = Append(owed, p)
    /\ UNCHANGED <<link, opening, session, lock, call, counts>>

\* The oldest packet is acknowledged, or never will be.
Acknowledge ==
    /\ link /\ owed # <<>> /\ owed' = Tail(owed)
    /\ \/ \E kind \in {"Accepts", "Rejects", "Malformed"} : Forward(Note(kind, Head(owed).report, Head(owed).n))
       \/ UNCHANGED session
    /\ UNCHANGED <<link, flying, opening, lock, call, counts>>

\* A notification that is no acknowledgement, at any time and any number.
Chatter ==
    /\ link /\ Forward(Note("Other", None, 0))
    /\ UNCHANGED <<link, flying, owed, opening, lock, call, counts>>

Break ==
    /\ link /\ counts.links < MaxLinks
    /\ link' = FALSE /\ owed' = <<>> /\ counts' = [counts EXCEPT !.links = @ + 1]
    /\ UNCHANGED <<flying, opening, session, lock, call>>

\* The notification stream ends or fails, and with it the task.
StreamEnds ==
    /\ session # None /\ session.task
    /\ \E kind \in Errors :
          /\ IF kind = "Gone" THEN ~link /\ UNCHANGED counts ELSE Fails
          /\ session' = IF Len(session.inbox) < Capacity
                        THEN [session EXCEPT !.task = FALSE, !.inbox = Append(@, Note(kind, None, 0))]
                        ELSE [session EXCEPT !.task = FALSE, !.overflowed = TRUE]
    /\ UNCHANGED <<link, flying, owed, opening, lock, call>>

-----------------------------------------------------------------------------

Init ==
    /\ link \in BOOLEAN /\ flying = {} /\ owed = <<>> /\ opening = None /\ session = None /\ lock = <<>>
    /\ call = [c \in Clients |-> Resting]
    /\ counts = [sent |-> 0, links |-> 0, failures |-> 0]

Proceed(c) ==
    Begin(c) \/ Send(c) \/ Returned(c) \/ Receive(c) \/ Expire(c) \/ Rest(c) \/ Close(c) \/ Shut(c) \/ Stop(c) \/ Leave(c)

Calls(c) ==
    \/ Call(c, "Disconnect", None) \/ Abandon(c)
    \/ \E report \in Reports : counts.sent < MaxWrites /\ Call(c, "Write", report)

Next ==
    \/ Open \/ Discover \/ Subscribe \/ Drop
    \/ \E c \in Clients : Proceed(c) \/ Calls(c)
    \/ Deliver \/ Acknowledge \/ Chatter \/ Break \/ StreamEnds

\* Backend calls return, the deadline passes, and so does the quiet period.
Fairness ==
    \A c \in Clients :
        /\ WF_vars(Begin(c) \/ Send(c) \/ Returned(c) \/ Rest(c) \/ Close(c) \/ Shut(c) \/ Stop(c) \/ Leave(c))
        /\ WF_vars(Expire(c))

Spec == Init /\ [][Next]_vars /\ Fairness

-----------------------------------------------------------------------------
(* Properties. *)

\* A receipt rests on an acknowledgement of the packet that was written, unless
\* an earlier one was still unacknowledged when the write began: the mouse had
\* yet to answer it, or it was the packet of a dropped or failed write, on its
\* way.  ble.rs claims no stronger correlation, and drain_idle gives this one.
AckIsOfItsWrite ==
    \A c \in Clients : call[c].pc = "Quiet" => call[c].from \in {call[c].n} \cup call[c].open

\* A session that has lost a notification never gives a receipt again, and one
\* that has lost its connection or was disconnected never hands over a packet again.
FailsClosed ==
    [][session # None =>
         /\ session.closed => counts'.sent = counts.sent
         /\ session.overflowed => \A c \in Clients : call[c].pc = "Ack" => call'[c].pc # "Quiet"]_vars

\* Every call ends, however many notifications come and whatever other callers
\* of the handle do.
CallsEnd == \A c \in Clients : call[c].pc # "Idle" ~> call[c].pc = "Idle"

=============================================================================
