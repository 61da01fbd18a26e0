----------------------------- MODULE DriverWorker -----------------------------
(***************************************************************************)
(* The feature-report path of the driver: handles, the bounded command     *)
(* queue, the worker thread that owns the transport, and the armed read    *)
(* through the one-shot 0xA0 mailbox of the mouse.                         *)
(*                                                                         *)
(* One MouseHandle with its clones and its worker.  Clients are tasks that *)
(* await a request on it; a task may be dropped while it waits.  The mouse *)
(* is shared: its user changes it, and another session (an event           *)
(* subscription keeps one; a worker outlives its handle until it has run   *)
(* what it accepted) uses the same mailbox.                                *)
(*                                                                         *)
(* The mouse is external: docs/transports/usb-hid.md.                      *)
(***************************************************************************)
EXTENDS Naturals, Sequences

CONSTANTS
    Client, Value, None,
    Profiles,      \* profiles of the mouse
    Sections,      \* sections of a profile, in the order read_profile reads them
    Default,       \* what every section holds initially
    Maxima,        \* the largest enabled profile, initially
    MaxAttempts,   \* ReadPolicy.max_attempts
    QueueCap,      \* capacity of the command queue
    MaxRequests, MaxTouches  \* bounds: requests, actions of others on the mouse

ASSUME SizesAssumption ==
    /\ Profiles \in Nat \ {0} /\ Sections \in Nat \ {0}
    /\ MaxAttempts \in Nat \ {0} /\ QueueCap \in Nat \ {0}
    /\ Default \in Value /\ Maxima \subseteq 1..Profiles

Profile == 1..Profiles
Section == 1..Sections

\* What a read selector names; metadata is not targeted, its parameter is 1.
Meta == [section |-> 0, profile |-> 1]
Target == {Meta} \cup [section : Section, profile : Profile]

Metadata == {m \in [current : Profile, maximum : Profile] : m.current <= m.maximum}
Report == [target : {Meta}, value : Metadata] \cup [target : Target \ {Meta}, value : Value]

\* The commands of the queue.  Sections that one handler text serves are one
\* kind here; a rate read or write is one of them at this level.
Reads == [kind : {"read", "raw"}, target : Target, value : {None}]
Writes == [kind : {"send", "write"}, target : Target \ {Meta}, value : Value]
Changes == [kind : {"activate", "maximum", "profile"}, target : {Meta}, value : Profile]
Command == Reads \cup Writes \cup Changes

\* No report is not some report, and nobody is not a client.
ASSUME NoneAssumption == None \notin Report \cup Client

VARIABLES
    image, metadata,  \* the mouse: sections of its profiles, persistent metadata
    mailbox,          \* the mouse: its prepared report
    handle,           \* whether a clone of the handle is alive
    queue, worker,    \* accepted commands, the worker thread
    client,           \* of each client: its request, or the last answer
    requests, touches

mouse == <<image, metadata>>
vars == <<image, metadata, mailbox, handle, queue, worker, client, requests, touches>>

Idle == [pc |-> "idle"]
Ended == [pc |-> "ended"]
Busy == [pc : {"send", "arm", "poll", "fetch"},
         cmd : Command, caller : {None} \cup Client,
         attempt : 1..MaxAttempts, reads : Seq(Report),
         \* History, read by the properties only.  clean: nobody else has changed
         \* the mouse since the command began, and no report was mixed up; alone:
         \* no other session has used the mailbox since then.
         clean : BOOLEAN, alone : BOOLEAN]

TypeOK ==
    /\ image \in [Profile -> [Section -> Value]] /\ metadata \in Metadata
    /\ mailbox \in [armed : {None} \cup Target, ready : BOOLEAN, report : {None} \cup Report]
    /\ mailbox.ready => mailbox.report # None
    /\ handle \in {"new", "open", "dropped"}
    /\ queue \in Seq([cmd : Command, caller : {None} \cup Client])
    /\ Len(queue) <= QueueCap
    /\ worker \in {Idle, Ended} \cup Busy
    /\ worker = Ended => handle # "open" /\ queue = <<>>
    /\ client \in [Client -> [pc : {"idle", "waiting"}] \cup [pc : {"done"}, ok : BOOLEAN]]

Init ==
    /\ image = [p \in Profile |-> [n \in Section |-> Default]]
    /\ metadata \in {m \in Metadata : m.maximum \in Maxima}
    /\ mailbox = [armed |-> None, ready |-> FALSE, report |-> None]
    /\ handle = "new" /\ queue = <<>> /\ worker = Ended
    /\ client = [c \in Client |-> Idle]
    /\ requests = 0 /\ touches = 0

-----------------------------------------------------------------------------
(* Handles and requests. *)

Done(ok) == [pc |-> "done", ok |-> ok]

\* spawn_worker.
Open ==
    /\ handle = "new"
    /\ handle' = "open" /\ worker' = Idle
    /\ UNCHANGED <<mouse, mailbox, queue, client, requests, touches>>

\* MouseHandle::request: the command is queued, or the queue is full.
Request(c, cmd) ==
    /\ requests < MaxRequests /\ requests' = requests + 1
    /\ client[c].pc # "waiting" /\ handle = "open"
    /\ IF Len(queue) < QueueCap
       THEN /\ queue' = Append(queue, [cmd |-> cmd, caller |-> c])
            /\ client' = [client EXCEPT ![c] = [pc |-> "waiting"]]
       ELSE client' = [client EXCEPT ![c] = Done(FALSE)] /\ UNCHANGED queue
    /\ UNCHANGED <<mouse, mailbox, handle, worker, touches>>

Forgets(entry, c) == IF entry.caller = c THEN [entry EXCEPT !.caller = None] ELSE entry

\* The task that awaits the response is dropped; its command is not.
Abandon(c) ==
    /\ client[c].pc = "waiting"
    /\ client' = [client EXCEPT ![c] = Idle]
    /\ queue' = [i \in DOMAIN queue |-> Forgets(queue[i], c)]
    /\ worker' = IF worker \in {Idle, Ended} THEN worker ELSE Forgets(worker, c)
    /\ UNCHANGED <<mouse, mailbox, handle, requests, touches>>

\* The last clone of the handle is dropped; a request in progress borrows one.
DropHandle ==
    /\ handle = "open" /\ \A c \in Client : client[c].pc # "waiting"
    /\ handle' = "dropped"
    /\ UNCHANGED <<mouse, mailbox, queue, worker, client, requests, touches>>

-----------------------------------------------------------------------------
(* The worker thread. *)

\* Faulty variant: a command that nobody waits for is not taken, and stays.
TakeAwaited ==
    /\ worker = Idle /\ queue # <<>> /\ Head(queue).caller # None
    /\ worker' = [pc |-> IF Head(queue).cmd.kind \in {"send", "write"} THEN "send" ELSE "arm",
                  cmd |-> Head(queue).cmd, caller |-> Head(queue).caller, attempt |-> 1,
                  reads |-> <<>>, clean |-> TRUE, alone |-> TRUE]
    /\ queue' = Tail(queue)
    /\ UNCHANGED <<mouse, mailbox, handle, client, requests, touches>>

\* Worker::run takes the next command.
Take ==
    /\ worker = Idle /\ queue # <<>>
    /\ LET entry == Head(queue) IN
          worker' = [pc |-> IF entry.cmd.kind \in {"send", "write"} THEN "send" ELSE "arm",
                     cmd |-> entry.cmd, caller |-> entry.caller, attempt |-> 1,
                     reads |-> <<>>, clean |-> TRUE, alone |-> TRUE]
    /\ queue' = Tail(queue)
    /\ UNCHANGED <<mouse, mailbox, handle, client, requests, touches>>

\* Worker::run ends when every sender is gone and the queue is empty.
End ==
    /\ worker = Idle /\ queue = <<>> /\ handle = "dropped"
    /\ worker' = Ended
    /\ UNCHANGED <<mouse, mailbox, handle, queue, client, requests, touches>>

Continue(w) == worker' = w /\ UNCHANGED client

\* reply.send: the answer, an error or not, goes to the caller if it still waits.
Reply(ok) ==
    /\ worker' = Idle
    /\ client' = [c \in Client |-> IF c = worker.caller THEN Done(ok) ELSE client[c]]

Fails == Reply(FALSE)
Succeeds == Reply(TRUE)

\* The metadata that a control write means to establish.
Expected(w) ==
    IF w.cmd.kind = "activate"
    THEN [current |-> w.cmd.value, maximum |-> w.reads[1].value.maximum]
    ELSE [current |-> w.reads[1].value.current, maximum |-> w.cmd.value]

\* The mouse receives a configuration report.
Configure(w) ==
    \/ /\ w.cmd.kind \in {"send", "write"}
       /\ image' = [image EXCEPT ![w.cmd.target.profile][w.cmd.target.section] = w.cmd.value]
       /\ UNCHANGED metadata
    \/ /\ w.cmd.kind \in {"activate", "maximum"}
       /\ metadata' = Expected(w) /\ UNCHANGED image

\* send_feature_report of a configuration report, and the quiet time after it.
\* Whatever the transport says, the mouse may have ignored the report.
SendReport ==
    /\ worker.pc = "send"
    /\ Configure(worker) \/ UNCHANGED mouse
    /\ \/ Fails
       \/ worker.cmd.kind = "send" /\ Succeeds
       \/ worker.cmd.kind # "send" /\ Continue([worker EXCEPT !.pc = "arm"])
    /\ UNCHANGED <<mailbox, handle, queue, requests, touches>>

\* Faulty variant: a profile read takes its sections from the current profile.
NextOfCurrent(w) ==
    IF w.cmd.kind = "profile" /\ w.reads # <<>>
    THEN [section |-> Len(w.reads), profile |-> w.reads[1].value.current]
    ELSE w.cmd.target

\* The next report that the command reads.
NextTarget(w) ==
    IF w.cmd.kind = "profile" /\ w.reads # <<>>
    THEN [section |-> Len(w.reads), profile |-> w.cmd.value]
    ELSE w.cmd.target

\* read_attempt: a fresh selector.
Arm ==
    /\ worker.pc = "arm"
    /\ mailbox' = [mailbox EXCEPT !.armed = NextTarget(worker), !.ready = FALSE]
    /\ Continue([worker EXCEPT !.pc = "poll"])
    /\ UNCHANGED <<mouse, handle, queue, requests, touches>>

\* Faulty variant: an initial delay instead of the readiness loop.
PollOnce ==
    /\ worker.pc = "poll"
    /\ Continue([worker EXCEPT !.pc = "fetch"])
    /\ UNCHANGED <<mouse, mailbox, handle, queue, requests, touches>>

\* What the readiness report 0xa0 says.
Ready == mailbox.ready

\* The readiness loop sees the mailbox ready; until then it changes nothing.
Poll ==
    /\ worker.pc = "poll" /\ Ready
    /\ Continue([worker EXCEPT !.pc = "fetch"])
    /\ UNCHANGED <<mouse, mailbox, handle, queue, requests, touches>>

\* Faulty variants: attempts without end, and one attempt too many.
RetryForever == Continue([worker EXCEPT !.pc = "arm"])

RetryOnceMore ==
    IF worker.attempt <= MaxAttempts
    THEN Continue([worker EXCEPT !.pc = "arm", !.attempt = @ + 1])
    ELSE Fails

\* armed_read: a failed attempt is rearmed, up to the bound of the policy.
Retry ==
    IF worker.attempt < MaxAttempts
    THEN Continue([worker EXCEPT !.pc = "arm", !.attempt = @ + 1])
    ELSE Fails

\* The mailbox did not become ready in time, or its status is malformed.
NotReady ==
    /\ worker.pc = "poll"
    /\ Retry
    /\ UNCHANGED <<mouse, mailbox, handle, queue, requests, touches>>

\* activate_profile and set_maximum_profile look at the metadata before they
\* write: already active, not enabled, below the current profile.
Refused(w, m) ==
    \/ w.cmd.kind = "activate" /\ (m.current = w.cmd.value \/ w.cmd.value > m.maximum)
    \/ w.cmd.kind = "maximum" /\ w.cmd.value < m.current

\* What the command does with a decoded report, w having it in its reads.
Accept(w) ==
    LET got == w.reads[Len(w.reads)].value
        again == [w EXCEPT !.attempt = 1]
        Verify(expected) == Reply(got = expected)
    IN
    \/ w.cmd.kind \in {"read", "raw"} /\ Succeeds
    \/ w.cmd.kind = "write" /\ Verify(w.cmd.value)
    \/ w.cmd.kind = "profile" /\ IF Len(w.reads) = Sections + 1 THEN Succeeds
                                 ELSE Continue([again EXCEPT !.pc = "arm"])
    \/ /\ w.cmd.kind \in {"activate", "maximum"} /\ Len(w.reads) = 1
       /\ IF Refused(w, got) THEN Fails
          ELSE IF w.cmd.kind = "maximum" /\ w.cmd.value = got.maximum
          THEN Succeeds
          ELSE Continue([again EXCEPT !.pc = "send"])
    \/ w.cmd.kind \in {"activate", "maximum"} /\ Len(w.reads) = 2 /\ Verify(Expected(w))

\* The decoders refuse the report of another target; a raw readback has none.
Decodes(w, report) == w.cmd.kind = "raw" \/ report.target = NextTarget(w)

\* The report is fetched once.  It may be malformed, and a second fetch without
\* rearming (another session was faster) fails.
Fetch ==
    /\ worker.pc = "fetch"
    /\ \/ /\ mailbox.ready /\ Decodes(worker, mailbox.report)
          /\ Accept([worker EXCEPT !.reads = Append(@, mailbox.report)])
       \/ mailbox.ready /\ Retry
       \/ ~mailbox.ready /\ Fails
    /\ mailbox' = [mailbox EXCEPT !.ready = FALSE]
    /\ UNCHANGED <<mouse, handle, queue, requests, touches>>

\* An I/O error is not retried.
TransportError ==
    /\ worker.pc \in {"arm", "poll", "fetch"}
    /\ Fails
    /\ UNCHANGED <<mouse, mailbox, handle, queue, requests, touches>>

-----------------------------------------------------------------------------
(* The mouse, its user, and other sessions. *)

Current(t) == [target |-> t, value |-> IF t = Meta THEN metadata ELSE image[t.profile][t.section]]

\* The history of the running command.
Note(flag) == worker' = IF worker \in {Idle, Ended} THEN worker ELSE [worker EXCEPT ![flag] = FALSE]

\* The report producer publishes the selected report or, in a race with the
\* selector, the preceding one.
Publish ==
    /\ mailbox.armed # None
    /\ \/ /\ mailbox' = [armed |-> None, ready |-> TRUE, report |-> Current(mailbox.armed)]
          /\ UNCHANGED worker
       \/ /\ mailbox.report # None
          /\ mailbox' = [mailbox EXCEPT !.armed = None, !.ready = TRUE]
          /\ Note("clean")
    /\ UNCHANGED <<mouse, handle, queue, client, requests, touches>>

Touch == touches < MaxTouches /\ touches' = touches + 1 /\ UNCHANGED <<handle, queue, client, requests>>

\* A button of the mouse, or a report of another session, changes a section or
\* the metadata.
ChangeMouse ==
    /\ Touch
    /\ \/ \E p \in Profile, n \in Section, v \in Value :
             image' = [image EXCEPT ![p][n] = v] /\ UNCHANGED metadata
       \/ metadata' \in Metadata /\ UNCHANGED image
    /\ mouse' # mouse
    /\ Note("clean") /\ UNCHANGED mailbox

\* Another session arms a read of its own, or fetches what is ready.
UseMailbox ==
    /\ Touch
    /\ \/ \E t \in Target : mailbox' = [mailbox EXCEPT !.armed = t, !.ready = FALSE]
       \/ mailbox.ready /\ mailbox' = [mailbox EXCEPT !.ready = FALSE]
    /\ Note("alone") /\ UNCHANGED mouse

-----------------------------------------------------------------------------
WorkerStep ==
    \/ Take \/ End \/ SendReport
    \/ Arm \/ Poll \/ NotReady \/ Fetch \/ TransportError

Next ==
    \/ Open \/ DropHandle
    \/ \E c \in Client : Abandon(c) \/ \E cmd \in Command : Request(c, cmd)
    \/ WorkerStep
    \/ Publish \/ ChangeMouse \/ UseMailbox

\* The worker thread runs, and every wait of it is bounded: by the readiness
\* timeout, by the time-out of the transport.
Spec == Init /\ [][Next]_vars /\ WF_vars(WorkerStep)

-----------------------------------------------------------------------------
(* Properties. *)

\* The running command succeeds and its caller is told.
Answered == \E c \in Client :
    worker.pc = "fetch" /\ worker.caller = c /\ client'[c] = Done(TRUE)

\* If the command answers with success now, the mouse is as it says.
TrueAnswer ==
    LET cmd == worker.cmd
        reads == Append(worker.reads, mailbox.report)
    IN
    Answered /\ worker.clean /\ (cmd.kind = "raw" => worker.alone) =>
       /\ cmd.kind \in {"read", "raw"} => reads = <<Current(cmd.target)>>
       /\ cmd.kind = "profile" =>
             reads = [i \in 1..Sections + 1 |->
                        Current(IF i = 1 THEN Meta ELSE [section |-> i - 1, profile |-> cmd.value])]
       /\ cmd.kind = "write" => image[cmd.target.profile][cmd.target.section] = cmd.value
       /\ cmd.kind = "activate" => metadata = [reads[1].value EXCEPT !.current = cmd.value]
       /\ cmd.kind = "maximum" => metadata = [reads[1].value EXCEPT !.maximum = cmd.value]

\* A successful answer is the state of the mouse, if nobody else changed the
\* mouse while the command ran and no report was mixed up: each report read is
\* the present content of its own target (so the sections of a profile belong
\* together), a verified write and a control write are in effect, whatever other
\* sessions read meanwhile.  A raw readback needs the mailbox to itself.
AnswerIsState == [][TrueAnswer]_vars

\* A worker that has the mailbox to itself fetches only a prepared report: every
\* fetch, a retry's too, follows a selector of its own.
FetchIsArmed == worker.pc = "fetch" /\ worker.alone => mailbox.ready

\* Every accepted request is answered, whatever the mouse and others do to it.
RequestsAnswered == \A c \in Client : client[c].pc = "waiting" ~> client[c].pc # "waiting"

\* A worker whose handle is gone runs what it has accepted and ends.
WorkerEnds == handle = "dropped" ~> worker = Ended
=============================================================================
