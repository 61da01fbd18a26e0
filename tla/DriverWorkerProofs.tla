-------------------------- MODULE DriverWorkerProofs --------------------------
(***************************************************************************)
(* The type invariant of DriverWorker, FetchIsArmed and AnswerIsState, for *)
(* any number of clients, profiles, sections and attempts and any queue    *)
(* capacity.                                                               *)
(***************************************************************************)
EXTENDS DriverWorker, SequenceTheorems, TLAPS

\* What the worker has read fits what it does next: a report that it is about to
\* send is that of a write command, or of a control write that the metadata it
\* has just read allows; a profile read has a section left.
ReadsFit(w) ==
    /\ w.pc = "send" =>
         \/ w.cmd.kind \in {"send", "write"}
         \/ /\ w.cmd.kind \in {"activate", "maximum"}
            /\ Len(w.reads) = 1 /\ w.reads[1].target = Meta
            /\ ~Refused(w, w.reads[1].value)
    /\ w.cmd.kind = "profile" => Len(w.reads) <= Sections

IInv ==
    /\ TypeOK /\ FetchIsArmed
    /\ worker \in Busy => ReadsFit(worker)

-----------------------------------------------------------------------------
(* The worker, by its program counter. *)

\* A worker that does not run has none of the fields of one that does.
LEMMA NotBusy == Idle \notin Busy /\ Ended \notin Busy /\ Idle # Ended
BY DEF Idle, Ended, Busy

\* At one of these program counters the worker runs a command.
LEMMA BusyAt ==
    ASSUME TypeOK, worker.pc \in {"send", "arm", "poll", "fetch"}
    PROVE  worker \in Busy
BY DEF TypeOK, Idle, Ended

\* A worker that does not run is at none of them.
LEMMA NotBusyAt ==
    ASSUME NEW w \in {Idle, Ended}
    PROVE  w.pc \notin {"send", "arm", "poll", "fetch"}
BY DEF Idle, Ended

\* The fields of a running worker.
LEMMA BusyFields ==
    ASSUME NEW w \in Busy
    PROVE  /\ w.pc \in {"send", "arm", "poll", "fetch"} /\ w.cmd \in Command
           /\ w.caller \in {None} \cup Client /\ w.attempt \in 1..MaxAttempts
           /\ w.reads \in Seq(Report)
           /\ w.clean \in BOOLEAN /\ w.alone \in BOOLEAN
BY DEF Busy

\* Moving to another program counter keeps the rest.
LEMMA Moved ==
    ASSUME NEW w \in Busy, NEW pc \in {"send", "arm", "poll", "fetch"}
    PROVE  LET v == [w EXCEPT !.pc = pc] IN
           /\ v \in Busy /\ v.pc = pc
           /\ v.cmd = w.cmd /\ v.reads = w.reads /\ v.attempt = w.attempt
           /\ v.alone = w.alone
BY DEF Busy

\* The target of the next report is a target.
LEMMA NextTargetType ==
    ASSUME NEW w \in Busy, ReadsFit(w)
    PROVE  NextTarget(w) \in Target
<1>1. CASE w.cmd.kind = "profile" /\ w.reads # <<>>
  <2>1. w.reads \in Seq(Report) /\ w.cmd \in Command
    BY BusyFields
  <2>2. Len(w.reads) \in Section
    BY <1>1, <2>1, SizesAssumption, EmptySeq DEF ReadsFit, Section
  <2>3. w.cmd.value \in Profile
    BY <1>1, <2>1 DEF Command, Reads, Writes, Changes
  <2> QED BY <1>1, <2>2, <2>3 DEF NextTarget, Target
<1>2. CASE ~(w.cmd.kind = "profile" /\ w.reads # <<>>)
  <2>1. w.cmd \in Command
    BY BusyFields
  <2>2. w.cmd.target \in Target
    BY <2>1 DEF Command, Reads, Writes, Changes, Target
  <2> QED BY <1>2, <2>2 DEF NextTarget
<1> QED BY <1>1, <1>2

-----------------------------------------------------------------------------
(* The states of the clients, and answers. *)

ClientState == [pc : {"idle", "waiting"}] \cup [pc : {"done"}, ok : BOOLEAN]

\* reply.send: an answer frees the worker.
LEMMA ReplyKeeps ==
    ASSUME TypeOK, NEW ok \in BOOLEAN, Reply(ok)
    PROVE  worker' = Idle /\ client' \in [Client -> ClientState]
<1>1. Done(ok) \in ClientState
  BY DEF Done, ClientState
<1>2. client \in [Client -> ClientState]
  BY DEF TypeOK, ClientState
<1> QED BY <1>1, <1>2 DEF Reply

\* A retry starts over at the selector, or answers.
LEMMA RetryKeeps ==
    ASSUME TypeOK, worker \in Busy, ReadsFit(worker), Retry
    PROVE  /\ client' \in [Client -> ClientState]
           /\ worker' = Idle \/ (worker' \in Busy /\ worker'.pc = "arm" /\ ReadsFit(worker'))
<1>1. CASE worker.attempt < MaxAttempts
  <2>1. worker.attempt + 1 \in 1..MaxAttempts
    BY <1>1, BusyFields, SizesAssumption
  <2>2. worker' = [worker EXCEPT !.pc = "arm", !.attempt = @ + 1] /\ client' = client
    BY <1>1 DEF Retry, Continue
  <2>3. worker' \in Busy /\ worker'.pc = "arm" /\ worker'.cmd = worker.cmd /\ worker'.reads = worker.reads
    BY <2>1, <2>2 DEF Busy
  <2>4. ReadsFit(worker')
    BY <2>3 DEF ReadsFit
  <2> QED BY <2>2, <2>3, <2>4 DEF TypeOK, ClientState
<1>2. CASE ~(worker.attempt < MaxAttempts)
  BY <1>2, ReplyKeeps DEF Retry, Fails
<1> QED BY <1>1, <1>2

\* What a decoded report leads to: an answer, the next selector of a composite
\* read, or a control write that the metadata allows.
LEMMA AcceptKeeps ==
    ASSUME TypeOK, worker \in Busy, ReadsFit(worker), worker.pc = "fetch",
           NEW r \in Report, Decodes(worker, r),
           Accept([worker EXCEPT !.reads = Append(@, r)])
    PROVE  /\ client' \in [Client -> ClientState]
           /\ worker' = Idle \/ (worker' \in Busy /\ worker'.pc \in {"arm", "send"} /\ ReadsFit(worker'))
<1> DEFINE w == [worker EXCEPT !.reads = Append(@, r)]
           got == w.reads[Len(w.reads)].value
           again == [w EXCEPT !.attempt = 1]
<1>1. worker.reads \in Seq(Report) /\ worker.cmd \in Command
  BY BusyFields
<1>2. /\ w \in Busy /\ w.pc = "fetch" /\ w.cmd = worker.cmd
      /\ w.reads = Append(worker.reads, r)
  BY <1>1 DEF Busy
<1>3. Len(w.reads) = Len(worker.reads) + 1 /\ got = r.value /\ w.reads[Len(w.reads)] = r
  BY <1>1, <1>2
<1>4. 1 \in 1..MaxAttempts
  BY SizesAssumption
<1>5. \A pc \in {"arm", "send"} :
        LET v == [again EXCEPT !.pc = pc] IN
        v \in Busy /\ v.pc = pc /\ v.cmd = w.cmd /\ v.reads = w.reads
  BY <1>2, <1>4 DEF Busy
<1>6. CASE \E ok \in BOOLEAN : Reply(ok)
  BY <1>6, ReplyKeeps
<1>7. CASE w.cmd.kind = "profile" /\ Len(w.reads) # Sections + 1
           /\ Continue([again EXCEPT !.pc = "arm"])
  <2>1. worker' \in Busy /\ worker'.pc = "arm" /\ worker'.cmd = w.cmd /\ worker'.reads = w.reads
    BY <1>5, <1>7 DEF Continue
  <2>2. Len(w.reads) <= Sections
    BY <1>1, <1>2, <1>3, <1>7, SizesAssumption DEF ReadsFit
  <2>3. ReadsFit(worker')
    BY <1>7, <2>1, <2>2 DEF ReadsFit
  <2> QED BY <1>7, <2>1, <2>3 DEF Continue, TypeOK, ClientState
<1>8. CASE /\ w.cmd.kind \in {"activate", "maximum"} /\ Len(w.reads) = 1 /\ ~Refused(w, got)
           /\ Continue([again EXCEPT !.pc = "send"])
  <2>1. worker' \in Busy /\ worker'.pc = "send" /\ worker'.cmd = w.cmd /\ worker'.reads = w.reads
    BY <1>5, <1>8 DEF Continue
  <2>2. r.target = NextTarget(worker)
    BY <1>2, <1>8 DEF Decodes
  <2>3. NextTarget(worker) = worker.cmd.target /\ worker.cmd.target = Meta
    BY <1>1, <1>2, <1>8 DEF NextTarget, Command, Reads, Writes, Changes
  <2>4. Len(worker'.reads) = 1 /\ worker'.reads[1].target = Meta
    BY <1>3, <1>8, <2>1, <2>2, <2>3
  <2>5. ~Refused(worker', worker'.reads[1].value)
    BY <1>3, <1>8, <2>1 DEF Refused
  <2>6. ReadsFit(worker')
    BY <1>8, <2>1, <2>4, <2>5 DEF ReadsFit
  <2> QED BY <1>8, <2>1, <2>6 DEF Continue, TypeOK, ClientState
<1>9. \A x, y : (x = y) \in BOOLEAN
  OBVIOUS
<1>10. \/ \E ok \in BOOLEAN : Reply(ok)
       \/ /\ w.cmd.kind = "profile" /\ Len(w.reads) # Sections + 1
          /\ Continue([again EXCEPT !.pc = "arm"])
       \/ /\ w.cmd.kind \in {"activate", "maximum"} /\ Len(w.reads) = 1 /\ ~Refused(w, got)
          /\ Continue([again EXCEPT !.pc = "send"])
  BY <1>9 DEF Accept, Succeeds, Fails
<1> QED BY <1>6, <1>7, <1>8, <1>10

-----------------------------------------------------------------------------
(* Every step keeps the invariant. *)

Entry == [cmd : Command, caller : {None} \cup Client]
Mailbox == [armed : {None} \cup Target, ready : BOOLEAN, report : {None} \cup Report]
Shape == {Idle, Ended} \cup Busy

\* A worker that was not spawned satisfies the invariant.
LEMMA Inits == Init => IInv
<1> SUFFICES ASSUME Init PROVE IInv
  OBVIOUS
<1>1. image \in [Profile -> [Section -> Value]] /\ metadata \in Metadata
  BY SizesAssumption DEF Init
<1>2. mailbox \in Mailbox /\ ~mailbox.ready
  BY DEF Init, Mailbox
<1>3. queue \in Seq(Entry) /\ Len(queue) <= QueueCap
  BY SizesAssumption DEF Init
<1>4. client \in [Client -> ClientState]
  BY DEF Init, Idle, ClientState
<1>5. TypeOK
  BY <1>1, <1>2, <1>3, <1>4 DEF Init, TypeOK, Entry, Mailbox, ClientState
<1>6. worker = Ended
  BY DEF Init
<1> QED BY <1>5, <1>6, NotBusy, NotBusyAt DEF IInv, FetchIsArmed

\* A step of the worker that leaves the mouse and its mailbox typed, and goes
\* anywhere but to the fetch.
LEMMA WorkerMoves ==
    ASSUME IInv,
           image' \in [Profile -> [Section -> Value]], metadata' \in Metadata,
           mailbox' \in Mailbox, mailbox'.ready => mailbox'.report # None,
           client' \in [Client -> ClientState],
           worker \in Busy,
           worker' = Idle \/ (worker' \in Busy /\ worker'.pc # "fetch" /\ ReadsFit(worker')),
           UNCHANGED <<handle, queue>>
    PROVE  IInv'
<1>1. worker' # Ended
  BY NotBusy
<1>2. worker'.pc # "fetch"
  BY NotBusyAt
<1>3. worker' \in Busy => ReadsFit(worker')
  BY NotBusy
<1>4. TypeOK'
  BY <1>1 DEF IInv, TypeOK, Mailbox, ClientState
<1> QED BY <1>2, <1>3, <1>4 DEF IInv, FetchIsArmed, ReadsFit, Refused

\* The mouse, its mailbox and the clients as TypeOK describes them.
LEMMA Typed ==
    ASSUME TypeOK
    PROVE  /\ image \in [Profile -> [Section -> Value]] /\ metadata \in Metadata
           /\ mailbox \in Mailbox
           /\ mailbox.ready => mailbox.report # None /\ mailbox.report \in Report
           /\ client \in [Client -> ClientState]
           /\ queue \in Seq(Entry)
BY DEF TypeOK, Mailbox, ClientState, Entry

\* SendReport: a control write keeps the current profile within the maximum.
LEMMA SendStep == ASSUME IInv, SendReport PROVE IInv'
<1>1. worker.pc = "send" /\ worker \in Busy /\ ReadsFit(worker)
  BY BusyAt DEF IInv, SendReport
<1>2. worker.cmd \in Command /\ worker.reads \in Seq(Report)
  BY <1>1, BusyFields
<1>3. image' \in [Profile -> [Section -> Value]] /\ metadata' \in Metadata
  <2>1. CASE UNCHANGED mouse
    BY <2>1, Typed DEF mouse, IInv
  <2>2. CASE /\ worker.cmd.kind \in {"send", "write"}
             /\ image' = [image EXCEPT ![worker.cmd.target.profile][worker.cmd.target.section]
                            = worker.cmd.value]
             /\ UNCHANGED metadata
    <3>1. worker.cmd.value \in Value
      BY <1>2, <2>2 DEF Command, Reads, Writes, Changes
    <3> QED BY <2>2, <3>1, Typed DEF IInv
  <2>3. CASE /\ worker.cmd.kind \in {"activate", "maximum"}
             /\ metadata' = Expected(worker) /\ UNCHANGED image
    <3> DEFINE m == worker.reads[1].value
    <3>1. Len(worker.reads) = 1 /\ worker.reads[1].target = Meta /\ ~Refused(worker, m)
      BY <1>1, <2>3 DEF ReadsFit
    <3>2. worker.reads[1] \in Report
      BY <1>2, <3>1
    <3>3. m \in Metadata
      BY <3>1, <3>2 DEF Report
    <3>4. worker.cmd.value \in Profile
      BY <1>2, <2>3 DEF Command, Reads, Writes, Changes
    <3>5. /\ m.current \in Profile /\ m.maximum \in Profile
          /\ m = [current |-> m.current, maximum |-> m.maximum]
      BY <3>3 DEF Metadata
    <3>6. Expected(worker) \in Metadata
      <4>1. CASE worker.cmd.kind = "activate"
        BY <3>1, <3>4, <3>5, <4>1, SizesAssumption DEF Expected, Refused, Metadata, Profile
      <4>2. CASE worker.cmd.kind = "maximum"
        BY <3>1, <3>4, <3>5, <4>2, SizesAssumption DEF Expected, Refused, Metadata, Profile
      <4> QED BY <2>3, <4>1, <4>2
    <3> QED BY <2>3, <3>6, Typed DEF IInv
  <2> QED BY <2>1, <2>2, <2>3 DEF SendReport, Configure
<1>4. /\ client' \in [Client -> ClientState]
      /\ worker' = Idle \/ (worker' \in Busy /\ worker'.pc # "fetch" /\ ReadsFit(worker'))
  <2>1. CASE Fails \/ Succeeds
    BY <2>1, ReplyKeeps DEF Fails, Succeeds, IInv
  <2>2. CASE Continue([worker EXCEPT !.pc = "arm"])
    BY <1>1, <2>2, Moved, Typed DEF Continue, ReadsFit, IInv
  <2> QED BY <2>1, <2>2 DEF SendReport
<1> QED BY <1>1, <1>3, <1>4, WorkerMoves, Typed DEF SendReport, IInv

\* Arm: the selector names a target and empties the mailbox.
LEMMA ArmStep == ASSUME IInv, Arm PROVE IInv'
<1>1. worker.pc = "arm" /\ worker \in Busy /\ ReadsFit(worker)
  BY BusyAt DEF IInv, Arm
<1>2. NextTarget(worker) \in Target
  BY <1>1, NextTargetType
<1>3. mailbox' \in Mailbox /\ ~mailbox'.ready
  BY <1>2, Typed DEF Arm, IInv, Mailbox
<1>4. worker' \in Busy /\ worker'.pc = "poll" /\ ReadsFit(worker')
  BY <1>1, Moved DEF Arm, Continue, ReadsFit
<1> QED BY <1>1, <1>3, <1>4, WorkerMoves, Typed DEF Arm, Continue, mouse, IInv

\* Poll: the one step that leads to the fetch finds the mailbox ready.
LEMMA PollStep == ASSUME IInv, Poll PROVE IInv'
<1>1. worker.pc = "poll" /\ worker \in Busy /\ ReadsFit(worker)
  BY BusyAt DEF IInv, Poll
<1>2. worker' \in Busy /\ worker'.pc = "fetch" /\ ReadsFit(worker')
  BY <1>1, Moved DEF Poll, Continue, ReadsFit
<1>3. TypeOK'
  BY <1>2, NotBusy DEF IInv, TypeOK, Poll, Continue, mouse
<1>4. mailbox'.ready
  BY DEF Poll, Ready
<1> QED BY <1>2, <1>3, <1>4 DEF IInv, FetchIsArmed, ReadsFit, Refused

\* NotReady: the attempt is repeated or the command fails.
LEMMA NotReadyStep == ASSUME IInv, NotReady PROVE IInv'
<1>1. worker.pc = "poll" /\ worker \in Busy /\ ReadsFit(worker)
  BY BusyAt DEF IInv, NotReady
<1> QED BY <1>1, RetryKeeps, WorkerMoves, Typed DEF NotReady, mouse, IInv

\* Fetch: it empties the mailbox, and the worker leaves the fetch.
LEMMA FetchStep == ASSUME IInv, Fetch PROVE IInv'
<1>1. worker.pc = "fetch" /\ worker \in Busy /\ ReadsFit(worker)
  BY BusyAt DEF IInv, Fetch
<1>2. mailbox' \in Mailbox /\ ~mailbox'.ready
  BY Typed DEF Fetch, IInv, Mailbox
<1>3. /\ client' \in [Client -> ClientState]
      /\ worker' = Idle \/ (worker' \in Busy /\ worker'.pc # "fetch" /\ ReadsFit(worker'))
  <2>1. CASE /\ mailbox.ready /\ Decodes(worker, mailbox.report)
             /\ Accept([worker EXCEPT !.reads = Append(@, mailbox.report)])
    BY <1>1, <2>1, AcceptKeeps, Typed DEF IInv
  <2>2. CASE Retry
    BY <1>1, <2>2, RetryKeeps DEF IInv
  <2>3. CASE Fails
    BY <2>3, ReplyKeeps DEF Fails, IInv
  <2> QED BY <2>1, <2>2, <2>3 DEF Fetch
<1> QED BY <1>1, <1>2, <1>3, WorkerMoves, Typed DEF Fetch, mouse, IInv

\* TransportError: the command fails.
LEMMA ErrorStep == ASSUME IInv, TransportError PROVE IInv'
<1>1. worker \in Busy
  BY BusyAt DEF IInv, TransportError
<1> QED BY <1>1, ReplyKeeps, WorkerMoves, Typed DEF TransportError, Fails, mouse, IInv

\* Take: the oldest entry of the queue becomes the running command.
LEMMA TakeStep == ASSUME IInv, Take PROVE IInv'
<1> DEFINE entry == Head(queue)
<1>1. worker = Idle /\ queue # <<>> /\ queue \in Seq(Entry)
  BY Typed DEF Take, IInv
<1>2. entry \in Entry /\ queue' \in Seq(Entry) /\ Len(queue') <= QueueCap
  BY <1>1, SizesAssumption, HeadTailProperties DEF Take, IInv, TypeOK
<1>3. entry.cmd \in Command /\ entry.caller \in {None} \cup Client
  BY <1>2 DEF Entry
<1>4. 1 \in 1..MaxAttempts /\ <<>> \in Seq(Report)
  BY SizesAssumption
<1>5. worker' = [pc |-> IF entry.cmd.kind \in {"send", "write"} THEN "send" ELSE "arm",
                 cmd |-> entry.cmd, caller |-> entry.caller, attempt |-> 1,
                 reads |-> <<>>, clean |-> TRUE, alone |-> TRUE]
  BY DEF Take
<1>6. worker' \in Busy
  BY <1>3, <1>4, <1>5 DEF Busy
<1>7. /\ worker'.pc = IF worker'.cmd.kind \in {"send", "write"} THEN "send" ELSE "arm"
      /\ worker'.reads = <<>>
  BY <1>5
<1>8. Len(worker'.reads) <= Sections
  BY <1>7, SizesAssumption
<1>9. ReadsFit(worker')
  BY <1>7, <1>8 DEF ReadsFit
<1>10. TypeOK'
  BY <1>2, <1>6, NotBusy DEF Take, IInv, TypeOK, Entry, mouse
<1> QED BY <1>7, <1>9, <1>10 DEF IInv, FetchIsArmed, ReadsFit, Refused

\* End: the worker ends with nothing queued and the handle gone.
LEMMA EndStep == ASSUME IInv, End PROVE IInv'
<1>1. TypeOK'
  BY DEF End, IInv, TypeOK, mouse
<1>2. worker' = Ended
  BY DEF End
<1> QED BY <1>1, <1>2, NotBusy, NotBusyAt DEF IInv, FetchIsArmed

-----------------------------------------------------------------------------
(* The steps of clients and of the mouse. *)

\* Open: an idle worker is spawned.
LEMMA OpenStep == ASSUME IInv, Open PROVE IInv'
<1>1. TypeOK'
  BY NotBusy DEF Open, IInv, TypeOK, mouse
<1>2. worker' = Idle
  BY DEF Open
<1> QED BY <1>1, <1>2, NotBusy, NotBusyAt DEF IInv, FetchIsArmed

\* DropHandle: nothing but the handle changes.
LEMMA DropStep == ASSUME IInv, DropHandle PROVE IInv'
<1>1. TypeOK'
  BY DEF DropHandle, IInv, TypeOK, mouse
<1> QED BY <1>1 DEF DropHandle, IInv, FetchIsArmed, ReadsFit, Refused

\* Request: an entry is queued within the capacity, or refused.
LEMMA RequestStep ==
    ASSUME IInv, NEW c \in Client, NEW cmd \in Command, Request(c, cmd)
    PROVE  IInv'
<1>1. /\ queue' \in Seq(Entry) /\ Len(queue') <= QueueCap
      /\ client' \in [Client -> ClientState]
  <2>1. client \in [Client -> ClientState] /\ queue \in Seq(Entry) /\ Len(queue) <= QueueCap
    BY Typed DEF IInv, TypeOK
  <2>2. [cmd |-> cmd, caller |-> c] \in Entry
    BY DEF Entry
  <2>3. [pc |-> "waiting"] \in ClientState /\ Done(FALSE) \in ClientState
    BY DEF ClientState, Done
  <2>4. CASE Len(queue) < QueueCap
    <3>1. /\ queue' = Append(queue, [cmd |-> cmd, caller |-> c])
          /\ client' = [client EXCEPT ![c] = [pc |-> "waiting"]]
      BY <2>4 DEF Request
    <3>2. queue' \in Seq(Entry) /\ Len(queue') = Len(queue) + 1 /\ Len(queue) \in Nat
      BY <2>1, <2>2, <3>1
    <3>3. Len(queue') <= QueueCap
      BY <2>4, <3>2, SizesAssumption
    <3> QED BY <2>1, <2>3, <3>1, <3>2, <3>3
  <2>5. CASE ~(Len(queue) < QueueCap)
    BY <2>1, <2>3, <2>5 DEF Request
  <2> QED BY <2>4, <2>5
<1>2. worker # Ended /\ UNCHANGED <<image, metadata, mailbox, handle, worker>>
  BY DEF Request, IInv, TypeOK, mouse
<1>3. TypeOK'
  BY <1>1, <1>2 DEF IInv, TypeOK, Entry, ClientState
<1> QED BY <1>2, <1>3 DEF IInv, FetchIsArmed, ReadsFit, Refused

\* Abandon: the command stays, without its caller.
LEMMA AbandonStep ==
    ASSUME IInv, NEW c \in Client, Abandon(c)
    PROVE  IInv'
<1>1. queue' \in Seq(Entry) /\ Len(queue') = Len(queue)
  <2>1. queue \in Seq(Entry)
    BY Typed DEF IInv
  <2>2. \A i \in 1..Len(queue) : Forgets(queue[i], c) \in Entry
    <3> TAKE i \in 1..Len(queue)
    <3>1. queue[i] \in Entry
      BY <2>1
    <3> QED BY <3>1 DEF Forgets, Entry
  <2>3. queue' = [i \in 1..Len(queue) |-> Forgets(queue[i], c)]
    BY <2>1 DEF Abandon
  <2> QED BY <2>1, <2>2, <2>3
<1>2. client' \in [Client -> ClientState]
  BY Typed DEF Abandon, IInv, Idle, ClientState
<1>3. CASE worker \in {Idle, Ended}
  <2>1. worker' = worker
    BY <1>3 DEF Abandon
  <2>2. queue = <<>> => queue' = <<>>
    BY <1>1, Typed DEF IInv
  <2>3. TypeOK'
    BY <1>1, <1>2, <2>1, <2>2 DEF Abandon, IInv, TypeOK, Entry, ClientState, mouse
  <2> QED BY <1>3, <2>1, <2>3, NotBusy, NotBusyAt DEF IInv, FetchIsArmed
<1>4. CASE worker \in Busy
  <2>1. worker' = Forgets(worker, c)
    BY <1>4, NotBusy DEF Abandon
  <2>2. /\ worker' \in Busy /\ worker'.pc = worker.pc /\ worker'.cmd = worker.cmd
        /\ worker'.reads = worker.reads /\ worker'.alone = worker.alone
    BY <1>4, <2>1 DEF Forgets, Busy
  <2>3. TypeOK'
    BY <1>1, <1>2, <2>2, NotBusy DEF Abandon, IInv, TypeOK, Entry, ClientState, mouse
  <2> QED BY <1>4, <2>2, <2>3 DEF Abandon, IInv, FetchIsArmed, ReadsFit, Refused
<1> QED BY <1>3, <1>4 DEF IInv, TypeOK

\* What others do to the mouse: they may empty the mailbox only if the worker,
\* when it runs, notes that it is not alone.
LEMMA OthersMove ==
    ASSUME IInv,
           image' \in [Profile -> [Section -> Value]], metadata' \in Metadata,
           mailbox' \in Mailbox, mailbox'.ready => mailbox'.report # None,
           NEW flag \in {"clean", "alone"},
           UNCHANGED worker \/ Note(flag),
           mailbox.ready => mailbox'.ready \/ (flag = "alone" /\ Note(flag)),
           UNCHANGED <<handle, queue, client>>
    PROVE  IInv'
<1>1. CASE UNCHANGED worker /\ (mailbox.ready => mailbox'.ready)
  <2>1. TypeOK'
    BY <1>1 DEF IInv, TypeOK, Mailbox
  <2> QED BY <1>1, <2>1 DEF IInv, FetchIsArmed, ReadsFit, Refused
<1>2. CASE Note(flag) /\ worker \in {Idle, Ended}
  <2>1. worker' = worker
    BY <1>2 DEF Note
  <2>2. TypeOK'
    BY <2>1 DEF IInv, TypeOK, Mailbox
  <2> QED BY <1>2, <2>1, <2>2, NotBusy, NotBusyAt DEF IInv, FetchIsArmed
<1>3. CASE Note(flag) /\ worker \in Busy
  <2>1. worker' = [worker EXCEPT ![flag] = FALSE]
    BY <1>3, NotBusy DEF Note
  <2>2. /\ worker' \in Busy /\ worker'.pc = worker.pc /\ worker'.cmd = worker.cmd
        /\ worker'.reads = worker.reads
        /\ worker'.alone = IF flag = "alone" THEN FALSE ELSE worker.alone
    BY <1>3, <2>1 DEF Busy
  <2>3. TypeOK'
    BY <1>3, <2>2, NotBusy DEF IInv, TypeOK, Mailbox
  <2>4. worker'.pc = "fetch" /\ worker'.alone => mailbox'.ready
    BY <2>2 DEF IInv, FetchIsArmed
  <2> QED BY <1>3, <2>2, <2>3, <2>4 DEF IInv, FetchIsArmed, ReadsFit, Refused
<1> QED BY <1>1, <1>2, <1>3 DEF IInv, TypeOK

\* The mouse publishes reports of its targets.
LEMMA CurrentType ==
    ASSUME TypeOK, NEW t \in Target
    PROVE  Current(t) \in Report
<1>1. CASE t = Meta
  BY <1>1, Typed DEF Current, Report
<1>2. CASE t # Meta
  <2>1. t \in [section : Section, profile : Profile]
    BY <1>2 DEF Target
  <2>2. image[t.profile][t.section] \in Value
    BY <2>1, Typed
  <2> QED BY <1>2, <2>2 DEF Current, Report
<1> QED BY <1>1, <1>2

\* Publish: the mailbox becomes ready, with a report.
LEMMA PublishStep == ASSUME IInv, Publish PROVE IInv'
<1>1. mailbox.armed \in Target /\ mailbox \in Mailbox
  BY Typed DEF Publish, IInv, Mailbox
<1>2. Current(mailbox.armed) \in Report /\ Current(mailbox.armed) # None
  BY <1>1, CurrentType, NoneAssumption DEF IInv
<1>3. CASE mailbox' = [armed |-> None, ready |-> TRUE, report |-> Current(mailbox.armed)]
           /\ UNCHANGED worker
  <2>1. mailbox' \in Mailbox /\ mailbox'.ready /\ mailbox'.report # None
    BY <1>2, <1>3 DEF Mailbox
  <2> QED BY <1>3, <2>1, OthersMove, Typed DEF Publish, IInv, mouse
<1>4. CASE /\ mailbox.report # None /\ Note("clean")
           /\ mailbox' = [mailbox EXCEPT !.armed = None, !.ready = TRUE]
  <2>1. mailbox' \in Mailbox /\ mailbox'.ready /\ mailbox'.report # None
    BY <1>1, <1>4 DEF Mailbox
  <2> QED BY <1>4, <2>1, OthersMove, Typed DEF Publish, IInv, mouse
<1> QED BY <1>3, <1>4 DEF Publish

\* ChangeMouse: the mailbox is left alone.
LEMMA ChangeStep == ASSUME IInv, ChangeMouse PROVE IInv'
<1>1. image \in [Profile -> [Section -> Value]] /\ metadata \in Metadata
  BY Typed DEF IInv
<1>2. image' \in [Profile -> [Section -> Value]] /\ metadata' \in Metadata
  <2>1. CASE \E p \in Profile, n \in Section, v \in Value :
               image' = [image EXCEPT ![p][n] = v] /\ UNCHANGED metadata
    BY <1>1, <2>1
  <2>2. CASE metadata' \in Metadata /\ UNCHANGED image
    BY <1>1, <2>2
  <2> QED BY <2>1, <2>2 DEF ChangeMouse
<1> QED BY <1>2, OthersMove, Typed DEF ChangeMouse, Touch, IInv

\* UseMailbox: the running command is no longer alone.
LEMMA UseStep == ASSUME IInv, UseMailbox PROVE IInv'
<1>1. mailbox' \in Mailbox /\ ~mailbox'.ready
  BY Typed DEF UseMailbox, IInv, Mailbox
<1> QED BY <1>1, OthersMove, Typed DEF UseMailbox, Touch, IInv, mouse

-----------------------------------------------------------------------------
\* The invariant is inductive.
LEMMA Steps == IInv /\ [Next]_vars => IInv'
<1> SUFFICES ASSUME IInv, [Next]_vars PROVE IInv'
  OBVIOUS
<1>1. CASE Open \/ DropHandle
  BY <1>1, OpenStep, DropStep
<1>2. ASSUME NEW c \in Client, Abandon(c) PROVE IInv'
  BY <1>2, AbandonStep
<1>3. ASSUME NEW c \in Client, NEW cmd \in Command, Request(c, cmd) PROVE IInv'
  BY <1>3, RequestStep
<1>4. CASE WorkerStep
  BY <1>4, TakeStep, EndStep, SendStep, ArmStep, PollStep, NotReadyStep, FetchStep,
     ErrorStep DEF WorkerStep
<1>5. CASE Publish \/ ChangeMouse \/ UseMailbox
  BY <1>5, PublishStep, ChangeStep, UseStep
<1>6. CASE UNCHANGED vars
  BY <1>6 DEF vars, mouse, IInv, TypeOK, FetchIsArmed, ReadsFit, Refused
<1> QED BY <1>1, <1>2, <1>3, <1>4, <1>5, <1>6 DEF Next

\* handle.rs and worker.rs keep their queue within its capacity, their reads
\* within the attempts of the policy, and every fetch of a worker that has the
\* mailbox to itself behind a selector of its own.
THEOREM FetchAlwaysArmed == Spec => [](TypeOK /\ FetchIsArmed)
<1>1. IInv => TypeOK /\ FetchIsArmed
  BY DEF IInv
<1> QED BY <1>1, Inits, Steps, PTL DEF Spec

\* The bounded channel never holds more requests than its capacity, no armed_read
\* goes beyond its attempts, and the profile count and the current profile of the
\* metadata stay within what the mouse has.
THEOREM TypeCorrect == Spec => []TypeOK
BY FetchAlwaysArmed, PTL
-----------------------------------------------------------------------------
(* What a successful answer says of the mouse. *)

\* Whoever is to be answered waits, and has made one request.
Callers ==
    /\ \A i \in DOMAIN queue : queue[i].caller # None => client[queue[i].caller].pc = "waiting"
    /\ \A i, j \in DOMAIN queue : queue[i].caller # None /\ queue[i].caller = queue[j].caller => i = j
    /\ worker \in Busy /\ worker.caller # None =>
          /\ client[worker.caller].pc = "waiting"
          /\ \A i \in DOMAIN queue : queue[i].caller # worker.caller

\* A report prepared after the selector is the present content of its target,
\* and its target is the selected one unless another session has interfered.
Fresh(w) ==
    w.pc \in {"poll", "fetch"} /\ w.clean =>
        /\ mailbox.ready => mailbox.report = Current(mailbox.report.target)
        /\ w.alone =>
              /\ mailbox.armed \in {None, NextTarget(w)}
              /\ mailbox.ready => mailbox.report.target = NextTarget(w)

\* The reports of a profile read, in order: the metadata and every section.
ReadTarget(cmd, i) == IF i = 1 THEN Meta ELSE [section |-> i - 1, profile |-> cmd.value]

\* What a command has read so far.
Collected(w) ==
    /\ w.cmd.kind \in {"read", "raw", "write", "send"} => w.reads = <<>>
    /\ w.cmd.kind \in {"activate", "maximum"} =>
          w.reads = <<>> \/ (Len(w.reads) = 1 /\ w.reads[1].target = Meta)
    /\ w.cmd.kind = "profile" /\ w.clean =>
          \A i \in 1..Len(w.reads) : w.reads[i] = Current(ReadTarget(w.cmd, i))

AnswerInv ==
    /\ IInv /\ Callers
    /\ worker \in Busy => Fresh(worker) /\ Collected(worker)
-----------------------------------------------------------------------------
(* The callers. *)

\* An entry keeps the queue's numbering.
LEMMA QueueEntries ==
    ASSUME TypeOK
    PROVE  /\ queue \in Seq(Entry) /\ DOMAIN queue = 1..Len(queue) /\ Len(queue) \in Nat
           /\ \A i \in DOMAIN queue : queue[i] \in Entry /\ queue[i].caller \in {None} \cup Client
<1>1. queue \in Seq(Entry)
  BY Typed
<1>2. DOMAIN queue = 1..Len(queue) /\ Len(queue) \in Nat
  BY <1>1
<1>3. \A i \in DOMAIN queue : queue[i] \in Entry
  BY <1>1
<1> QED BY <1>1, <1>2, <1>3 DEF Entry

\* A step of the running command that answers nobody.
LEMMA CallersSame ==
    ASSUME Callers, UNCHANGED <<queue, client>>,
           worker' \in Busy => worker \in Busy /\ worker'.caller = worker.caller
    PROVE  Callers'
BY DEF Callers

\* An answer ends the wait of its caller, and of no other.
LEMMA CallersAnswered ==
    ASSUME TypeOK, Callers, worker \in Busy, NEW ok \in BOOLEAN, Reply(ok), UNCHANGED queue
    PROVE  Callers'
<1>1. worker' \notin Busy
  BY NotBusy DEF Reply
<1>2. ASSUME NEW i \in DOMAIN queue, queue[i].caller # None
      PROVE  client'[queue[i].caller].pc = "waiting"
  <2>1. queue[i].caller \in Client
    BY <1>2, QueueEntries
  <2>2. queue[i].caller # worker.caller
    BY <1>2 DEF Callers
  <2> QED BY <1>2, <2>1, <2>2 DEF Callers, Reply
<1> QED BY <1>1, <1>2 DEF Callers

\* Take: the caller moves from the queue to the worker.
LEMMA CallersTake == ASSUME TypeOK, Callers, Take PROVE Callers'
<1>1. queue \in Seq(Entry) /\ queue # <<>> /\ queue' = Tail(queue) /\ client' = client
  BY QueueEntries DEF Take
<1>2. /\ DOMAIN queue' = 1..(Len(queue) - 1) /\ 1 \in DOMAIN queue
      /\ \A i \in DOMAIN queue' : i + 1 \in DOMAIN queue /\ queue'[i] = queue[i + 1] /\ i + 1 # 1
  BY <1>1
<1>3. worker'.caller = queue[1].caller
  BY <1>1 DEF Take
<1>4. \A i \in DOMAIN queue' : queue'[i].caller # None => client'[queue'[i].caller].pc = "waiting"
  BY <1>1, <1>2 DEF Callers
<1>5. \A i, j \in DOMAIN queue' :
         queue'[i].caller # None /\ queue'[i].caller = queue'[j].caller => i = j
  <2> TAKE i, j \in DOMAIN queue'
  <2> HAVE queue'[i].caller # None /\ queue'[i].caller = queue'[j].caller
  <2>1. i + 1 = j + 1
    BY <1>2 DEF Callers
  <2>2. i \in Nat /\ j \in Nat
    BY <1>2
  <2> QED BY <2>1, <2>2
<1>6. worker'.caller # None =>
         /\ client'[worker'.caller].pc = "waiting"
         /\ \A i \in DOMAIN queue' : queue'[i].caller # worker'.caller
  BY <1>1, <1>2, <1>3 DEF Callers
<1> QED BY <1>4, <1>5, <1>6 DEF Callers

\* Request: whoever asks was not waiting, so has no other request.
LEMMA CallersRequest ==
    ASSUME TypeOK, Callers, NEW c \in Client, NEW cmd \in Command, Request(c, cmd)
    PROVE  Callers'
<1>1. client[c].pc # "waiting" /\ worker' = worker /\ client \in [Client -> ClientState]
  BY Typed DEF Request
<1>2. ASSUME NEW d \in Client, client[d].pc = "waiting"
      PROVE  client'[d].pc = "waiting"
  BY <1>1, <1>2 DEF Request
<1>3. worker \in Busy /\ worker.caller # None =>
         /\ worker.caller \in Client /\ worker.caller # c /\ client'[worker.caller].pc = "waiting"
  BY <1>1, <1>2, BusyFields DEF Callers
<1>4. \A i \in DOMAIN queue : queue[i].caller # None =>
         /\ queue[i].caller \in Client /\ queue[i].caller # c
         /\ client'[queue[i].caller].pc = "waiting"
  BY <1>1, <1>2, QueueEntries DEF Callers
<1>5. CASE Len(queue) < QueueCap
  <2> DEFINE entry == [cmd |-> cmd, caller |-> c]
             n == Len(queue) + 1
  <2>1. /\ queue' = Append(queue, entry)
        /\ client' = [client EXCEPT ![c] = [pc |-> "waiting"]]
    BY <1>5 DEF Request
  <2>2. entry \in Entry
    BY DEF Entry
  <2>3. /\ DOMAIN queue' = 1..n /\ queue'[n] = entry
        /\ \A i \in DOMAIN queue' : i = n \/ (i \in DOMAIN queue /\ queue'[i] = queue[i])
    BY <2>1, <2>2, QueueEntries
  <2>4. client'[c].pc = "waiting" /\ queue'[n].caller = c /\ c # None
    BY <1>1, <2>1, <2>3, NoneAssumption
  <2>5. \A i \in DOMAIN queue' :
           queue'[i].caller # None => client'[queue'[i].caller].pc = "waiting"
    BY <1>4, <2>3, <2>4
  <2>6. \A i, j \in DOMAIN queue' :
           queue'[i].caller # None /\ queue'[i].caller = queue'[j].caller => i = j
    BY <1>4, <2>3, <2>4 DEF Callers
  <2>7. worker' \in Busy /\ worker'.caller # None =>
           \A i \in DOMAIN queue' : queue'[i].caller # worker'.caller
    BY <1>1, <1>3, <2>3, <2>4 DEF Callers
  <2> QED BY <1>1, <1>3, <2>5, <2>6, <2>7 DEF Callers
<1>6. CASE ~(Len(queue) < QueueCap)
  <2>1. UNCHANGED queue
    BY <1>6 DEF Request
  <2> QED BY <1>1, <1>3, <1>4, <2>1 DEF Callers
<1> QED BY <1>5, <1>6

\* Abandon: whoever no longer waits is forgotten everywhere.
LEMMA CallersAbandon ==
    ASSUME TypeOK, Callers, NEW c \in Client, Abandon(c)
    PROVE  Callers'
<1>1. client \in [Client -> ClientState] /\ client' = [client EXCEPT ![c] = Idle]
  BY Typed DEF Abandon
<1>2. ASSUME NEW d \in Client, d # c, client[d].pc = "waiting"
      PROVE  client'[d].pc = "waiting"
  BY <1>1, <1>2
<1>3. /\ DOMAIN queue' = DOMAIN queue
      /\ \A i \in DOMAIN queue :
            queue'[i].caller = IF queue[i].caller = c THEN None ELSE queue[i].caller
  <2>1. queue' = [i \in DOMAIN queue |-> Forgets(queue[i], c)]
    BY DEF Abandon
  <2>2. \A i \in DOMAIN queue : queue[i] \in Entry
    BY QueueEntries
  <2> QED BY <2>1, <2>2 DEF Forgets, Entry
<1>4. worker' \in Busy =>
         /\ worker \in Busy
         /\ worker'.caller = IF worker.caller = c THEN None ELSE worker.caller
  <2>1. CASE worker \in {Idle, Ended}
    BY <2>1, NotBusy DEF Abandon
  <2>2. CASE worker \in Busy
    BY <2>2, NotBusy DEF Abandon, Forgets, Busy
  <2> QED BY <2>1, <2>2 DEF TypeOK
<1>5. \A i \in DOMAIN queue' :
         queue'[i].caller # None => client'[queue'[i].caller].pc = "waiting"
  BY <1>2, <1>3, QueueEntries DEF Callers
<1>6. \A i, j \in DOMAIN queue' :
         queue'[i].caller # None /\ queue'[i].caller = queue'[j].caller => i = j
  BY <1>3 DEF Callers
<1>7. worker' \in Busy /\ worker'.caller # None =>
         /\ client'[worker'.caller].pc = "waiting"
         /\ \A i \in DOMAIN queue' : queue'[i].caller # worker'.caller
  BY <1>2, <1>3, <1>4, BusyFields DEF Callers
<1> QED BY <1>5, <1>6, <1>7 DEF Callers
-----------------------------------------------------------------------------
(* What the running command has read. *)

Told == worker \in Busy => Fresh(worker) /\ Collected(worker)

\* A profile read asks for its reports in order.
LEMMA NextRead ==
    ASSUME NEW w \in Busy, w.cmd.kind = "profile"
    PROVE  NextTarget(w) = ReadTarget(w.cmd, Len(w.reads) + 1)
<1>1. w.reads \in Seq(Report) /\ w.cmd \in Command
  BY BusyFields
<1>2. CASE w.reads = <<>>
  <2>1. w.cmd.target = Meta
    BY <1>1 DEF Command, Reads, Writes, Changes
  <2> QED BY <1>2, <2>1 DEF NextTarget, ReadTarget
<1>3. CASE w.reads # <<>>
  <2>1. Len(w.reads) \in Nat /\ Len(w.reads) # 0
    BY <1>1, <1>3, EmptySeq
  <2>2. Len(w.reads) + 1 # 1 /\ (Len(w.reads) + 1) - 1 = Len(w.reads)
    BY <2>1
  <2> QED BY <1>3, <2>2 DEF NextTarget, ReadTarget
<1> QED BY <1>2, <1>3

\* A command that has moved on, without a new report and outside of its waits for
\* the mailbox, has still read what it had.
LEMMA ToldMoved ==
    ASSUME Told, worker \in Busy,
           worker'.cmd = worker.cmd, worker'.reads = worker.reads, worker'.clean = worker.clean,
           worker'.pc \notin {"poll", "fetch"},
           worker.cmd.kind = "profile" => UNCHANGED mouse
    PROVE  Told'
<1>1. \A t : worker.cmd.kind = "profile" => Current(t)' = Current(t)
  BY DEF Current, mouse
<1>2. Fresh(worker)'
  BY DEF Fresh
<1>3. Collected(worker)'
  BY <1>1 DEF Told, Collected, ReadTarget
<1> QED BY <1>2, <1>3 DEF Told

\* A command that stays where it is while others leave the mailbox prepared as it
\* was, or have been noted.
LEMMA ToldSame ==
    ASSUME Told, worker \in Busy,
           worker'.cmd = worker.cmd, worker'.reads = worker.reads,
           worker'.pc \in {worker.pc, "fetch"}, worker.pc = "poll" \/ worker'.pc = worker.pc,
           worker'.clean => worker.clean /\ UNCHANGED mouse,
           worker'.alone => worker.alone,
           UNCHANGED mailbox
    PROVE  Told'
<1>1. \A t : worker'.clean => Current(t)' = Current(t)
  BY DEF Current, mouse
<1>2. NextTarget(worker)' = NextTarget(worker)
  BY DEF NextTarget
<1>3. Fresh(worker)'
  BY <1>1, <1>2 DEF Told, Fresh
<1>4. Collected(worker)'
  BY <1>1 DEF Told, Collected, ReadTarget
<1> QED BY <1>3, <1>4 DEF Told

\* A worker that does not run has read nothing.
LEMMA ToldIdle == ASSUME worker' \in {Idle, Ended} PROVE Told'
BY NotBusy DEF Told

\* Take: nothing is read yet.
LEMMA ToldTake == ASSUME Take PROVE Told'
<1>1. worker'.pc \in {"send", "arm"} /\ worker'.reads = <<>>
  BY DEF Take
<1>2. Fresh(worker)'
  BY <1>1 DEF Fresh
<1>3. Len(worker'.reads) = 0
  BY <1>1
<1>4. Collected(worker)'
  BY <1>1, <1>3 DEF Collected
<1> QED BY <1>2, <1>4 DEF Told

\* SendReport: a profile read sends nothing.
LEMMA ToldSend == ASSUME IInv, Told, SendReport PROVE Told'
<1>1. worker.pc = "send" /\ worker \in Busy /\ ReadsFit(worker)
  BY BusyAt DEF IInv, SendReport
<1>2. CASE Fails \/ Succeeds
  BY <1>2, ToldIdle DEF Fails, Succeeds, Reply
<1>3. CASE Continue([worker EXCEPT !.pc = "arm"])
  <2>1. /\ worker'.cmd = worker.cmd /\ worker'.reads = worker.reads
        /\ worker'.clean = worker.clean /\ worker'.pc = "arm"
    BY <1>1, <1>3 DEF Continue, Busy
  <2>2. worker.cmd.kind # "profile"
    BY <1>1 DEF ReadsFit
  <2> QED BY <1>1, <2>1, <2>2, ToldMoved
<1> QED BY <1>2, <1>3 DEF SendReport

\* Arm: the selector is that of the next report, and nothing is prepared.
LEMMA ToldArm == ASSUME IInv, Told, Arm PROVE Told'
<1>1. worker.pc = "arm" /\ worker \in Busy
  BY BusyAt DEF IInv, Arm
<1>2. /\ worker'.cmd = worker.cmd /\ worker'.reads = worker.reads
      /\ worker'.clean = worker.clean
  BY <1>1 DEF Arm, Continue, Busy
<1>3. mailbox'.armed = NextTarget(worker) /\ mailbox'.ready = FALSE
  BY Typed DEF Arm, IInv, Mailbox
<1>4. NextTarget(worker)' = NextTarget(worker)
  BY <1>2 DEF NextTarget
<1>5. \A t : Current(t)' = Current(t)
  BY DEF Current, Arm, mouse
<1>6. Fresh(worker)'
  BY <1>3, <1>4 DEF Fresh
<1>7. Collected(worker)'
  BY <1>1, <1>2, <1>5 DEF Told, Collected, ReadTarget
<1> QED BY <1>6, <1>7 DEF Told

\* Poll: what the worker waited for is still there.
LEMMA ToldPoll == ASSUME IInv, Told, Poll PROVE Told'
<1>1. worker.pc = "poll" /\ worker \in Busy
  BY BusyAt DEF IInv, Poll
<1>2. /\ worker'.cmd = worker.cmd /\ worker'.reads = worker.reads
      /\ worker'.clean = worker.clean /\ worker'.alone = worker.alone /\ worker'.pc = "fetch"
  BY <1>1 DEF Poll, Continue, Busy
<1> QED BY <1>1, <1>2, ToldSame DEF Poll

\* A retry keeps what was read before.
LEMMA ToldRetry == ASSUME Told, worker \in Busy, Retry, UNCHANGED mouse PROVE Told'
<1>1. CASE Fails
  BY <1>1, ToldIdle DEF Fails, Reply
<1>2. CASE Continue([worker EXCEPT !.pc = "arm", !.attempt = @ + 1])
  <2>1. /\ worker'.cmd = worker.cmd /\ worker'.reads = worker.reads
        /\ worker'.clean = worker.clean /\ worker'.pc = "arm"
    BY <1>2 DEF Continue, Busy
  <2> QED BY <2>1, ToldMoved
<1> QED BY <1>1, <1>2 DEF Retry

\* A report that is decoded is that of the selected target, and a present one.
LEMMA DecodedIsCurrent ==
    ASSUME Told, worker \in Busy, worker.pc = "fetch", worker.clean, mailbox.ready,
           Decodes(worker, mailbox.report), worker.cmd.kind = "raw" => worker.alone
    PROVE  /\ mailbox.report.target = NextTarget(worker)
           /\ mailbox.report = Current(NextTarget(worker))
BY DEF Told, Fresh, Decodes

\* The reports of a profile read, the last one included, are present ones.
LEMMA ProfileCollected ==
    ASSUME Told, worker \in Busy, worker.pc = "fetch", worker.clean, mailbox.ready,
           Decodes(worker, mailbox.report), worker.cmd.kind = "profile"
    PROVE  LET reads == Append(worker.reads, mailbox.report) IN
           \A i \in 1..Len(worker.reads) + 1 : reads[i] = Current(ReadTarget(worker.cmd, i))
<1>1. worker.reads \in Seq(Report)
  BY BusyFields
<1>2. mailbox.report = Current(ReadTarget(worker.cmd, Len(worker.reads) + 1))
  BY DecodedIsCurrent, NextRead
<1>3. \A i \in 1..Len(worker.reads) : worker.reads[i] = Current(ReadTarget(worker.cmd, i))
  BY DEF Told, Collected
<1> DEFINE n == Len(worker.reads) + 1
<1>4. n \in Nat /\ \A i \in 1..n : i = n \/ i \in 1..Len(worker.reads)
  BY <1>1
<1>5. \A i \in 1..n : Append(worker.reads, mailbox.report)[i] =
                        IF i = n THEN mailbox.report ELSE worker.reads[i]
  BY <1>1
<1> QED BY <1>2, <1>3, <1>4, <1>5

\* The metadata that a control write has read is metadata.
LEMMA ControlCollected ==
    ASSUME Told, worker \in Busy, Decodes(worker, mailbox.report),
           worker.cmd.kind \in {"activate", "maximum"}
    PROVE  LET reads == Append(worker.reads, mailbox.report) IN
           /\ worker.reads = <<>> \/ Len(worker.reads) = 1
           /\ reads[1].target = Meta /\ mailbox.report.target = Meta
<1>1. worker.reads \in Seq(Report) /\ worker.cmd \in Command
  BY BusyFields
<1>2. worker.cmd.target = Meta /\ NextTarget(worker) = worker.cmd.target
  BY <1>1 DEF Command, Reads, Writes, Changes, NextTarget
<1>3. mailbox.report.target = Meta
  BY <1>2 DEF Decodes
<1>4. worker.reads = <<>> \/ (Len(worker.reads) = 1 /\ worker.reads[1].target = Meta)
  BY DEF Told, Collected
<1>5. Append(worker.reads, mailbox.report)[1] =
         IF worker.reads = <<>> THEN mailbox.report ELSE worker.reads[1]
  BY <1>1, <1>4
<1> QED BY <1>3, <1>4, <1>5

\* Fetch: an answer, a retry, or one report more.
LEMMA ToldFetch == ASSUME IInv, Told, Fetch PROVE Told'
<1>1. worker.pc = "fetch" /\ worker \in Busy /\ UNCHANGED mouse
  BY BusyAt DEF IInv, Fetch
<1>2. CASE \E ok \in BOOLEAN : Reply(ok)
  BY <1>2, ToldIdle DEF Reply
<1>3. CASE Retry
  BY <1>1, <1>3, ToldRetry
<1> DEFINE w == [worker EXCEPT !.reads = Append(@, mailbox.report)]
           again == [w EXCEPT !.attempt = 1]
<1>4. CASE /\ mailbox.ready /\ Decodes(worker, mailbox.report)
           /\ \E pc \in {"arm", "send"} : Continue([again EXCEPT !.pc = pc])
           /\ worker.cmd.kind \in {"activate", "maximum"} => Len(w.reads) = 1
           /\ worker.cmd.kind \in {"profile", "activate", "maximum"}
  <2>1. /\ worker'.cmd = worker.cmd /\ worker'.clean = worker.clean
        /\ worker'.reads = Append(worker.reads, mailbox.report)
        /\ worker'.pc \in {"arm", "send"} /\ w.reads = Append(worker.reads, mailbox.report)
    BY <1>1, <1>4 DEF Continue, Busy
  <2>2. Len(worker'.reads) = Len(worker.reads) + 1
    BY <1>1, <2>1, BusyFields
  <2>3. Fresh(worker)'
    BY <2>1 DEF Fresh
  <2>4. \A t : Current(t)' = Current(t)
    BY <1>1 DEF Current, mouse
  <2>5. worker.cmd.kind = "profile" /\ worker.clean =>
           \A i \in 1..Len(worker.reads) + 1 :
              Append(worker.reads, mailbox.report)[i] = Current(ReadTarget(worker.cmd, i))
    BY <1>1, <1>4, ProfileCollected
  <2>6. worker'.cmd.kind = "profile" /\ worker'.clean =>
           \A i \in 1..Len(worker'.reads) : worker'.reads[i] = Current(ReadTarget(worker.cmd, i))'
    <3> HAVE worker'.cmd.kind = "profile" /\ worker'.clean
    <3> TAKE i \in 1..Len(worker'.reads)
    <3>1. worker'.reads[i] = Current(ReadTarget(worker.cmd, i))
      BY <2>1, <2>2, <2>5
    <3>2. ReadTarget(worker.cmd, i)' = ReadTarget(worker.cmd, i)
      BY <2>1 DEF ReadTarget
    <3> QED BY <2>4, <3>1, <3>2
  <2>7. worker'.cmd.kind \in {"activate", "maximum"} =>
           Len(worker'.reads) = 1 /\ worker'.reads[1].target = Meta
    BY <1>1, <1>4, <2>1, ControlCollected
  <2>8. worker'.cmd.kind \in {"profile", "activate", "maximum"}
    BY <1>4, <2>1
  <2>9. Collected(worker)'
    BY <2>6, <2>7, <2>8 DEF Collected
  <2> QED BY <2>3, <2>9 DEF Told
<1>5. w.cmd = worker.cmd
  BY <1>1 DEF Busy
<1>6. \A x, y : (x = y) \in BOOLEAN
  OBVIOUS
<1>7. Accept(w) =>
         \/ \E ok \in BOOLEAN : Reply(ok)
         \/ /\ \E pc \in {"arm", "send"} : Continue([again EXCEPT !.pc = pc])
            /\ worker.cmd.kind \in {"activate", "maximum"} => Len(w.reads) = 1
            /\ worker.cmd.kind \in {"profile", "activate", "maximum"}
  BY <1>5, <1>6 DEF Accept, Succeeds, Fails
<1> HIDE DEF w
<1> QED BY <1>2, <1>3, <1>4, <1>7 DEF Fetch, Fails, w

\* Publish: the content of the selected target, or a report that is noted.
LEMMA ToldPublish == ASSUME IInv, Told, Publish PROVE Told'
<1>1. UNCHANGED mouse /\ mailbox.armed \in Target /\ mailbox \in Mailbox
  BY Typed DEF Publish, IInv, Mailbox
<1>2. \A t : Current(t)' = Current(t)
  BY <1>1 DEF Current, mouse
<1>3. CASE mailbox' = [armed |-> None, ready |-> TRUE, report |-> Current(mailbox.armed)]
           /\ UNCHANGED worker
  <2>1. NextTarget(worker)' = NextTarget(worker)
    BY <1>3 DEF NextTarget
  <2>2. mailbox'.report.target = mailbox.armed
    BY <1>3 DEF Current
  <2>3. worker \in Busy => Fresh(worker)'
    BY <1>2, <1>3, <2>1, <2>2 DEF Told, Fresh, Publish
  <2>4. worker \in Busy => Collected(worker)'
    BY <1>2, <1>3 DEF Told, Collected, ReadTarget
  <2> QED BY <1>3, <2>3, <2>4 DEF Told
<1>4. CASE Note("clean") /\ worker \in Busy
  <2>1. worker' = [worker EXCEPT !["clean"] = FALSE]
    BY <1>4, NotBusy DEF Note
  <2>2. /\ worker'.cmd = worker.cmd /\ worker'.reads = worker.reads /\ worker'.clean = FALSE
    BY <1>4, <2>1 DEF Busy
  <2>3. Fresh(worker)' /\ Collected(worker)'
    BY <1>4, <2>2 DEF Told, Fresh, Collected
  <2> QED BY <2>3 DEF Told
<1>5. CASE Note("clean") /\ worker \in {Idle, Ended}
  BY <1>5, ToldIdle DEF Note
<1> QED BY <1>3, <1>4, <1>5 DEF Publish, IInv, TypeOK

\* ChangeMouse: the running command is noted.
LEMMA ToldChange == ASSUME IInv, Told, ChangeMouse PROVE Told'
<1>1. CASE worker \in Busy
  <2>1. worker' = [worker EXCEPT !["clean"] = FALSE]
    BY <1>1, NotBusy DEF ChangeMouse, Note
  <2>2. /\ worker'.cmd = worker.cmd /\ worker'.reads = worker.reads /\ worker'.clean = FALSE
    BY <1>1, <2>1 DEF Busy
  <2>3. Fresh(worker)' /\ Collected(worker)'
    BY <1>1, <2>2 DEF Told, Fresh, Collected
  <2> QED BY <2>3 DEF Told
<1>2. CASE worker \in {Idle, Ended}
  BY <1>2, ToldIdle DEF ChangeMouse, Note
<1> QED BY <1>1, <1>2 DEF IInv, TypeOK

\* UseMailbox: nothing is prepared, and the running command is not alone.
LEMMA ToldUse == ASSUME IInv, Told, UseMailbox PROVE Told'
<1>1. UNCHANGED mouse /\ mailbox'.ready = FALSE /\ Note("alone")
  BY Typed DEF UseMailbox, IInv, Mailbox
<1>2. \A t : Current(t)' = Current(t)
  BY <1>1 DEF Current, mouse
<1>3. CASE worker \in Busy
  <2>1. worker' = [worker EXCEPT !["alone"] = FALSE]
    BY <1>1, <1>3, NotBusy DEF Note
  <2>2. /\ worker'.cmd = worker.cmd /\ worker'.reads = worker.reads
        /\ worker'.clean = worker.clean /\ worker'.alone = FALSE
    BY <1>3, <2>1 DEF Busy
  <2>3. Fresh(worker)'
    BY <1>1, <2>2 DEF Fresh
  <2>4. Collected(worker)'
    BY <1>2, <1>3, <2>2 DEF Told, Collected, ReadTarget
  <2> QED BY <2>3, <2>4 DEF Told
<1>4. CASE worker \in {Idle, Ended}
  BY <1>1, <1>4, ToldIdle DEF Note
<1> QED BY <1>3, <1>4 DEF IInv, TypeOK

\* Abandon: the command goes on without its caller.
LEMMA ToldAbandon ==
    ASSUME IInv, Told, NEW c \in Client, Abandon(c)
    PROVE  Told'
<1>1. CASE worker \in {Idle, Ended}
  BY <1>1, ToldIdle DEF Abandon
<1>2. CASE worker \in Busy
  <2>1. worker' = Forgets(worker, c)
    BY <1>2, NotBusy DEF Abandon
  <2>2. /\ worker'.cmd = worker.cmd /\ worker'.reads = worker.reads /\ worker'.pc = worker.pc
        /\ worker'.clean = worker.clean /\ worker'.alone = worker.alone
    BY <1>2, <2>1 DEF Forgets, Busy
  <2> QED BY <1>2, <2>2, ToldSame DEF Abandon
<1> QED BY <1>1, <1>2 DEF IInv, TypeOK

\* A step that leaves the worker, the mouse and the mailbox alone.
LEMMA ToldUnchanged ==
    ASSUME Told, UNCHANGED <<mouse, mailbox, worker>>
    PROVE  Told'
<1>1. CASE worker \in Busy
  BY <1>1, ToldSame
<1>2. CASE worker \notin Busy
  BY <1>2 DEF Told
<1> QED BY <1>1, <1>2

-----------------------------------------------------------------------------
(* Every step keeps what a successful answer rests on. *)

\* A step of the running command answers, or goes on for the same caller.
LEMMA GoesOn ==
    ASSUME IInv, SendReport \/ Arm \/ Poll \/ NotReady \/ Fetch \/ TransportError
    PROVE  /\ worker \in Busy /\ UNCHANGED queue
           /\ \/ \E ok \in BOOLEAN : Reply(ok)
              \/ UNCHANGED client /\ worker'.caller = worker.caller
<1> DEFINE Goal == \/ \E ok \in BOOLEAN : Reply(ok)
                   \/ UNCHANGED client /\ worker'.caller = worker.caller
<1>1. worker \in Busy
  BY BusyAt DEF IInv, SendReport, Arm, Poll, NotReady, Fetch, TransportError
<1>2. Fails \/ Succeeds => Goal
  BY DEF Fails, Succeeds
<1>3. ASSUME NEW pc, Continue([worker EXCEPT !.pc = pc]) PROVE Goal
  BY <1>1, <1>3 DEF Continue, Busy
<1>4. ASSUME Retry PROVE Goal
  <2>1. ASSUME Continue([worker EXCEPT !.pc = "arm", !.attempt = @ + 1]) PROVE Goal
    BY <1>1, <2>1 DEF Continue, Busy
  <2> QED BY <1>2, <1>4, <2>1 DEF Retry
<1>5. ASSUME Accept([worker EXCEPT !.reads = Append(@, mailbox.report)]) PROVE Goal
  <2> DEFINE w == [worker EXCEPT !.reads = Append(@, mailbox.report)]
             again == [w EXCEPT !.attempt = 1]
  <2>1. ASSUME NEW pc, Continue([again EXCEPT !.pc = pc]) PROVE Goal
    BY <1>1, <2>1 DEF Continue, Busy
  <2>2. \A x, y : (x = y) \in BOOLEAN
    OBVIOUS
  <2> HIDE DEF w
  <2>3. \/ \E ok \in BOOLEAN : Reply(ok)
        \/ Continue([again EXCEPT !.pc = "arm"]) \/ Continue([again EXCEPT !.pc = "send"])
    BY <1>5, <2>2 DEF Accept, Succeeds, Fails, w
  <2> QED BY <2>1, <2>3
<1>6. UNCHANGED queue
  BY DEF SendReport, Arm, Poll, NotReady, Fetch, TransportError
<1>7. Goal
  <2>1. CASE SendReport
    BY <1>2, <1>3, <2>1 DEF SendReport
  <2>2. CASE Arm
    BY <1>3, <2>2 DEF Arm
  <2>3. CASE Poll
    BY <1>3, <2>3 DEF Poll
  <2>4. CASE NotReady \/ TransportError
    BY <1>2, <1>4, <2>4 DEF NotReady, TransportError
  <2>5. CASE Fetch
    BY <1>2, <1>4, <1>5, <2>5 DEF Fetch
  <2> QED BY <2>1, <2>2, <2>3, <2>4, <2>5
<1> QED BY <1>1, <1>6, <1>7

\* The history of the running command is no business of its caller.
LEMMA NoteKeepsCaller ==
    ASSUME IInv, NEW flag \in {"clean", "alone"}, Note(flag)
    PROVE  worker' \in Busy => worker \in Busy /\ worker'.caller = worker.caller
<1>1. CASE worker \in {Idle, Ended}
  BY <1>1, NotBusy DEF Note
<1>2. CASE worker \in Busy
  <2>1. worker' = [worker EXCEPT ![flag] = FALSE]
    BY <1>2, NotBusy DEF Note
  <2> QED BY <1>2, <2>1 DEF Busy
<1> QED BY <1>1, <1>2 DEF IInv, TypeOK

\* Whoever waits is answered once.
LEMMA CallersStep == ASSUME IInv, Callers, Next PROVE Callers'
<1> USE DEF IInv
<1>1. CASE Open \/ End
  BY <1>1, NotBusy, CallersSame DEF Open, End
<1>2. CASE DropHandle
  BY <1>2, CallersSame DEF DropHandle
<1>3. ASSUME NEW c \in Client, Abandon(c) PROVE Callers'
  BY <1>3, CallersAbandon
<1>4. ASSUME NEW c \in Client, NEW cmd \in Command, Request(c, cmd) PROVE Callers'
  BY <1>4, CallersRequest
<1>5. CASE Take
  BY <1>5, CallersTake
<1>6. CASE SendReport \/ Arm \/ Poll \/ NotReady \/ Fetch \/ TransportError
  BY <1>6, GoesOn, CallersAnswered, CallersSame
<1>7. CASE Publish
  <2>1. worker' \in Busy => worker \in Busy /\ worker'.caller = worker.caller
    BY <1>7, NoteKeepsCaller DEF Publish
  <2> QED BY <1>7, <2>1, CallersSame DEF Publish
<1>8. CASE ChangeMouse \/ UseMailbox
  <2>1. worker' \in Busy => worker \in Busy /\ worker'.caller = worker.caller
    BY <1>8, NoteKeepsCaller DEF ChangeMouse, UseMailbox
  <2> QED BY <1>8, <2>1, CallersSame DEF ChangeMouse, UseMailbox, Touch
<1> QED BY <1>1, <1>2, <1>3, <1>4, <1>5, <1>6, <1>7, <1>8 DEF Next, WorkerStep

\* What was read stays read, and what is prepared is fresh.
LEMMA ToldStep == ASSUME IInv, Told, Next PROVE Told'
<1>1. CASE Open \/ End
  BY <1>1, ToldIdle DEF Open, End
<1>2. CASE DropHandle
  BY <1>2, ToldUnchanged DEF DropHandle
<1>3. ASSUME NEW c \in Client, Abandon(c) PROVE Told'
  BY <1>3, ToldAbandon
<1>4. ASSUME NEW c \in Client, NEW cmd \in Command, Request(c, cmd) PROVE Told'
  BY <1>4, ToldUnchanged DEF Request
<1>5. CASE Take \/ SendReport \/ Arm \/ Poll \/ Fetch
  BY <1>5, ToldTake, ToldSend, ToldArm, ToldPoll, ToldFetch
<1>6. CASE NotReady
  BY <1>6, BusyAt, ToldRetry DEF IInv, NotReady
<1>7. CASE TransportError
  BY <1>7, ToldIdle DEF TransportError, Fails, Reply
<1>8. CASE Publish \/ ChangeMouse \/ UseMailbox
  BY <1>8, ToldPublish, ToldChange, ToldUse
<1> QED BY <1>1, <1>2, <1>3, <1>4, <1>5, <1>6, <1>7, <1>8 DEF Next, WorkerStep

\* A request is told of success by the fetch of a report that its command takes
\* for success, and by nothing else.
LEMMA OnlyFetchSucceeds ==
    ASSUME IInv, Callers, Next, Answered
    PROVE  LET reads == Append(worker.reads, mailbox.report)
               w == [worker EXCEPT !.reads = reads]
               got == w.reads[Len(w.reads)].value
               kind == worker.cmd.kind
           IN
           /\ worker \in Busy /\ worker.pc = "fetch" /\ mailbox.ready
           /\ Decodes(worker, mailbox.report)
           /\ kind = "write" => got = worker.cmd.value
           /\ kind = "profile" => Len(w.reads) = Sections + 1
           /\ kind \in {"activate", "maximum"} =>
                 \/ Len(w.reads) = 1 /\ kind = "maximum" /\ worker.cmd.value = got.maximum
                 \/ Len(w.reads) = 2 /\ got = Expected(w)
<1> DEFINE w == [worker EXCEPT !.reads = Append(worker.reads, mailbox.report)]
           got == w.reads[Len(w.reads)].value
           again == [w EXCEPT !.attempt = 1]
<1>1. PICK c \in Client : worker.pc = "fetch" /\ worker.caller = c /\ client'[c] = Done(TRUE)
  BY DEF Answered
<1>2. worker \in Busy
  BY <1>1, BusyAt DEF IInv
<1>3. client[c].pc = "waiting"
  BY <1>1, <1>2, NoneAssumption DEF Callers
<1>4. Done(TRUE).pc = "done" /\ Done(FALSE) # Done(TRUE) /\ Idle # Done(TRUE)
  BY DEF Done, Idle
<1>5. client'[c] # client[c]
  BY <1>1, <1>3, <1>4
<1>6. client \in [Client -> ClientState]
  BY Typed DEF IInv
<1>7. ASSUME NEW ok, Reply(ok) PROVE Done(ok) = Done(TRUE)
  BY <1>1, <1>7 DEF Reply
<1>8. ~Fails
  BY <1>4, <1>7 DEF Fails
<1>9. ~Retry
  BY <1>5, <1>8 DEF Retry, Continue
<1>10. ASSUME NEW d \in Client PROVE ~Abandon(d)
  BY <1>1, <1>4, <1>5, <1>6 DEF Abandon
<1>11. ASSUME NEW d \in Client, NEW cmd \in Command PROVE ~Request(d, cmd)
  BY <1>3, <1>5, <1>6 DEF Request
<1>12. Fetch
  <2>1. worker.pc \notin {"send", "arm", "poll"} /\ worker # Idle
    BY <1>1, <1>2, NotBusy
  <2> QED BY <1>5, <1>8, <1>10, <1>11, <2>1
          DEF Next, WorkerStep, Open, DropHandle, Take, End, SendReport, Arm, Poll, NotReady,
              TransportError, Publish, ChangeMouse, UseMailbox, Touch
<1>13. mailbox.ready /\ Decodes(worker, mailbox.report) /\ Accept(w)
  BY <1>8, <1>9, <1>12 DEF Fetch
<1>14. w.cmd = worker.cmd /\ w \in Busy
  <2>1. mailbox.report \in Report
    BY <1>13, Typed DEF IInv
  <2> QED BY <1>2, <2>1 DEF Busy
<1>15. ASSUME NEW x, NEW y, Reply(x = y) PROVE x = y
  <2>1. CASE x # y
    <3>1. Reply(FALSE)
      BY <1>15, <2>1
    <3> QED BY <1>8, <3>1 DEF Fails
  <2> QED BY <2>1
<1>16. ASSUME NEW v PROVE ~Continue(v)
  BY <1>5, <1>16 DEF Continue
<1> HIDE DEF w
<1>17. /\ w.cmd.kind = "write" => got = w.cmd.value
       /\ w.cmd.kind = "profile" => Len(w.reads) = Sections + 1
       /\ w.cmd.kind \in {"activate", "maximum"} =>
             \/ Len(w.reads) = 1 /\ w.cmd.kind = "maximum" /\ w.cmd.value = got.maximum
             \/ Len(w.reads) = 2 /\ got = Expected(w)
  BY <1>8, <1>13, <1>15, <1>16 DEF Accept
<1> QED BY <1>1, <1>2, <1>13, <1>14, <1>17 DEF w

\* What the command that succeeds has read, and what the mouse holds.
LEMMA SuccessIsState ==
    ASSUME AnswerInv, Next
    PROVE  TrueAnswer
<1> SUFFICES ASSUME Answered, worker.clean, worker.cmd.kind = "raw" => worker.alone
             PROVE  LET cmd == worker.cmd
                        reads == Append(worker.reads, mailbox.report)
                    IN
                    /\ cmd.kind \in {"read", "raw"} => reads = <<Current(cmd.target)>>
                    /\ cmd.kind = "profile" =>
                          reads = [i \in 1..Sections + 1 |->
                                     Current(IF i = 1 THEN Meta
                                             ELSE [section |-> i - 1, profile |-> cmd.value])]
                    /\ cmd.kind = "write" =>
                          image[cmd.target.profile][cmd.target.section] = cmd.value
                    /\ cmd.kind = "activate" =>
                          metadata = [reads[1].value EXCEPT !.current = cmd.value]
                    /\ cmd.kind = "maximum" =>
                          metadata = [reads[1].value EXCEPT !.maximum = cmd.value]
  BY DEF TrueAnswer
<1> DEFINE cmd == worker.cmd
           reads == Append(worker.reads, mailbox.report)
           w == [worker EXCEPT !.reads = reads]
           got == w.reads[Len(w.reads)].value
<1>1. /\ worker \in Busy /\ worker.pc = "fetch" /\ mailbox.ready
      /\ Decodes(worker, mailbox.report)
  BY OnlyFetchSucceeds DEF AnswerInv
<1>2. worker.reads \in Seq(Report) /\ cmd \in Command /\ mailbox.report \in Report
  BY <1>1, BusyFields, Typed DEF AnswerInv, IInv
<1>3. Told /\ Collected(worker)
  BY <1>1 DEF AnswerInv, Told
<1>4. /\ mailbox.report.target = NextTarget(worker)
      /\ mailbox.report = Current(NextTarget(worker))
  BY <1>1, <1>3, DecodedIsCurrent
<1>5. w.reads = reads /\ Len(reads) = Len(worker.reads) + 1 /\ got = mailbox.report.value
  BY <1>1, <1>2 DEF Busy
<1>6. CASE cmd.kind \in {"read", "raw"}
  <2>1. worker.reads = <<>> /\ NextTarget(worker) = cmd.target
    BY <1>3, <1>6 DEF Collected, NextTarget
  <2> QED BY <1>4, <1>6, <2>1
<1>7. CASE cmd.kind = "write"
  <2>1. NextTarget(worker) = cmd.target /\ cmd.target # Meta
    BY <1>2, <1>7 DEF NextTarget, Command, Reads, Writes, Changes
  <2>2. got = cmd.value
    BY <1>7, OnlyFetchSucceeds DEF AnswerInv
  <2>3. Current(cmd.target).value = image[cmd.target.profile][cmd.target.section]
    BY <2>1 DEF Current
  <2> QED BY <1>4, <1>5, <1>7, <2>1, <2>2, <2>3
<1>8. CASE cmd.kind = "profile"
  <2> DEFINE full == [i \in 1..Sections + 1 |->
                        Current(IF i = 1 THEN Meta ELSE [section |-> i - 1, profile |-> cmd.value])]
  <2>1. Len(w.reads) = Sections + 1
    BY <1>8, OnlyFetchSucceeds DEF AnswerInv
  <2>2. Len(reads) = Sections + 1 /\ Len(worker.reads) + 1 = Sections + 1
    BY <1>5, <2>1
  <2>3. \A i \in 1..Sections + 1 : reads[i] = Current(ReadTarget(cmd, i))
    BY <1>1, <1>3, <1>8, <2>2, ProfileCollected
  <2>4. \A i \in 1..Sections + 1 : reads[i] = full[i]
    BY <2>3 DEF ReadTarget
  <2>5. reads \in Seq(Report)
    BY <1>2
  <2> HIDE DEF reads
  <2>6. reads = [i \in 1..Sections + 1 |-> reads[i]]
    <3>1. reads \in [1..Sections + 1 -> Report]
      BY <2>2, <2>5, LenProperties
    <3> QED BY <3>1
  <2>7. reads = full
    BY <2>4, <2>6
  <2> QED BY <1>8, <2>7 DEF reads
<1>9. CASE cmd.kind \in {"activate", "maximum"}
  <2> DEFINE m == reads[1].value
  <2>1. /\ worker.reads = <<>> \/ Len(worker.reads) = 1
        /\ reads[1].target = Meta /\ mailbox.report.target = Meta
    BY <1>1, <1>3, <1>9, ControlCollected
  <2>2. got = metadata
    BY <1>4, <1>5, <2>1 DEF Current
  <2>3. m \in Metadata
    <3>1. reads \in Seq(Report) /\ Len(reads) # 0
      BY <1>2, <1>5
    <3>2. reads[1] \in Report
      BY <3>1
    <3> QED BY <2>1, <3>2 DEF Report
  <2>4. m = [current |-> m.current, maximum |-> m.maximum]
    BY <2>3 DEF Metadata
  <2>5. \/ Len(w.reads) = 1 /\ cmd.kind = "maximum" /\ cmd.value = got.maximum
        \/ Len(w.reads) = 2 /\ got = Expected(w)
    BY <1>9, OnlyFetchSucceeds DEF AnswerInv
  <2>6. CASE Len(w.reads) = 1 /\ cmd.kind = "maximum" /\ cmd.value = got.maximum
    <3>1. m = got
      BY <1>2, <1>5, <2>6
    <3> QED BY <2>2, <2>4, <2>6, <3>1
  <2>7. CASE Len(w.reads) = 2 /\ got = Expected(w)
    <3>1. w.cmd = cmd
      BY <1>1 DEF Busy
    <3>2. Expected(w) = IF cmd.kind = "activate" THEN [current |-> cmd.value, maximum |-> m.maximum]
                                                 ELSE [current |-> m.current, maximum |-> cmd.value]
      BY <1>5, <3>1 DEF Expected
    <3> QED BY <1>9, <2>2, <2>4, <2>7, <3>2
  <2> QED BY <1>9, <2>5, <2>6, <2>7
<1> QED BY <1>6, <1>7, <1>8, <1>9

\* No command is running, and nobody waits.
LEMMA AnswerInit == Init => AnswerInv
<1> SUFFICES ASSUME Init PROVE AnswerInv
  OBVIOUS
<1>1. worker = Ended /\ DOMAIN queue = {}
  BY DEF Init
<1> QED BY <1>1, Inits, NotBusy DEF AnswerInv, Callers

\* Told and the callers are kept by every step.
LEMMA AnswerSteps == AnswerInv /\ [Next]_vars => AnswerInv'
<1> SUFFICES ASSUME AnswerInv, [Next]_vars PROVE AnswerInv'
  OBVIOUS
<1>1. IInv /\ Callers /\ Told
  BY DEF AnswerInv, Told
<1>2. IInv'
  BY <1>1, Steps
<1>3. Callers' /\ Told'
  <2>1. CASE Next
    BY <1>1, <2>1, CallersStep, ToldStep
  <2>2. CASE UNCHANGED vars
    BY <1>1, <2>2, CallersSame, ToldUnchanged DEF vars, mouse
  <2> QED BY <2>1, <2>2
<1> QED BY <1>2, <1>3 DEF AnswerInv, Told

\* What worker.rs answers is what the mouse holds: a read returns the present
\* content of the report it names, the sections of a profile are of one instant,
\* and a verified write or a control write is in effect, for any interleaving with
\* the user of the mouse and with sessions that share its mailbox.
THEOREM AnswersTellTheState == Spec => AnswerIsState
<1>1. AnswerInv /\ [Next]_vars => [TrueAnswer]_vars
  BY SuccessIsState
<1> QED BY AnswerInit, AnswerSteps, <1>1, PTL DEF Spec, AnswerIsState
=============================================================================
