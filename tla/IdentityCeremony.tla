---------------------------- MODULE IdentityCeremony ----------------------------
(***************************************************************************)
(* The physical-identity ceremonies of the manager: a durable journal in   *)
(* state.json, and a random token stamped into every profile of a mouse.   *)
(* A ceremony is a series of calls (begin, reconnect, stamp, migrate,      *)
(* cancel), made by any process; each loads the state, may use the mouse   *)
(* at the USB port, and commits one or more transactions.  No operation    *)
(* lock is held, so the calls of two processes interleave between these    *)
(* steps, and a process may die between any two of them.                   *)
(*                                                                         *)
(* Tokens are 128 random bits: a fresh one is taken to differ from every   *)
(* token there ever was.  There is one radio: st.ble is the device its     *)
(* BLE endpoint is associated with.                                        *)
(***************************************************************************)
EXTENDS Naturals, Sequences, FiniteSets, FiniteSetsExt

CONSTANTS
    Proc, Unit, Token, None,
    Profiles,    \* the number of firmware profiles
    Phases,      \* the ceremonies in use
    \* Bounds, by the number of processes at work: ceremonies begun; marks lost
    \* and mice unplugged while one is stamped.
    MaxBegins, MaxUpsets

ASSUME ProcAssumption == IsFiniteSet(Proc)
ASSUME PhasesAssumption ==
    Phases \subseteq {"InitialEnrollment", "AddMouse", "Restore", "ForeignAdoption",
                       "BleAssociation"}
ASSUME ProfilesAssumption == Profiles \in Nat \ {0}
ASSUME NoneAssumption == None \notin Token \cup Unit
ASSUME BoundsAssumption == MaxBegins \in Seq(Nat) /\ MaxUpsets \in Seq(Nat)

Profile == 1..Profiles

VARIABLES
    mark,     \* the token each profile of each mouse carries, or None
    port,     \* the mouse at the USB port
    st,       \* state.json: identity mode, devices, radio, next id, journal
    job,      \* per process: the call it is in
    begins, upsets,
    \* History, read by the properties only:
    used,     \* the tokens there have been
    wiped,    \* the tokens that lost a mark to other software
    strayed   \* those a call set out to stamp into a mouse it was not captured
              \* from, and those this mouse carried

vars == <<mark, port, st, job, begins, upsets, used, wiped, strayed>>

Idle == [pc |-> "idle"]
Absent == [pc |-> "absent"]
Working == {p \in Proc : job[p] # Absent}

\* A subject: the mouse at the port when it was captured (known to no code),
\* the device it restores and that device's old token, the reserved token, and
\* the profiles whose progress is Stamped.
Subject == [who : Unit, device : Nat \cup {None}, old : Token \cup {None},
            token : Token \cup {None}, done : SUBSET Profile]
Journal == [phase : Phases, stage : {"AwaitingCapture", "Stamping", "Finalizing"},
            subjects : Seq(Subject)]

\* An Option: a state without a journal is not one with a journal.
ASSUME JournalAssumption == None \notin Journal

Tokens(s) == {s.devices[d] : d \in DOMAIN s.devices} \ {None}
Last(seq) == seq[Len(seq)]
FullyStamped(subject) == subject.done = Profile
MaxSubjects(phase) == IF phase = "InitialEnrollment" THEN 2 ELSE 1

-----------------------------------------------------------------------------
(* The commit gate: validate_identity_mode and validate_identity_setup. *)

ValidMode(s) ==
    IF s.mode = "Legacy"
    THEN Cardinality(DOMAIN s.devices) <= 1 /\ Tokens(s) = {}
    ELSE \A d, e \in DOMAIN s.devices :
            s.devices[d] # None /\ (s.devices[d] = s.devices[e] => d = e)

Finished(subject) == subject.token # None /\ FullyStamped(subject)

ValidStage(j) ==
    CASE j.stage = "AwaitingCapture" ->
            /\ Len(j.subjects) < MaxSubjects(j.phase)
            /\ \A i \in DOMAIN j.subjects : Finished(j.subjects[i])
      [] j.stage = "Stamping" ->
            j.phase # "BleAssociation" /\ j.subjects # <<>> /\ ~FullyStamped(Last(j.subjects))
      [] j.stage = "Finalizing" ->
            /\ Len(j.subjects) = MaxSubjects(j.phase)
            /\ j.phase # "BleAssociation" => \A i \in DOMAIN j.subjects : Finished(j.subjects[i])

ValidSubject(s, subject) ==
    /\ subject.device # None => subject.device \in DOMAIN s.devices
    /\ subject.done # {} => subject.token # None
    /\ subject.token \notin Tokens(s)
    /\ IF s.journal.phase = "Restore"
       THEN /\ subject.old # None /\ subject.old # subject.token
            /\ subject.device # None /\ s.devices[subject.device] = subject.old
       ELSE subject.old = None
    /\ s.journal.phase = "BleAssociation" => subject.token = None /\ subject.device # None

ValidJournal(s) ==
    LET j == s.journal
    IN  /\ (j.phase = "InitialEnrollment") = (s.mode = "Legacy")
        /\ Len(j.subjects) <= MaxSubjects(j.phase)
        /\ ValidStage(j)
        /\ \A i \in DOMAIN j.subjects : ValidSubject(s, j.subjects[i])
        /\ \A i, k \in DOMAIN j.subjects :
              i # k /\ j.subjects[i].token # None => j.subjects[i].token # j.subjects[k].token

Valid(s) == ValidMode(s) /\ (s.journal # None => ValidJournal(s))

TypeOK ==
    /\ mark \in [Unit -> [Profile -> Token \cup {None}]]
    /\ port \in Unit \cup {None}
    /\ Valid(st)
    /\ st.journal # None => st.journal \in Journal
    /\ st.ble \in DOMAIN st.devices \cup {None}
    /\ \A p \in Proc : job[p].pc \in {"absent", "idle", "begin", "capture", "mint", "open", "write",
                                      "progress", "advance", "finalize", "cancel", "panic"}

Init ==
    /\ \E t \in Token, u \in Unit :
          \/ /\ mark = [v \in Unit |-> [q \in Profile |-> None]]
             /\ st = [mode |-> "Legacy", devices |-> [d \in {1} |-> None], ble |-> None,
                       next |-> 2, journal |-> None]
             /\ used = {}
          \/ /\ mark = [v \in Unit |-> [q \in Profile |-> IF v = u THEN t ELSE None]]
             /\ st = [mode |-> "Persistent", devices |-> [d \in {1} |-> t], ble |-> None,
                       next |-> 2, journal |-> None]
             /\ used = {t}
    /\ port = None
    /\ \E working \in SUBSET Proc \ {{}} :
          job = [p \in Proc |-> IF p \in working THEN Idle ELSE Absent]
    /\ begins = 0 /\ upsets = 0 /\ wiped = {} /\ strayed = {}

Become(p, state) == job' = [job EXCEPT ![p] = state]

\* A commit that the gate refuses leaves the state and ends the call.
Commit(p, s, next) ==
    IF Valid(s) THEN st' = s /\ Become(p, next) ELSE UNCHANGED st /\ Become(p, Idle)

-----------------------------------------------------------------------------
(* finalize_ceremony *)

\* DeviceState::new under a freshly allocated id.
AddDevice(s, t) ==
    [s EXCEPT !.devices = [d \in DOMAIN s.devices \cup {s.next} |->
                              IF d = s.next THEN t ELSE s.devices[d]],
              !.next = @ + 1]

\* finalize_initial_enrollment: the fuzzy legacy mouse makes way for the
\* subjects, however many there are.
FinalizeInitialEnrollment(s, subjects) ==
    [s EXCEPT !.mode = "Persistent", !.ble = None,
              !.devices = [d \in s.next..(s.next + Len(subjects) - 1) |->
                              subjects[d - s.next + 1].token],
              !.next = @ + Len(subjects)]

FinalizeCeremony(s) ==
    LET j == s.journal
        subject == j.subjects[1]
        cleared == [s EXCEPT !.journal = None]
    IN  CASE j.phase = "InitialEnrollment" ->
                FinalizeInitialEnrollment(cleared, j.subjects)
          [] j.phase \in {"AddMouse", "ForeignAdoption"} -> AddDevice(cleared, subject.token)
          \* The token rotates, and every old endpoint goes with the old mouse.
          [] j.phase = "Restore" ->
                [cleared EXCEPT !.devices[subject.device] = subject.token,
                                !.ble = IF @ = subject.device THEN None ELSE @]
          [] j.phase = "BleAssociation" -> [cleared EXCEPT !.ble = subject.device]

-----------------------------------------------------------------------------
(* begin_identity_ceremony: the checks and the commit are apart. *)

BeginCheck(p, phase) ==
    /\ job[p] = Idle /\ begins < MaxBegins[Cardinality(Working)]
    /\ st.journal = None
    /\ (phase = "InitialEnrollment") = (st.mode = "Legacy")
    \* Restore: a saved mouse with a token, and not connected.
    /\ phase = "Restore" => Tokens(st) # {} /\ port = None
    /\ phase = "BleAssociation" => DOMAIN st.devices # {}
    /\ Become(p, [pc |-> "begin", phase |-> phase])
    /\ begins' = begins + 1
    /\ UNCHANGED <<mark, port, st, upsets, used, wiped, strayed>>

BeginCommit(p) ==
    /\ job[p].pc = "begin"
    /\ Commit(p, [st EXCEPT !.journal = [phase |-> job[p].phase, stage |-> "AwaitingCapture",
                                         subjects |-> <<>>]], Idle)
    /\ UNCHANGED <<mark, port, begins, upsets, used, wiped, strayed>>

-----------------------------------------------------------------------------
(* ceremony_reconnected: the mark of the current profile decides whether the *)
(* mouse is eligible; then every profile is captured.                        *)

\* The user may have switched the mouse to any profile.
MayStamp(phase, seen) ==
    CASE phase = "ForeignAdoption" -> seen \notin Tokens(st)
      [] phase = "BleAssociation" -> TRUE
      [] OTHER -> seen = None

\* Every profile of the mouse, as it is captured for the journal.
CapturedSubject(target, old, token) ==
    [who |-> port, device |-> target, old |-> old, token |-> token,
     done |-> IF token = None THEN {} ELSE {q \in Profile : mark[port][q] = token}]

AwaitsCapture(j) == j.stage = "AwaitingCapture" /\ Len(j.subjects) < MaxSubjects(j.phase)

Capture(p, current, target) ==
    /\ job[p] = Idle /\ st.journal # None /\ port # None
    /\ AwaitsCapture(st.journal)
    /\ LET phase == st.journal.phase
           seen == mark[port][current]
           captured(old, token) ==
              Become(p, [pc |-> "capture", phase |-> phase,
                         subject |-> CapturedSubject(target, old, token)])
       IN  /\ MayStamp(phase, seen)
           /\ (target # None) = (phase = "Restore")
           /\ CASE phase = "ForeignAdoption" ->
                      \/ /\ seen # None
                         /\ \A q \in Profile : mark[port][q] \in {None, seen}
                         /\ captured(None, seen)
                      \* An unmarked mouse passes, and the token is then expected.
                      \/ seen = None /\ Become(p, [pc |-> "panic"])
                [] phase = "Restore" ->
                      /\ target \in DOMAIN st.devices /\ st.devices[target] # None
                      /\ captured(st.devices[target], None)
                \* A marked mouse is unreachable!(), an unmarked one captured
                \* and then refused by the commit gate.
                [] phase = "BleAssociation" ->
                      IF seen # None THEN Become(p, [pc |-> "panic"]) ELSE captured(None, None)
                [] OTHER -> captured(None, None)
    /\ UNCHANGED <<mark, port, st, begins, upsets, used, wiped, strayed>>

CaptureCommit(p) ==
    /\ job[p].pc = "capture"
    /\ LET j == st.journal
           new(stage) == [st EXCEPT !.journal.subjects = Append(@, job[p].subject),
                                    !.journal.stage = stage]
       IN  IF j = None \/ j.phase # job[p].phase \/ j.stage # "AwaitingCapture"
           THEN Become(p, Idle) /\ UNCHANGED st
           ELSE Commit(p, IF FullyStamped(job[p].subject) THEN FinalizeCeremony(new("Finalizing"))
                          ELSE new("Stamping"), Idle)
    /\ UNCHANGED <<mark, port, begins, upsets, used, wiped, strayed>>

-----------------------------------------------------------------------------
(* ceremony_stamp *)

\* mint_unique_token: 128 random bits that name nothing yet.
FreshToken(t) == t \notin used /\ used' = used \cup {t}

Stamp(p) ==
    /\ job[p] = Idle /\ st.journal # None /\ st.journal.stage = "Stamping"
    /\ IF Last(st.journal.subjects).token = None
       THEN \E t \in Token :
               FreshToken(t) /\ Become(p, [pc |-> "mint", phase |-> st.journal.phase, token |-> t])
       ELSE Become(p, [pc |-> "open", phase |-> st.journal.phase]) /\ UNCHANGED used
    /\ UNCHANGED <<mark, port, st, begins, upsets, wiped, strayed>>

\* ceremony_adopt: the same, of an adoption only.
Adopt(p) == st.journal # None /\ st.journal.phase = "ForeignAdoption" /\ Stamp(p)

\* Every transaction changes the last subject of whatever journal there is by
\* then, or fails when there is none.
LostSubject == st.journal = None \/ st.journal.subjects = <<>>

MintCommit(p) ==
    /\ job[p].pc = "mint"
    /\ IF LostSubject THEN UNCHANGED st /\ Become(p, Idle)
       ELSE Commit(p, [st EXCEPT !.journal.subjects[Len(st.journal.subjects)].token = job[p].token],
                   [pc |-> "open", phase |-> job[p].phase])
    /\ UNCHANGED <<mark, port, begins, upsets, used, wiped, strayed>>

\* The mouse at the port is not the one whose journal asks for stamps.
Exchanged == /\ ~LostSubject /\ ~FullyStamped(Last(st.journal.subjects))
             /\ port \notin {None, Last(st.journal.subjects).who}
Strays ==
    strayed' = IF Exchanged
               THEN strayed \cup ({Last(st.journal.subjects).token} \cup {mark[port][q] : q \in Profile})
               ELSE strayed

\* Faulty variant: the token of the first subject is stamped into every mouse.
OpenFirstSubject(p) ==
    /\ job[p].pc = "open" /\ ~LostSubject /\ port # None
    /\ LET j == st.journal
           pending == Profile \ Last(j.subjects).done
       IN  Become(p, [pc |-> IF pending = {} THEN "advance" ELSE "write",
                      unit |-> port, token |-> j.subjects[1].token,
                      pending |-> pending, phase |-> job[p].phase,
                      second |-> job[p].phase = "InitialEnrollment" /\ Len(j.subjects) = 1])
    /\ Strays /\ UNCHANGED <<mark, port, st, begins, upsets, used, wiped>>

\* The journal is read again, and the endpoint of its subject opened: whichever
\* mouse is there now.
OpenSubject(p) ==
    /\ job[p].pc = "open"
    /\ LET j == st.journal
       IN  IF j = None
           THEN Become(p, Idle)
           ELSE IF j.subjects = <<>> \/ Last(j.subjects).token = None
           THEN Become(p, [pc |-> "panic"])
           ELSE IF port = None
           THEN Become(p, Idle)
           ELSE LET pending == Profile \ Last(j.subjects).done
                IN  Become(p, [pc |-> IF pending = {} THEN "advance" ELSE "write",
                               unit |-> port, token |-> Last(j.subjects).token,
                               pending |-> pending, phase |-> job[p].phase,
                               second |-> job[p].phase = "InitialEnrollment" /\ Len(j.subjects) = 1])
    /\ Strays /\ UNCHANGED <<mark, port, st, begins, upsets, used, wiped>>

\* Faulty variant: the error of a write that did not reach the mouse is ignored.
StampIgnoringErrors(p) ==
    /\ job[p].pc = "write" /\ port = job[p].unit
    /\ \/ mark' = [mark EXCEPT ![port][Min(job[p].pending)] = job[p].token]
       \/ UNCHANGED mark
    /\ Become(p, [job[p] EXCEPT !.pc = IF Cardinality(job[p].pending) = 1 THEN "advance" ELSE "progress"])
    /\ UNCHANGED <<port, st, begins, upsets, used, wiped, strayed>>

\* stamp_one_profile, in the order of the profiles. The write may also reach
\* the mouse and fail.
StampProfile(p) ==
    /\ job[p].pc = "write" /\ port = job[p].unit
    /\ mark' = [mark EXCEPT ![port][Min(job[p].pending)] = job[p].token]
    /\ \/ Become(p, [job[p] EXCEPT !.pc = IF Cardinality(job[p].pending) = 1 THEN "advance" ELSE "progress"])
       \/ Become(p, Idle)
    /\ UNCHANGED <<port, st, begins, upsets, used, wiped, strayed>>

\* Faulty variant: the progress of one profile completes the subject.
MarkAllStamped(subject, profiles) == [subject EXCEPT !.done = Profile]

MarkStamped(subject, profiles) == [subject EXCEPT !.done = @ \cup profiles]

ProgressState(q) == [st EXCEPT !.journal.subjects[Len(st.journal.subjects)] = MarkStamped(@, {q})]

PersistProgress(p) ==
    /\ job[p].pc = "progress"
    /\ LET q == Min(job[p].pending)
       IN  IF LostSubject THEN UNCHANGED st /\ Become(p, Idle)
           ELSE Commit(p, ProgressState(q), [job[p] EXCEPT !.pc = "write", !.pending = @ \ {q}])
    /\ UNCHANGED <<mark, port, begins, upsets, used, wiped, strayed>>

\* The metadata is restored (or the call fails), and one transaction marks the
\* last profile and advances the ceremony.
AdvancedState(p) ==
    LET n == Len(st.journal.subjects)
        marked == [st EXCEPT !.journal.subjects[n] = MarkStamped(@, job[p].pending)]
        at(stage) == [marked EXCEPT !.journal.stage = stage]
    IN  IF job[p].second THEN at("AwaitingCapture")
        ELSE IF job[p].phase = "InitialEnrollment" THEN at("Finalizing")
        ELSE FinalizeCeremony(at("Finalizing"))

AdvanceCeremony(p) ==
    /\ job[p].pc = "advance"
    /\ IF LostSubject THEN UNCHANGED st /\ Become(p, Idle) ELSE Commit(p, AdvancedState(p), Idle)
    /\ UNCHANGED <<mark, port, begins, upsets, used, wiped, strayed>>

-----------------------------------------------------------------------------
(* ceremony_associate: one transaction, and no mouse is touched. *)

Associate(p, d) ==
    /\ job[p] = Idle /\ st.journal # None
    /\ st.journal.phase = "BleAssociation" /\ AwaitsCapture(st.journal)
    \* The endpoint must not already belong to another logical mouse.
    /\ st.ble \in {d, None}
    /\ LET subject == [who |-> None, device |-> d, old |-> None, token |-> None, done |-> {}]
       IN  Commit(p, FinalizeCeremony([st EXCEPT !.journal.subjects = <<subject>>,
                                                 !.journal.stage = "Finalizing"]), Idle)
    /\ UNCHANGED <<mark, port, begins, upsets, used, wiped, strayed>>

-----------------------------------------------------------------------------
(* ceremony_finalize_migration and ceremony_cancel: the checks and the commit *)
(* are apart here too.                                                        *)

FinalizeCheck(p) ==
    /\ job[p] = Idle /\ st.journal # None
    /\ st.journal.phase = "InitialEnrollment" /\ st.journal.stage = "Finalizing"
    /\ Become(p, [pc |-> "finalize"])
    /\ UNCHANGED <<mark, port, st, begins, upsets, used, wiped, strayed>>

\* finalize_ceremony refuses these; an enrollment takes the subjects it finds.
Unfinalizable(j) ==
    j.phase # "InitialEnrollment" /\ (j.subjects = <<>> \/ j.subjects[1].token = None)

FinalizeCommit(p) ==
    /\ job[p].pc = "finalize"
    /\ IF st.journal = None \/ Unfinalizable(st.journal)
       THEN UNCHANGED st /\ Become(p, Idle)
       ELSE Commit(p, FinalizeCeremony(st), Idle)
    /\ UNCHANGED <<mark, port, begins, upsets, used, wiped, strayed>>

Irreversible(j) == \E i \in DOMAIN j.subjects : j.subjects[i].done # {}

\* Faulty variant: a ceremony can be cancelled at any time.
CancelAnytime(p) ==
    /\ job[p] = Idle /\ st.journal # None
    /\ Become(p, [pc |-> "cancel"])
    /\ UNCHANGED <<mark, port, st, begins, upsets, used, wiped, strayed>>

CancelCheck(p) ==
    /\ job[p] = Idle /\ st.journal # None /\ ~Irreversible(st.journal)
    /\ Become(p, [pc |-> "cancel"])
    /\ UNCHANGED <<mark, port, st, begins, upsets, used, wiped, strayed>>

CancelCommit(p) ==
    /\ job[p].pc = "cancel"
    /\ Commit(p, [st EXCEPT !.journal = None], Idle)
    /\ UNCHANGED <<mark, port, begins, upsets, used, wiped, strayed>>

-----------------------------------------------------------------------------
\* forget_device.
ForgetDevice(d) ==
    /\ LET s == [st EXCEPT !.devices = [e \in DOMAIN st.devices \ {d} |-> st.devices[e]],
                            !.ble = IF @ = d THEN None ELSE @]
       IN  Valid(s) /\ st' = s
    /\ UNCHANGED <<mark, port, job, begins, upsets, used, wiped, strayed>>

\* A process dies, or its call fails (the mouse is gone, a report fails).
CallFails(p) ==
    /\ job[p] \notin {Idle, Absent}
    /\ Become(p, Idle)
    /\ UNCHANGED <<mark, port, st, begins, upsets, used, wiped, strayed>>

\* The user plugs in a mouse, or unplugs it, also while one is being stamped.
BeingStamped ==
    \/ st.journal # None /\ st.journal.stage = "Stamping"
    \/ \E p \in Proc : job[p].pc \in {"capture", "mint", "open", "write", "progress", "advance"}

Upset == upsets < MaxUpsets[Cardinality(Working)] /\ upsets' = upsets + 1

Plug(u) ==
    /\ u # port /\ (port = None \/ u = None)
    /\ port' = u
    /\ IF u = None /\ BeingStamped THEN Upset ELSE UNCHANGED upsets
    /\ UNCHANGED <<mark, st, job, begins, used, wiped, strayed>>

\* Other software rewrites the DPI of a profile, mark included.
LoseMark(u, q) ==
    /\ Upset /\ mark[u][q] # None
    /\ mark' = [mark EXCEPT ![u][q] = None]
    /\ wiped' = wiped \cup {mark[u][q]}
    /\ UNCHANGED <<port, st, job, begins, used, strayed>>

Next ==
    \/ \E p \in Proc :
          \/ \E phase \in Phases : BeginCheck(p, phase)
          \/ BeginCommit(p)
          \/ \E q \in Profile, d \in DOMAIN st.devices \cup {None} : Capture(p, q, d)
          \/ CaptureCommit(p)
          \/ Stamp(p) \/ Adopt(p) \/ MintCommit(p) \/ OpenSubject(p) \/ StampProfile(p)
          \/ PersistProgress(p) \/ AdvanceCeremony(p)
          \/ \E d \in DOMAIN st.devices : Associate(p, d)
          \/ FinalizeCheck(p) \/ FinalizeCommit(p)
          \/ CancelCheck(p) \/ CancelCommit(p)
          \/ CallFails(p)
    \/ \E d \in DOMAIN st.devices : ForgetDevice(d)
    \/ \E u \in Unit \cup {None} : Plug(u)
    \/ \E u \in Unit, q \in Profile : LoseMark(u, q)

Spec == Init /\ [][Next]_vars

-----------------------------------------------------------------------------
(* The first holds of any number of processes, the others of one at a time: *)
(* no lock serialises the calls.                                            *)

\* A token is never on two mice.  The one exception: ceremony_stamp resumes with
\* whichever mouse is at the port, so one that the user exchanged for the mouse
\* captured gets its token.  Then no token is concerned but this one and those
\* that mouse carried.
TokensNeverCopied ==
    \A u, v \in Unit, q, r \in Profile :
        u # v /\ mark[u][q] = mark[v][r] => mark[u][q] \in strayed \cup {None}

\* A device of a persistent installation is one mouse that carries its token in
\* every profile (marks that other software removed, and mice exchanged while
\* they are stamped, excepted): whatever call failed or process died in between,
\* finalizing means completely stamped.
DevicesAreStamped ==
    Cardinality(Working) = 1 =>
        \A t \in Tokens(st) \ (wiped \cup strayed) :
            \E u \in Unit : \A q \in Profile : mark[u][q] = t

\* What a call has done to the mouse, the commit gate never refuses to record.
StampIsRecorded ==
    Cardinality(Working) = 1 =>
    \A p \in Proc :
        /\ job[p].pc = "advance" => Valid(AdvancedState(p))
        /\ job[p].pc = "progress" => Valid(ProgressState(Min(job[p].pending)))

\* A ceremony that has stamped a profile goes on from its journal, whatever
\* fails: no stamp and no token is forgotten or replaced, until it is finalized
\* into a device with that token.
CeremonyResumes ==
    [][Cardinality(Working) = 1 /\ st.journal # None /\ Irreversible(st.journal) /\ st'.journal # st.journal =>
          \A i \in DOMAIN st.journal.subjects :
             LET subject == st.journal.subjects[i]
             IN  IF st'.journal = None THEN subject.token \in Tokens(st')
                 ELSE /\ subject.done \subseteq st'.journal.subjects[i].done
                      /\ subject.token # None => st'.journal.subjects[i].token = subject.token]_vars

=============================================================================
