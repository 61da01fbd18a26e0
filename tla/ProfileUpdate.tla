----------------------------- MODULE ProfileUpdate -----------------------------
(***************************************************************************)
(* DeviceManager::apply_profile_update on one profile of one mouse, run by *)
(* several processes (x3ctl invocations, the GUI) over USB: wait for the   *)
(* operation lock device-<id>.lock, then for each section named by the     *)
(* update resolve a baseline, merge the delta and write the section, and   *)
(* commit the evidence of all written sections in one transaction.  Reads  *)
(* (read_profile) take the same lock.  A step of the hardware or of the    *)
(* store may fail, the process may die anywhere, and the user may change   *)
(* the mouse with its own buttons.                                         *)
(*                                                                         *)
(* A section (DPI, preferences, buttons) is a function from its fields to  *)
(* values: a delta sets some fields and keeps the others.                  *)
(***************************************************************************)
EXTENDS Naturals, Sequences

CONSTANTS
    Proc, None,
    Sections,     \* the sections in the order they are written
    Field, Val,   \* the fields of a section and their values
    Delta,        \* what a request may change in a section
    Baselines,    \* the baseline sources in use
    Interrupts,   \* whether processes may die and state.lock may be busy
    MaxOps,       \* bound: operations started
    MaxTouches    \* bound: changes made by the user on the mouse

\* A delta is a non-empty partial function from fields to values.
ASSUME DeltaAssumption ==
    \A d \in Delta : DOMAIN d # {} /\ DOMAIN d \subseteq Field /\ \A f \in DOMAIN d : d[f] \in Val

ASSUME InterruptsAssumption == Interrupts \in BOOLEAN

\* "Live": read from the mouse now. "Stored": the evidence in state.json.
\* "Draft": the image of this process's last read (the GUI's draft).
ASSUME BaselinesAssumption == Baselines # {} /\ Baselines \subseteq {"Live", "Stored", "Draft"}

Image == [Field -> Val]
Section == {Sections[i] : i \in 1..Len(Sections)}

ASSUME SectionsAssumption == Len(Sections) \in Nat
ASSUME ValAssumption == Val # {}
ASSUME AbsentAssumption == None \notin Proc \cup Image \cup Delta

INSTANCE Evidence WITH Value <- Image, Time <- {0}

NoDelta == [s \in Section |-> None]

VARIABLES
    hw,      \* the sections as the mouse holds them
    ev,      \* the committed evidence of each section
    oplock,  \* the holder of device-<id>.lock
    pc,      \* per process: where its operation stands
    delta,   \* per process: the requested change of each section, or None
    policy,  \* per process: baseline source and post-write verification
    base,    \* per process: the baseline of the section it is about to write, or None
    wrote,   \* per process: section values written or read, not yet committed
    draft,   \* per process: the sections its last read returned, or None
    ops, touches,   \* counters for the bounds
    \* History, read by the properties only:
    stale,   \* sections changed since their evidence was last committed
    moved    \* per process: its baseline is older than a user change

mouse == <<hw, stale, moved>>
local == <<delta, policy, base, wrote>>
vars == <<mouse, ev, oplock, pc, local, draft, ops, touches>>

Policy == [baseline : Baselines, readback : BOOLEAN]
DefaultPolicy == CHOOSE q \in Policy : TRUE

Init ==
    /\ hw \in [Section -> {CHOOSE i \in Image : TRUE}] /\ ev = [s \in Section |-> Empty]
    /\ oplock = None
    /\ pc = [p \in Proc |-> "idle"]
    /\ delta = [p \in Proc |-> NoDelta] /\ policy = [p \in Proc |-> DefaultPolicy]
    /\ base = [p \in Proc |-> None]
    /\ wrote = [p \in Proc |-> NoDelta]
    /\ draft = [p \in Proc |-> NoDelta] /\ ops = 0 /\ touches = 0
    /\ stale = {} /\ moved = [p \in Proc |-> FALSE]

TypeOK ==
    /\ hw \in [Section -> Image] /\ ev \in [Section -> Resource]
    /\ oplock \in Proc \cup {None}
    /\ pc \in [Proc -> {"idle", "waiting", "writing", "commit", "reading", "observe"}]
    /\ delta \in [Proc -> [Section -> {None} \cup Delta]]
    /\ policy \in [Proc -> Policy]
    /\ base \in [Proc -> {None} \cup Image]
    /\ wrote \in [Proc -> [Section -> {None} \cup Image]]
    /\ draft \in [Proc -> [Section -> {None} \cup Image]]
    /\ stale \in SUBSET Section
    /\ moved \in [Proc -> BOOLEAN]

Goto(p, step) == pc' = [pc EXCEPT ![p] = step]

\* The operation is over: its session and its operation guard are dropped.
Return(p) ==
    /\ Goto(p, "idle")
    /\ oplock' = IF oplock = p THEN None ELSE oplock
    /\ delta' = [delta EXCEPT ![p] = NoDelta]
    /\ policy' = [policy EXCEPT ![p] = DefaultPolicy]
    /\ base' = [base EXCEPT ![p] = None]
    /\ wrote' = [wrote EXCEPT ![p] = NoDelta]

\* The sections p still has to write, and the first of them in the order of
\* Sections.
Todo(p) == {s \in Section : delta[p][s] # None /\ wrote[p][s] = None}
NextSection(p) ==
    LET i == CHOOSE i \in 1..Len(Sections) :
                 /\ Sections[i] \in Todo(p)
                 /\ \A j \in 1..(i - 1) : Sections[j] \notin Todo(p)
    IN  Sections[i]

Merge(image, d) == [f \in Field |-> IF f \in DOMAIN d THEN d[f] ELSE image[f]]

\* load_stored_*_baseline: the desired value, then the observed one.
StoredBaseline(s) ==
    IF ev[s].desired # None THEN ev[s].desired.value
    ELSE IF ev[s].observed # None THEN ev[s].observed.value
    ELSE None

-----------------------------------------------------------------------------
(* Faulty variants of three steps, which the properties must detect. *)

\* A busy lock is polled without a deadline.
PollForever(p) == pc[p] = "waiting" /\ oplock # None /\ UNCHANGED vars

\* Stored evidence is preferred to the mouse.
ResolveStoredFirst(p) ==
    /\ pc[p] = "writing" /\ Todo(p) # {} /\ base[p] = None
    /\ LET s == NextSection(p)
           b == IF StoredBaseline(s) # None THEN StoredBaseline(s) ELSE hw[s]
       IN  base' = [base EXCEPT ![p] = b]
    /\ moved' = [moved EXCEPT ![p] = FALSE]
    /\ UNCHANGED <<hw, stale, ev, oplock, pc, delta, policy, wrote, draft, ops, touches>>

\* The operation lock is dropped after the last write, before the commit.
WriteThenUnlock(p) ==
    /\ pc[p] = "writing" /\ base[p] # None
    /\ LET s == NextSection(p)
           v == Merge(base[p], delta[p][s])
       IN  /\ hw' = [hw EXCEPT ![s] = v]
           /\ wrote' = [wrote EXCEPT ![p][s] = v]
           /\ stale' = stale \cup {s}
           /\ oplock' = IF Todo(p) = {s} THEN None ELSE oplock
           /\ Goto(p, IF Todo(p) = {s} THEN "commit" ELSE "writing")
    /\ base' = [base EXCEPT ![p] = None]
    /\ UNCHANGED <<moved, ev, delta, policy, draft, ops, touches>>

-----------------------------------------------------------------------------
BeginUpdate(p, d, q) ==
    /\ pc[p] = "idle" /\ ops < MaxOps /\ d # NoDelta
    /\ Goto(p, "waiting") /\ ops' = ops + 1
    /\ delta' = [delta EXCEPT ![p] = d] /\ policy' = [policy EXCEPT ![p] = q]
    /\ UNCHANGED <<mouse, ev, oplock, base, wrote, draft, touches>>

BeginRead(p) ==
    /\ pc[p] = "idle" /\ ops < MaxOps
    /\ Goto(p, "waiting") /\ ops' = ops + 1
    /\ UNCHANGED <<mouse, ev, oplock, local, draft, touches>>

\* acquire_operation_lock: polled until it is free or the deadline has passed.
AcquireOperationLock(p) ==
    /\ pc[p] = "waiting" /\ oplock = None
    /\ oplock' = p
    /\ Goto(p, IF delta[p] = NoDelta THEN "reading" ELSE "writing")
    /\ UNCHANGED <<mouse, ev, local, draft, ops, touches>>

OperationBusy(p) ==
    /\ pc[p] = "waiting" /\ oplock # None
    /\ Return(p)
    /\ UNCHANGED <<mouse, ev, draft, ops, touches>>

ResolveBaseline(p) ==
    /\ pc[p] = "writing" /\ Todo(p) # {} /\ base[p] = None
    /\ LET s == NextSection(p)
           b == CASE policy[p].baseline = "Live" -> hw[s]
                 [] policy[p].baseline = "Stored" -> StoredBaseline(s)
                 [] policy[p].baseline = "Draft" -> draft[p][s]
       IN  b # None /\ base' = [base EXCEPT ![p] = b]
    /\ moved' = [moved EXCEPT ![p] = FALSE]
    /\ UNCHANGED <<hw, stale, ev, oplock, pc, delta, policy, wrote, draft, ops, touches>>

\* The write reaches the mouse: the next section is up.
WriteSection(p) ==
    /\ pc[p] = "writing" /\ base[p] # None
    /\ LET s == NextSection(p)
           v == Merge(base[p], delta[p][s])
       IN  /\ hw' = [hw EXCEPT ![s] = v]
           /\ wrote' = [wrote EXCEPT ![p][s] = v]
           /\ stale' = stale \cup {s}
           /\ Goto(p, IF Todo(p) = {s} THEN "commit" ELSE "writing")
    /\ base' = [base EXCEPT ![p] = None]
    /\ UNCHANGED <<moved, ev, oplock, delta, policy, draft, ops, touches>>

\* The write reaches the mouse but the operation fails: the transfer reports
\* an error, or the readback fails or differs (WriteVerificationMismatch).
WriteFails(p) ==
    /\ pc[p] = "writing" /\ base[p] # None
    /\ LET s == NextSection(p)
       IN  /\ hw' = [hw EXCEPT ![s] = Merge(base[p], delta[p][s])]
           /\ stale' = stale \cup {s}
    /\ Return(p)
    /\ UNCHANGED <<moved, ev, draft, ops, touches>>

\* One transaction records every section that was written.
CommitUpdate(p) ==
    /\ pc[p] = "commit"
    /\ ev' = [s \in Section |->
                IF wrote[p][s] = None THEN ev[s]
                ELSE IF policy[p].readback
                     THEN RecordReadbackWrite(ev[s], wrote[p][s], wrote[p][s], 0)
                     ELSE RecordAckWrite(ev[s], wrote[p][s], 0)]
    /\ stale' = {s \in stale : wrote[p][s] # hw[s]}
    /\ Return(p)
    /\ UNCHANGED <<hw, moved, draft, ops, touches>>

ReadProfile(p) ==
    /\ pc[p] = "reading"
    /\ wrote' = [wrote EXCEPT ![p] = hw]
    /\ Goto(p, "observe")
    /\ UNCHANGED <<mouse, ev, oplock, delta, policy, base, draft, ops, touches>>

CommitRead(p) ==
    /\ pc[p] = "observe"
    /\ ev' = [s \in Section |-> ReconcileObservation(ev[s], wrote[p][s], 0)]
    /\ stale' = {s \in stale : wrote[p][s] # hw[s]}
    /\ draft' = [draft EXCEPT ![p] = wrote[p]]
    /\ Return(p)
    /\ UNCHANGED <<hw, moved, ops, touches>>

\* Any other error: the device is gone, a report cannot be read, there is no
\* baseline.
OperationFails(p) ==
    /\ pc[p] \in {"writing", "reading"}
    /\ Return(p)
    /\ UNCHANGED <<mouse, ev, draft, ops, touches>>

\* The process dies, or the transaction finds state.lock busy and fails at once.
Interrupted(p) ==
    /\ Interrupts /\ pc[p] # "idle"
    /\ Return(p)
    /\ UNCHANGED <<mouse, ev, draft, ops, touches>>

\* The user changes a section with the buttons of the mouse.
TouchMouse(s, v) ==
    /\ touches < MaxTouches /\ v # hw[s]
    /\ touches' = touches + 1
    /\ hw' = [hw EXCEPT ![s] = v]
    /\ stale' = stale \cup {s}
    /\ moved' = [p \in Proc |-> TRUE]
    /\ UNCHANGED <<ev, oplock, pc, local, draft, ops>>

-----------------------------------------------------------------------------
Step(p) ==
    \/ AcquireOperationLock(p) \/ OperationBusy(p)
    \/ ResolveBaseline(p) \/ WriteSection(p) \/ WriteFails(p) \/ CommitUpdate(p)
    \/ ReadProfile(p) \/ CommitRead(p)
    \/ OperationFails(p) \/ Interrupted(p)

Next ==
    \/ \E p \in Proc :
          \/ \E d \in [Section -> {None} \cup Delta], q \in Policy : BeginUpdate(p, d, q)
          \/ BeginRead(p)
          \/ Step(p)
    \/ \E s \in Section, v \in Image : TouchMouse(s, v)

\* The lock is polled every few milliseconds until a deadline; nothing is
\* assumed of an operation that holds it, which may hang on the hardware.
Fairness == \A p \in Proc : WF_vars(AcquireOperationLock(p) \/ OperationBusy(p))

Spec == Init /\ [][Next]_vars /\ Fairness

-----------------------------------------------------------------------------
\* Evidence that claims a section was applied (an acknowledged or verified
\* write) names what the mouse holds, unless the section was changed since
\* its evidence was last committed (by the user, by an operation still in
\* flight, or by one that failed).  Two operations interleaved between write
\* and commit would leave the evidence of the one and the image of the other:
\* what the operation lock held from open_locked to the commit prevents.
EvidenceIsTrue ==
    \A s \in Section \ stale :
        ev[s].desired # None /\ ev[s].desired.application \in {"Acknowledged", "ReadbackVerified"}
            => ev[s].desired.value = hw[s]

\* A write on a live baseline keeps every field its delta does not name as the
\* mouse holds it at that moment (the user's own changes since the baseline
\* was read excepted): no update of another process is lost.
LiveWriteKeepsRest ==
    [][\A p \in Proc, s \in Section :
         (WriteSection(p) /\ s = NextSection(p)
              /\ policy[p].baseline = "Live" /\ ~moved[p])
         => \A f \in Field \ DOMAIN delta[p][s] : hw'[s][f] = hw[s][f]]_vars

\* No operation waits for the operation lock forever, whatever its holder does.
NoEndlessWait == \A p \in Proc : pc[p] = "waiting" ~> pc[p] # "waiting"

=============================================================================
