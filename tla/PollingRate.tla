------------------------------ MODULE PollingRate ------------------------------
(***************************************************************************)
(* Polling-rate operations of the manager on one mouse over USB.           *)
(* Report 0x06 does not load a profile: a write sets the rate of the live  *)
(* image and saves that complete image into the slot named by its alias,   *)
(* and a read returns the rate of the live image.  So a rate write first   *)
(* checks that the live image is the one it intends to save, and a rate    *)
(* read first loads its target.                                            *)
(*                                                                         *)
(* Every operation holds the operation lock of the mouse from open to      *)
(* commit, so one operation runs at a time; only the user, who can change  *)
(* and switch profiles on the mouse itself, gets between its steps.  The   *)
(* operations that are not about the rate are single steps here: they set  *)
(* the stage (their own interleavings are those of ProfileUpdate).         *)
(*                                                                         *)
(* The firmware is external: docs/protocols/06-polling-rate.md.            *)
(***************************************************************************)
EXTENDS Naturals, Option

CONSTANTS
    Profile, Image, Rate,  \* Image: the DPI, preferences and buttons together
    Ways,        \* rate-writing operations in use: "update", "composite"
    MaxOps, MaxTouches   \* bounds: operations started, actions of the user

ASSUME WaysAssumption == Ways \subseteq {"update", "composite"}

INSTANCE Evidence WITH Value <- Image \cup Rate \cup Profile, Time <- {0}

Record == [image : Image, rate : Rate]

VARIABLES
    slot,     \* the stored record of each profile
    live,     \* the live record
    alias,    \* the slot that the deferred writer saves the live record into
    current,  \* persistent metadata: the current profile
    image, rate,  \* evidence of each profile: image and rate
    meta,     \* evidence of the current profile
    op,       \* the running operation
    ops, touches,
    \* History, read by the properties only:
    moved,    \* the user acted since the operation loaded its target
    stale     \* profiles whose rate changed since its evidence was committed

mouse == <<slot, live, alias, current>>
evidence == <<image, rate, meta>>
vars == <<mouse, evidence, op, ops, touches, moved, stale>>

Kinds == {"read", "update", "composite"}
Idle == [pc |-> "idle"]
Running == [pc : {"load", "rate", "write", "commit"}, kind : Kinds, target : Profile,
            want : {None} \cup Rate, intent : {None} \cup Image,
            got : {None} \cup Rate, readback : BOOLEAN]

TypeOK ==
    /\ slot \in [Profile -> Record] /\ live \in Record /\ alias \in Profile
    /\ current \in Profile
    /\ image \in [Profile -> Resource] /\ rate \in [Profile -> Resource]
    /\ meta \in Resource
    /\ op \in {Idle} \cup Running
    /\ moved \in BOOLEAN /\ stale \in SUBSET Profile

Init ==
    /\ slot \in [Profile -> Record] /\ current \in Profile
    /\ live = slot[current] /\ alias = current
    /\ image = [q \in Profile |-> Empty] /\ rate = [q \in Profile |-> Empty]
    /\ meta = Empty
    /\ op = Idle /\ ops = 0 /\ touches = 0
    /\ moved = FALSE /\ stale = {}

Start == op = Idle /\ ops < MaxOps /\ ops' = ops + 1 /\ UNCHANGED touches

\* A targeted section access (0x04, 0x05, 0x08) loads its target.
Load(q) == live' = slot[q] /\ alias' = q

\* A section write or a rate write saves the complete live record.
Save(q, rec) ==
    /\ live' = rec /\ alias' = q
    /\ slot' = [slot EXCEPT ![q] = rec]

-----------------------------------------------------------------------------
\* require_complete_desired_image: the desired image, and metadata that names
\* the target as current, the observed value being preferred to the desired one.
StoredCurrent ==
    IF meta.observed # None THEN meta.observed.value
    ELSE IF meta.desired # None THEN meta.desired.value
    ELSE None

BeginRateWrite(q, r, kind, readback) ==
    /\ Start
    /\ image[q].desired # None /\ StoredCurrent = q
    /\ op' = [pc |-> "load", kind |-> kind, target |-> q, want |-> r,
              intent |-> image[q].desired.value, got |-> None, readback |-> readback]
    /\ UNCHANGED <<mouse, evidence, moved, stale>>

\* read_polling_rate.
BeginRateRead(q) ==
    /\ Start
    /\ op' = [pc |-> "load", kind |-> "read", target |-> q, want |-> None,
              intent |-> None, got |-> None, readback |-> FALSE]
    /\ UNCHANGED <<mouse, evidence, moved, stale>>

\* read_status: the metadata, committed on its own, then the profile it names
\* and the live rate.  The user may switch the profile in between.
BeginStatus ==
    /\ Start
    /\ meta' = ReconcileObservation(meta, current, 0)
    /\ op' = [pc |-> "load", kind |-> "read", target |-> current, want |-> None,
              intent |-> None, got |-> None, readback |-> FALSE]
    /\ UNCHANGED <<mouse, image, rate, moved, stale>>

\* Faulty variants, which the properties must detect: the image is not compared,
\* or the image is compared but its read does not load the target.
MatchesMetadataOnly == op.kind = "composite" => current = op.target

\* read_profile(target), compared by a rate write with the desired image; only
\* the composite operation also compares the metadata that comes with it.
Matches ==
    CASE op.kind = "read" -> TRUE
      [] op.kind = "update" -> live'.image = op.intent
      [] op.kind = "composite" -> current = op.target /\ live'.image = op.intent

ReadWithoutLoad ==
    /\ op.pc = "load"
    /\ UNCHANGED mouse
    /\ moved' = FALSE
    /\ op' = IF Matches THEN [op EXCEPT !.pc = "rate"] ELSE Idle
    /\ UNCHANGED <<evidence, ops, touches, stale>>

ReadTarget ==
    /\ op.pc = "load"
    /\ Load(op.target) /\ UNCHANGED <<slot, current>>
    /\ moved' = FALSE
    /\ op' = IF Matches THEN [op EXCEPT !.pc = "rate"] ELSE Idle
    /\ UNCHANGED <<evidence, ops, touches, stale>>

\* read_live_polling_rate; a rate that is already the wanted one is not written.
ReadLiveRate ==
    /\ op.pc = "rate"
    /\ alias' = op.target
    /\ op' = IF op.kind = "read" \/ live.rate = op.want
             THEN [op EXCEPT !.pc = "commit", !.got = live.rate]
             ELSE [op EXCEPT !.pc = "write"]
    /\ UNCHANGED <<slot, live, current, evidence, ops, touches, moved, stale>>

\* write_polling_rate_unchecked; it may reach the mouse and still fail.
WriteRate ==
    /\ op.pc = "write"
    /\ Save(op.target, [live EXCEPT !.rate = op.want]) /\ UNCHANGED current
    /\ stale' = stale \cup {op.target}
    /\ op' \in {Idle, [op EXCEPT !.pc = "commit", !.got = IF op.readback THEN op.want ELSE None]}
    /\ UNCHANGED <<evidence, ops, touches, moved>>

CommitRate ==
    /\ op.pc = "commit"
    /\ rate' = [rate EXCEPT ![op.target] =
                  CASE op.kind = "read" -> ReconcileObservation(@, op.got, 0)
                    [] op.kind # "read" /\ op.got # None -> RecordReadbackWrite(@, op.want, op.got, 0)
                    [] op.kind # "read" /\ op.got = None -> RecordAckWrite(@, op.want, 0)]
    /\ stale' = IF moved THEN stale \cup {op.target} ELSE stale \ {op.target}
    /\ op' = Idle
    /\ UNCHANGED <<mouse, image, meta, ops, touches, moved>>

\* A failed report, a busy state.lock, or the death of the process.
OperationFails ==
    /\ op # Idle
    /\ op' = Idle
    /\ UNCHANGED <<mouse, evidence, ops, touches, moved, stale>>

-----------------------------------------------------------------------------
(* The other operations that touch the same state. *)

\* read_live_profile: metadata, target image and live rate, one commit.
ReadLiveProfile(q) ==
    /\ Start
    /\ Load(q) /\ UNCHANGED <<slot, current>>
    /\ image' = [image EXCEPT ![q] = ReconcileObservation(@, slot[q].image, 0)]
    /\ rate' = [rate EXCEPT ![q] = ReconcileObservation(@, slot[q].rate, 0)]
    /\ meta' = ReconcileObservation(meta, current, 0)
    /\ stale' = stale \ {q}
    /\ UNCHANGED <<op, moved>>

\* apply_profile_update on the sections.
WriteImage(q, i, readback) ==
    /\ Start
    /\ Save(q, [slot[q] EXCEPT !.image = i]) /\ UNCHANGED current
    /\ image' = [image EXCEPT ![q] = IF readback THEN RecordReadbackWrite(@, i, i, 0)
                                     ELSE RecordAckWrite(@, i, 0)]
    /\ UNCHANGED <<rate, meta, op, moved, stale>>

\* import_configuration: DPI needs existing evidence to take its tail from.
ImportImage(q, i) ==
    /\ Start /\ image[q] # Empty
    /\ image' = [image EXCEPT ![q] = SetImported(@, i, 0)]
    /\ UNCHANGED <<mouse, rate, meta, op, moved, stale>>

\* activate_profile: over USB the metadata is read back, over BLE only
\* acknowledged, which keeps the old observation.  The firmware loads a profile
\* only when the current one changes.
ActivateProfile(q, usb) ==
    /\ Start
    /\ current' = q /\ UNCHANGED slot
    /\ IF q # current THEN Load(q) ELSE UNCHANGED <<live, alias>>
    /\ meta' = IF usb THEN RecordReadbackWrite(meta, q, q, 0) ELSE RecordAckWrite(meta, q, 0)
    /\ UNCHANGED <<image, rate, op, moved, stale>>

\* update_polling_rate_unverified_ble: no preflight at all.
UnverifiedBleRate(q, r) ==
    /\ Start
    /\ Save(q, [live EXCEPT !.rate = r]) /\ UNCHANGED current
    /\ rate' = [rate EXCEPT ![q] = RecordAckWrite(@, r, 0)]
    /\ stale' = stale \ {q}
    /\ UNCHANGED <<image, meta, op, moved>>

-----------------------------------------------------------------------------
(* The user, on the mouse. *)

Touch == touches < MaxTouches /\ touches' = touches + 1 /\ moved' = TRUE

\* A DPI button: the live record changes and is saved.
TouchMouse(i) ==
    /\ Touch /\ i # live.image
    /\ Save(alias, [live EXCEPT !.image = i])
    /\ stale' = stale \cup {alias}
    /\ UNCHANGED <<current, evidence, op, ops>>

\* The profile button.
SwitchProfile(q) ==
    /\ Touch /\ q # current
    /\ current' = q /\ Load(q)
    /\ UNCHANGED <<slot, evidence, op, ops, stale>>

-----------------------------------------------------------------------------
Operate ==
    \/ \E q \in Profile, r \in Rate, kind \in Ways, readback \in BOOLEAN :
          BeginRateWrite(q, r, kind, readback)
    \/ \E q \in Profile :
          \/ BeginRateRead(q) \/ ReadLiveProfile(q)
          \/ \E i \in Image, readback \in BOOLEAN : WriteImage(q, i, readback)
          \/ \E i \in Image : ImportImage(q, i)
          \/ \E usb \in BOOLEAN : ActivateProfile(q, usb)
          \/ \E r \in Rate : UnverifiedBleRate(q, r)
    \/ BeginStatus

Next ==
    \/ Operate
    \/ ReadTarget \/ ReadLiveRate \/ WriteRate \/ CommitRate \/ OperationFails
    \/ \E i \in Image : TouchMouse(i)
    \/ \E q \in Profile : SwitchProfile(q)

Spec == Init /\ [][Next]_vars

-----------------------------------------------------------------------------
\* A rate write saves, into the slot of its target and no other, exactly the
\* image that the durable state wants there, whatever profile was live before
\* it began; and the composite operation writes the current profile only.
\* (The user's own actions after the image was checked are excepted.)
RateWriteSavesIntendedImage ==
    [][WriteRate /\ ~moved =>
          /\ slot'[op.target].image = image[op.target].desired.value
          /\ \A q \in Profile \ {op.target} : slot'[q] = slot[q]
          /\ op.kind = "composite" => current = op.target]_vars

\* Applied rate evidence of a profile names the rate stored in that profile's
\* own slot, although every read returns the rate of whichever image is live.
RateEvidenceIsOfItsProfile ==
    \A q \in Profile \ stale :
        rate[q].desired # None /\ rate[q].desired.application \in {"Acknowledged", "ReadbackVerified"}
            => slot[q].rate = rate[q].desired.value
=============================================================================
