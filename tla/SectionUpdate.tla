----------------------------- MODULE SectionUpdate -----------------------------
(***************************************************************************)
(* The manager's operations on one section of one profile, down to the     *)
(* bytes: read_dpi, read_preferences, read_buttons; update_dpi,            *)
(* update_preferences; update_dpi_delta, update_preferences_delta,         *)
(* update_button_slot; import_configuration; of the polling rate and the   *)
(* profile metadata only the reads, whose writes are modelled elsewhere.   *)
(* The mouse keeps the image it was last sent; a read fetches the report   *)
(* it publishes over a wire that may damage a byte, cut the report short,  *)
(* or deliver that of another section or profile.  The stock application   *)
(* and the buttons of the mouse change the section at any time.            *)
(***************************************************************************)
EXTENDS Reports

CONSTANTS
    Target, Other,  \* the profile of the operations, and another one
    Token,          \* the token bytes the mouse is stamped with, if it is
    Images,         \* per kind: the complete states that writes and other programs use
    Deltas,         \* per kind: the partial updates asked for
    MaxOps,         \* bound: operations started
    MaxTouches,     \* bound: changes by others
    MaxAttempts     \* ReadPolicy.max_attempts

Bit == {0, 1}
Color == [1..3 -> Byte]

\* The values of each section of the profile.
States ==
    [dpi |-> {s \in [profile : {Target}, stages : Seq(Dpi), active : StageIndex,
                     sensor : [lift : Bit, ripple : Bit, snap : Bit, sync : Bit],
                     tail : [1..WatermarkLength -> Byte]] : ValidSelection(s.stages, s.active)},
     preferences |-> [profile : {Target}, light : Byte, configuration : Byte, deepSleep : Byte,
                      color : Color, sleep : Byte, debounce : Byte],
     buttons |-> [profile : {Target}, slots : [0..(SlotCount - 1) -> [1..3 -> Byte]]],
     rate |-> DOMAIN RateCode,
     metadata |-> {m \in [current : Profiles, maximum : Profiles] : m.current <= m.maximum}]

Policy == [consent : BOOLEAN, readback : BOOLEAN, live : BOOLEAN]

\* The policies that differ on a transport: Bluetooth always takes recorded
\* evidence and refuses a readback, and only Bluetooth asks for the consent.
Policies(way) ==
    IF way = "Ble" THEN {p \in Policy : ~p.live /\ ~p.readback}
                   ELSE {p \in Policy : ~p.consent}

VARIABLES
    kind, transport,  \* the section, and the way to the mouse; they stay
    token,            \* DeviceIdentity.physical_id: the mark, or None (legacy)
    held,             \* the write image the mouse keeps for the section
    stored,           \* state.json: the values of desired and observed, or None
    op,               \* the operation in progress, or None
    ops, touches      \* counters for the bounds

sectionVars == <<kind, transport, token, held, stored, op, ops, touches>>
fixed == <<kind, transport, token>>

Encode(s) == CASE kind = "dpi" -> EncodeDpi(s)
               [] kind = "preferences" -> EncodePreferences(s)
               [] kind = "buttons" -> EncodeButtons(s)
               [] kind = "rate" -> EncodeRate(Target, s)
               [] kind = "metadata" -> PublishMetadata(s)

\* What the mouse holds, as a readback over a cable tells it.
Held == Decode(kind, Publish(kind, held, "Wired"), "Wired", Target)

SectionTypes ==
    /\ kind \in Kind /\ transport \in Transport /\ token \in {None, Token}
    /\ token # None => kind = "dpi"
    /\ Held \in States[kind] /\ held = Encode(Held)
    /\ stored \in [desired : States[kind] \cup {None}, observed : States[kind] \cup {None}]
    /\ op # None =>
          /\ op \in [call : {"read", "full", "delta"}, policy : Policies(transport),
                     phase : {"read", "write", "verify", "persist"},
                     base : States[kind] \cup {None}, delta : Deltas[kind] \cup {None},
                     was : Seq(Byte), tries : 1..MaxAttempts]
          /\ op.call = "delta" => op.delta \in Deltas[kind]
          /\ op.call = "full" => kind \in {"dpi", "preferences"}
          /\ op.phase = "read" => op.policy.live
          /\ op.phase = "verify" => op.policy.readback
          /\ op.phase # "read" => op.base \in States[kind]
          /\ op.call = "delta" /\ op.phase = "write" /\ op.policy.live => op.was = Encode(op.base)

SectionInit ==
    /\ kind \in Kind /\ transport \in Transport
    /\ token \in IF kind = "dpi" THEN {None, Token} ELSE {None}
    /\ \E s \in Images[kind] : held = Encode(s)
    /\ stored = [desired |-> None, observed |-> None]
    /\ op = None /\ ops = 0 /\ touches = 0

-----------------------------------------------------------------------------
(* The wire. *)

Damages == {1, 128, 255}

\* What a fetch may bring when the mouse publishes p.
Arrivals(p) ==
    {p, SubSeq(p, 1, Len(p) - 1)}
    \cup {Publish(kind, [Encode(s) EXCEPT ![3] = Other], transport) :
               s \in IF kind = "metadata" THEN {} ELSE Images[kind]}
    \cup {[p EXCEPT ![i] = (p[i] + d) % 256] : i \in DOMAIN p, d \in Damages}
    \cup {Publish(k, [held EXCEPT ![1] = Layout[k].id], transport) : k \in Kind \ {kind}}

\* The values one read attempt may decode; None is a refused report.
Readings == {Decode(kind, p, transport, Target) : p \in Arrivals(Publish(kind, held, transport))}

-----------------------------------------------------------------------------
(* Baselines and merging. *)

CapturedPreferences ==
    [profile |-> Target, light |-> 2, configuration |-> 1, deepSleep |-> 0,
     color |-> <<255, 0, 0>>, sleep |-> 5, debounce |-> 0]

CapturedDpi ==
    [profile |-> Target, stages |-> <<800>>, active |-> 1, tail |-> CapturedTail,
     sensor |-> [lift |-> 0, ripple |-> 0, snap |-> 0, sync |-> 0]]

Captured == CASE kind = "dpi" -> CapturedDpi
              [] kind = "preferences" -> CapturedPreferences
              [] kind = "buttons" -> [profile |-> Target, slots |-> DefaultSlots]

\* value_for_export: the desired value, or the observed one.
Evidence == IF stored.desired # None THEN stored.desired ELSE stored.observed

\* load_stored_*_baseline.  No program state holds ExplicitDefaults evidence,
\* so the test of that source never refuses a desired value.
StoredBaseline(consent) ==
    IF Evidence # None THEN Evidence ELSE IF consent THEN Captured ELSE None

\* delta.field.unwrap_or(baseline.field)
Pick(delta, f, old) == IF f \in DOMAIN delta THEN delta[f] ELSE old

\* SafeButtonSlot::index and SafeButtonAction::to_assignment.
SlotIndex == [Left |-> 0, Right |-> 1, Middle |-> 2, Dpi |-> 3, Forward |-> 6, Backward |-> 7]

Shortcut ==
    [Cut |-> <<1, 27>>, Copy |-> <<1, 6>>, Paste |-> <<1, 25>>, Open |-> <<1, 18>>,
     Save |-> <<1, 22>>, Find |-> <<1, 9>>, Redo |-> <<1, 28>>, SelectAll |-> <<1, 4>>,
     PrintKey |-> <<1, 19>>, CloseWindow |-> <<4, 61>>, SwapWindows |-> <<4, 43>>,
     ShowDesktop |-> <<8, 7>>, RunCommand |-> <<8, 21>>, LockPc |-> <<8, 15>>,
     ScreenCapture |-> <<10, 22>>, BrowserFavorites |-> <<3, 18>>]

FirmwareByte(a) == IF a \in DOMAIN Shortcut THEN ShortcutByte ELSE ActionByte[a]

ToAssignment(a) ==
    IF a \in DOMAIN Shortcut THEN <<FirmwareByte(a)>> \o Shortcut[a]
    ELSE <<FirmwareByte(a), 0, 0>>

\* The fields of a partial update have the types of the Rust structs; those of
\* a stage selection are tested together, by NewDpi.
ASSUME SectionAssumption ==
    /\ Target \in Profiles /\ Other \in Profiles \ {Target}
    /\ Token \in [1..16 -> Byte] /\ Token # None
    /\ MaxAttempts \in Nat \ {0}
    /\ \A k \in Kind : Images[k] \subseteq States[k] /\ None \notin States[k]
    /\ \A d \in Deltas["dpi"] :
          /\ DOMAIN d \subseteq {"stages", "active", "lift", "ripple", "snap", "sync"}
          /\ \A f \in DOMAIN d :
                d[f] \in IF f = "stages" THEN Seq(Dpi) ELSE IF f = "active" THEN Byte ELSE Bit
    /\ \A d \in Deltas["preferences"] :
          /\ DOMAIN d \subseteq PreferenceField
          /\ \A f \in DOMAIN d : d[f] \in IF f = "color" THEN Color ELSE Byte
    /\ \A d \in Deltas["buttons"] :
          /\ DOMAIN d \subseteq DOMAIN SlotIndex
          /\ \A s \in DOMAIN d : d[s] \in DOMAIN Shortcut \cup DOMAIN ActionByte
    /\ \A k \in {"rate", "metadata"} : Deltas[k] = {}

\* Faulty variant: the merged state gets the sensor options of a new one.
MergeDpiNewSensor(base, delta) ==
    LET merged == [base EXCEPT
            !.stages = Pick(delta, "stages", @),
            !.active = Pick(delta, "active", @),
            !.sensor = [f \in DOMAIN @ |-> Pick(delta, f, 0)]]
    IN  NewDpi(merged)

MergeDpi(base, delta) ==
    LET merged == [base EXCEPT
            !.stages = Pick(delta, "stages", @),
            !.active = Pick(delta, "active", @),
            !.sensor = [f \in DOMAIN @ |-> Pick(delta, f, @[f])]]
    IN  NewDpi(merged)

MergePreferences(base, delta) ==
    [f \in DOMAIN base |-> IF f = "profile" THEN base[f] ELSE Pick(delta, f, base[f])]

MergeSlot(base, delta) ==
    [base EXCEPT !.slots = [i \in DOMAIN @ |->
        IF \E s \in DOMAIN delta : SlotIndex[s] = i
        THEN ToAssignment(delta[CHOOSE s \in DOMAIN delta : SlotIndex[s] = i])
        ELSE @[i]]]

Merge(base, delta) == CASE kind = "dpi" -> MergeDpi(base, delta)
                        [] kind = "preferences" -> MergePreferences(base, delta)
                        [] kind = "buttons" -> MergeSlot(base, delta)

\* with_physical_watermark: a marked mouse keeps its own mark.
WithWatermark(s) ==
    IF kind = "dpi" /\ token # None THEN OverlayPhysicalId(s, token) ELSE s

-----------------------------------------------------------------------------
(* The operations. *)

Start(call, policy, phase, base, delta) ==
    /\ op = None /\ ops < MaxOps
    /\ op' = [call |-> call, policy |-> policy, phase |-> phase, base |-> base,
              delta |-> delta, was |-> held, tries |-> MaxAttempts]
    /\ ops' = ops + 1
    /\ UNCHANGED <<fixed, held, stored, touches>>

\* Bluetooth refuses every read.
Readable == transport # "Ble"

\* read_*.
BeginRead ==
    /\ Readable
    /\ Start("read", [consent |-> FALSE, readback |-> TRUE, live |-> TRUE], "read", None, None)

\* update_dpi, update_preferences: a complete state for the requested profile.
\* Buttons have no such operation.
BeginFull(s, policy) ==
    /\ kind \in {"dpi", "preferences"} /\ s.profile = Target
    /\ transport = "Ble" => policy.consent \/ Evidence # None
    /\ Start("full", policy, "write", s, None)

\* A partial update on what the mouse holds now.
BeginLive(delta, policy) ==
    /\ policy.live
    /\ Start("delta", policy, "read", None, delta)

\* A partial update on recorded evidence; only Bluetooth passes the consent on.
BeginStored(delta, policy) ==
    /\ ~policy.live
    /\ LET base == StoredBaseline(policy.consent)
       IN  base # None /\ Start("delta", policy, "write", base, delta)

\* One attempt to read: a refused report is retried until the attempts end.
Attempt(v, next) ==
    IF v # None THEN op' = next
    ELSE op' = IF op.tries > 1 THEN [op EXCEPT !.tries = @ - 1] ELSE None

ReadSection ==
    /\ op # None /\ op.phase = "read"
    /\ \E v \in Readings :
          Attempt(v, [op EXCEPT !.phase = IF op.call = "read" THEN "persist" ELSE "write",
                                !.base = v, !.was = held, !.tries = MaxAttempts])
    /\ UNCHANGED <<fixed, held, stored, ops, touches>>

\* The state the operation asks for; None when the merge is refused.
Wanted ==
    LET s == IF op.call = "delta" THEN Merge(op.base, op.delta) ELSE op.base
    IN  IF s = None THEN None ELSE WithWatermark(s)

\* The write, in the compact framing on every transport.  It may fail before
\* or after the mouse took it, which ends the operation; nothing is recorded.
WriteSection ==
    /\ op # None /\ op.phase = "write"
    /\ LET image == IF Wanted = None THEN None ELSE Encode(Wanted)
       IN  IF image = None THEN op' = None /\ UNCHANGED held
           ELSE \/ /\ held' = image
                   /\ op' \in {None, [op EXCEPT
                          !.phase = IF op.policy.readback THEN "verify" ELSE "persist",
                          !.base = Wanted]}
                \/ op' = None /\ UNCHANGED held
    /\ UNCHANGED <<fixed, stored, ops, touches>>

\* The readback of a write: another value is a mismatch and ends the operation.
VerifyWrite ==
    /\ op # None /\ op.phase = "verify"
    /\ \E v \in Readings :
          Attempt(v, IF v = op.base THEN [op EXCEPT !.phase = "persist"] ELSE None)
    /\ UNCHANGED <<fixed, held, stored, ops, touches>>

\* reconcile_observed, or persist_write; the commit may fail.
Persist ==
    /\ op # None /\ op.phase = "persist"
    /\ stored' \in
         {stored,
          [desired |-> IF op.call # "read" \/ stored.desired = None THEN op.base
                       ELSE stored.desired,
           observed |-> IF op.call = "read" \/ op.policy.readback THEN op.base
                        ELSE stored.observed]}
    /\ op' = None
    /\ UNCHANGED <<fixed, held, ops, touches>>

\* import_configuration: a DPI document has no tail and takes that of the
\* evidence of this mouse, without which it is refused.
Import(s) ==
    /\ op = None /\ ops < MaxOps /\ kind # "metadata"
    /\ kind = "dpi" => Evidence # None
    /\ stored' = [stored EXCEPT !.desired =
                    IF kind = "dpi" THEN [s EXCEPT !.tail = Evidence.tail] ELSE s]
    /\ ops' = ops + 1
    /\ UNCHANGED <<fixed, held, op, touches>>

\* The stock application, or the buttons of the mouse.
Touch(s) ==
    /\ touches < MaxTouches
    /\ held' = Encode(s)
    /\ touches' = touches + 1
    /\ UNCHANGED <<fixed, stored, op, ops>>

SectionNext ==
    \/ BeginRead
    \/ \E policy \in Policies(transport) :
          \/ \E s \in Images[kind] : BeginFull(s, policy)
          \/ \E d \in Deltas[kind] : BeginLive(d, policy) \/ BeginStored(d, policy)
    \/ ReadSection \/ WriteSection \/ VerifyWrite \/ Persist
    \/ \E s \in Images[kind] : Import(s) \/ Touch(s)

SectionSpec == SectionInit /\ [][SectionNext]_sectionVars

-----------------------------------------------------------------------------
(* Properties. *)

\* What a read returns is the section the mouse held at that moment, whatever
\* byte of the report was damaged, however it was cut, and whichever other
\* report came in its place: encoding it again gives the bytes of the mouse.
\* The checks of five decoders, their checksums and complements are behind this.
ReadIsExact ==
    [][\A next \in {"persist", "write"} :
          op # None /\ op.phase \in {"read", "verify"} /\ op' # None /\ op'.phase = next
              => Encode(op'.base) = held]_sectionVars

\* Every section the driver leaves on the mouse can be read again: its own
\* decoder accepts the report the mouse publishes for it, on every transport
\* with a readback.  A sparse update could combine a baseline and a change
\* that are each valid into a section no decoder takes.
StaysReadable ==
    \A t \in Transport \ {"Ble"} :
        Decode(kind, Publish(kind, held, t), t, Target) # None

\* The bytes of each field, as the protocol documents place them.
FieldBytes ==
    [stages |-> {5} \cup 8..23, active |-> {24}, lift |-> {3}, ripple |-> {4},
     snap |-> {6}, sync |-> {7}, light |-> {3}, configuration |-> {4}, deepSleep |-> {5},
     color |-> 6..8, sleep |-> {9}, debounce |-> {10},
     Left |-> 3..5, Right |-> 6..8, Middle |-> 9..11, Dpi |-> 12..14,
     Forward |-> 21..23, Backward |-> 24..26]

\* Field f of image p means v.
Means(p, f, v) ==
    CASE f = "stages" ->
            /\ At(p, 5) = 2^Len(v) - 1
            /\ \A i \in 0..(Len(v) - 1) : 50 * (At(p, 8 + i) + 256 * At(p, 16 + i) + 1) = v[i + 1]
      [] f = "color" -> Slice(p, 6, 9) = v
      [] f \in DOMAIN SlotIndex ->
            DecodeAction(Slice(p, 3 + 3 * SlotIndex[f], 6 + 3 * SlotIndex[f])) =
              IF v \in DOMAIN ActionByte THEN [action |-> v]
              ELSE [action |-> "KeyboardShortcut",
                    modifiers |-> Shortcut[v][1], key |-> Shortcut[v][2]]
      [] OTHER -> \A i \in FieldBytes[f] : At(p, i) = v

\* A partial update puts on the mouse exactly the fields it names, with the
\* asked meaning, and otherwise the bytes of its baseline, the opaque tail
\* included; on a marked mouse the tail becomes the mark of that mouse.
UpdateIsExact ==
    [][op # None /\ op.call = "delta" /\ held' # held /\ touches' = touches =>
         LET before == IF op.policy.live THEN op.was ELSE Encode(op.base)
             named == UNION {FieldBytes[f] : f \in DOMAIN op.delta}
             mark == IF kind = "dpi" /\ token # None THEN 25..49 ELSE {}
         IN  /\ \A f \in DOMAIN op.delta : Means(held', f, op.delta[f])
             /\ \A i \in 3..(Layout[kind].sum - 1) :
                   i \in named \cup mark \/ At(held', i) = At(before, i)
             /\ mark # {} => DecodeWatermark(Slice(held', 25, 50))
                               = [mark |-> "Valid", token |-> token]]_sectionVars
=============================================================================
