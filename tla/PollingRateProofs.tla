--------------------------- MODULE PollingRateProofs ---------------------------
(***************************************************************************)
(* Proofs of the properties of PollingRate for any profiles, images and    *)
(* rates, any number of operations and any actions of the user.            *)
(*                                                                         *)
(* A running operation carries promises from one step to the next: which   *)
(* image it compared, which rate it found or wrote.  They hold until the   *)
(* user acts (moved), and are the part of the invariant named Promises.    *)
(***************************************************************************)
EXTENDS PollingRate, Reports, TLAPS

\* The values of the evidence are those of its resource, and an operation
\* knows the ones it needs by the time it commits.
ValuesOfTheirResource ==
    \A q \in Profile :
        /\ image[q].desired # None => image[q].desired.value \in Image
        /\ rate[q].desired # None => rate[q].desired.value \in Rate

\* What the running operation knows.
Promises ==
    op # Idle =>
        /\ op.kind \in Ways \cup {"read"}
        /\ op.kind = "read" => op.pc # "write"
        /\ op.kind # "read" =>
              /\ op.want \in Rate
              /\ image[op.target].desired # None
              /\ op.intent = image[op.target].desired.value
        /\ op.pc = "commit" => IF op.kind = "read" THEN op.got \in Rate
                               ELSE op.got \in {None, op.want}
        /\ op.pc # "load" /\ ~moved =>
              /\ live = slot[op.target]
              /\ op.kind # "read" => live.image = op.intent
              /\ op.kind = "composite" => current = op.target
              /\ op.pc = "commit" =>
                    slot[op.target].rate = IF op.kind = "read" THEN op.got ELSE op.want

IInv == TypeOK /\ ValuesOfTheirResource /\ Promises /\ RateEvidenceIsOfItsProfile

-----------------------------------------------------------------------------
(* What the mutators of a resource return, at the one instant of this module. *)

Values == Image \cup Rate \cup Profile

LEMMA WantedType ==
    ASSUME NEW v \in Values, NEW src \in Source, NEW app \in Application
    PROVE  Wanted(v, src, app, 0) \in Desired
BY DEF Wanted, Desired, Values

LEMMA SeenType ==
    ASSUME NEW v \in Values
    PROVE  Seen(v, 0) \in Observed
BY DEF Seen, Observed, Values

LEMMA EmptyType == Empty \in Resource /\ Empty.desired = None
BY DEF Empty, Resource

\* record_ack_write.
LEMMA AckWrite ==
    ASSUME NEW rs \in Resource, NEW v \in Values
    PROVE  /\ RecordAckWrite(rs, v, 0) \in Resource
           /\ RecordAckWrite(rs, v, 0).desired.value = v
<1> DEFINE d == Wanted(v, "UserWrite", "Acknowledged", 0)
<1>1. d \in Desired /\ d.value = v
  BY WantedType DEF Source, Application, Wanted
<1>2. RecordAckWrite(rs, v, 0) = [rs EXCEPT !.desired = d]
  BY DEF RecordAckWrite
<1> HIDE DEF d
<1>3. rs = [desired |-> rs.desired, observed |-> rs.observed]
      /\ rs.observed \in {None} \cup Observed
  BY DEF Resource
<1>4. RecordAckWrite(rs, v, 0) = [desired |-> d, observed |-> rs.observed]
  BY <1>2, <1>3
<1> QED BY <1>1, <1>3, <1>4 DEF Resource

\* record_readback_write.
LEMMA ReadbackWrite ==
    ASSUME NEW rs \in Resource, NEW v \in Values, NEW o \in Values
    PROVE  /\ RecordReadbackWrite(rs, v, o, 0) \in Resource
           /\ RecordReadbackWrite(rs, v, o, 0).desired.value = v
<1> DEFINE app == IF v = o THEN "ReadbackVerified" ELSE "Mismatch"
           d == Wanted(v, "UserWrite", app, 0)
<1>1. d \in Desired /\ d.value = v
  BY WantedType DEF Source, Application, Wanted
<1>2. Seen(o, 0) \in Observed
  BY SeenType
<1>3. RecordReadbackWrite(rs, v, o, 0) = [desired |-> d, observed |-> Seen(o, 0)]
  BY DEF RecordReadbackWrite
<1> HIDE DEF d
<1> QED BY <1>1, <1>2, <1>3 DEF Resource

\* set_imported.
LEMMA Import ==
    ASSUME NEW rs \in Resource, NEW v \in Values
    PROVE  /\ SetImported(rs, v, 0) \in Resource
           /\ SetImported(rs, v, 0).desired.value = v
<1> DEFINE d == Wanted(v, "Imported", "NotSent", 0)
<1>1. d \in Desired /\ d.value = v
  BY WantedType DEF Source, Application, Wanted
<1>2. SetImported(rs, v, 0) = [rs EXCEPT !.desired = d]
  BY DEF SetImported
<1> HIDE DEF d
<1>3. rs = [desired |-> rs.desired, observed |-> rs.observed]
      /\ rs.observed \in {None} \cup Observed
  BY DEF Resource
<1>4. SetImported(rs, v, 0) = [desired |-> d, observed |-> rs.observed]
  BY <1>2, <1>3
<1> QED BY <1>1, <1>3, <1>4 DEF Resource

\* reconcile_observation: the value is the one already wanted, or the baseline;
\* and it counts as applied only when it is the value just read.
LEMMA Reconcile ==
    ASSUME NEW rs \in Resource, NEW o \in Values
    PROVE  LET new == ReconcileObservation(rs, o, 0)
           IN  /\ new \in Resource
               /\ new.desired.value = IF rs.desired = None THEN o ELSE rs.desired.value
               /\ new.desired.application \in {"Acknowledged", "ReadbackVerified"}
                     => new.desired.value = o
<1> DEFINE new == ReconcileObservation(rs, o, 0)
<1> SUFFICES /\ new \in Resource
             /\ new.desired.value = IF rs.desired = None THEN o ELSE rs.desired.value
             /\ new.desired.application \in {"Acknowledged", "ReadbackVerified"}
                   => new.desired.value = o
  OBVIOUS
<1>1. Seen(o, 0) \in Observed
  BY SeenType
<1>2. CASE rs.desired = None
  <2> DEFINE d == Wanted(o, "CapturedBaseline", "ReadbackVerified", 0)
  <2>1. d \in Desired /\ d.value = o
    BY WantedType DEF Source, Application, Wanted
  <2>2. new = [desired |-> d, observed |-> Seen(o, 0)]
    BY <1>2 DEF ReconcileObservation
  <2> HIDE DEF d, new
  <2> QED BY <1>1, <1>2, <2>1, <2>2 DEF Resource
<1>3. CASE rs.desired # None
  <2> DEFINE app == IF rs.desired.value = o /\ 0 >= rs.desired.updated_at
                    THEN "ReadbackVerified" ELSE "Mismatch"
             d == [rs.desired EXCEPT !.application = app, !.persistence = Unknown]
  <2>1. rs.desired \in Desired
    BY <1>3 DEF Resource
  <2>2. app \in Application /\ (app = "ReadbackVerified" => rs.desired.value = o)
        /\ app # "Acknowledged"
    BY DEF Application
  <2>3. new = [desired |-> d, observed |-> Seen(o, 0)]
    BY <1>3 DEF ReconcileObservation
  <2>4. d \in Desired /\ d.value = rs.desired.value /\ d.application = app
    <3> HIDE DEF app
    <3> QED BY <2>1, <2>2 DEF Desired
  <2> HIDE DEF app, d, new
  <2> QED BY <1>1, <1>3, <2>2, <2>3, <2>4 DEF Resource
<1> QED BY <1>2, <1>3
-----------------------------------------------------------------------------
(* The steps of a rate operation. *)

\* The facts about an operation at one of its steps.
LEMMA AtStep ==
    ASSUME TypeOK, op.pc # "idle"
    PROVE  /\ op # Idle /\ op \in Running /\ op.target \in Profile
           /\ op = [pc |-> op.pc, kind |-> op.kind, target |-> op.target, want |-> op.want,
                    intent |-> op.intent, got |-> op.got, readback |-> op.readback]
           /\ op.kind \in Kinds /\ op.want \in {None} \cup Rate
           /\ op.intent \in {None} \cup Image /\ op.got \in {None} \cup Rate
           /\ op.readback \in BOOLEAN
BY DEF TypeOK, Idle, Running

LEMMA InitInvariant == Init => IInv
<1> SUFFICES ASSUME Init PROVE IInv
  OBVIOUS
<1>1. TypeOK
  BY EmptyType DEF Init, TypeOK, Record
<1>2. ValuesOfTheirResource /\ RateEvidenceIsOfItsProfile
  BY EmptyType DEF Init, ValuesOfTheirResource, RateEvidenceIsOfItsProfile
<1>3. Promises
  BY DEF Init, Promises
<1> QED BY <1>1, <1>2, <1>3 DEF IInv

\* A rate write or a rate read begins.
LEMMA BeginStep ==
    ASSUME IInv, NEW q \in Profile, NEW k \in Ways \cup {"read"},
           NEW w \in {None} \cup Rate, NEW i \in {None} \cup Image, NEW b \in BOOLEAN,
           op' = [pc |-> "load", kind |-> k, target |-> q, want |-> w,
                  intent |-> i, got |-> None, readback |-> b],
           k # "read" => w \in Rate /\ image[q].desired # None
                         /\ i = image[q].desired.value,
           UNCHANGED <<mouse, image, rate, moved, stale>>, meta' \in Resource
    PROVE  IInv'
<1>1. k \in Kinds
  BY WaysAssumption DEF Kinds
<1>2. op' \in Running
  BY <1>1 DEF Running
<1>3. TypeOK'
  BY <1>2 DEF IInv, TypeOK, mouse
<1>4. ValuesOfTheirResource' /\ RateEvidenceIsOfItsProfile'
  BY DEF IInv, ValuesOfTheirResource, RateEvidenceIsOfItsProfile, mouse
<1>5. Promises'
  BY DEF IInv, Promises, mouse
<1> QED BY <1>3, <1>4, <1>5 DEF IInv

LEMMA ReadTargetStep == IInv /\ ReadTarget => IInv'
<1> SUFFICES ASSUME IInv, ReadTarget PROVE IInv'
  OBVIOUS
<1>0. op.pc = "load" /\ live' = slot[op.target] /\ alias' = op.target
      /\ UNCHANGED <<slot, current, evidence, stale>> /\ moved' = FALSE
  BY DEF ReadTarget, Load
<1>1. /\ op # Idle /\ op.target \in Profile /\ op.kind \in Kinds
      /\ op \in Running
  BY <1>0, AtStep DEF IInv
<1>2. \/ op' = Idle
      \/ op' = [op EXCEPT !.pc = "rate"] /\ Matches
  BY DEF ReadTarget
<1>3. op' \in {Idle} \cup Running
  BY <1>1, <1>2 DEF Running
<1>4. live' \in Record
  BY <1>0, <1>1 DEF IInv, TypeOK
<1>5. TypeOK'
  BY <1>0, <1>1, <1>3, <1>4 DEF IInv, TypeOK, evidence
<1>6. ValuesOfTheirResource' /\ RateEvidenceIsOfItsProfile'
  BY <1>0 DEF IInv, ValuesOfTheirResource, RateEvidenceIsOfItsProfile, evidence
<1>7. Promises'
  <2>1. SUFFICES ASSUME op' # Idle PROVE Promises'
    BY DEF Promises
  <2>2. op' = [op EXCEPT !.pc = "rate"] /\ Matches
    BY <1>2, <2>1
  <2>3. /\ op'.pc = "rate" /\ op'.kind = op.kind /\ op'.target = op.target
        /\ op'.want = op.want /\ op'.intent = op.intent
    BY <1>1, <2>2 DEF Running
  <2>4. /\ op.kind # "read" => live'.image = op.intent
        /\ op.kind = "composite" => current = op.target
    BY <1>1, <2>2 DEF Matches, Kinds
  <2> QED BY <1>0, <1>1, <2>3, <2>4 DEF IInv, Promises, evidence
<1> QED BY <1>5, <1>6, <1>7 DEF IInv

LEMMA ReadLiveRateStep == IInv /\ ReadLiveRate => IInv'
<1> SUFFICES ASSUME IInv, ReadLiveRate PROVE IInv'
  OBVIOUS
<1>0. op.pc = "rate" /\ alias' = op.target
      /\ UNCHANGED <<slot, live, current, evidence, moved, stale>>
  BY DEF ReadLiveRate
<1>1. /\ op # Idle /\ op.target \in Profile /\ op.kind \in Kinds
      /\ op \in Running
  BY <1>0, AtStep DEF IInv
<1>2. live.rate \in Rate
  BY DEF IInv, TypeOK, Record
<1>3. \/ /\ op' = [op EXCEPT !.pc = "commit", !.got = live.rate]
         /\ op.kind = "read" \/ live.rate = op.want
      \/ /\ op' = [op EXCEPT !.pc = "write"]
         /\ op.kind # "read"
  BY DEF ReadLiveRate
<1>4. op' \in Running
  BY <1>1, <1>2, <1>3 DEF Running
<1>5. TypeOK'
  BY <1>0, <1>1, <1>4 DEF IInv, TypeOK, evidence
<1>6. ValuesOfTheirResource' /\ RateEvidenceIsOfItsProfile'
  BY <1>0 DEF IInv, ValuesOfTheirResource, RateEvidenceIsOfItsProfile, evidence
<1>7. Promises'
  <2>1. CASE op.kind = "read" \/ live.rate = op.want
    <3>1. CASE op' = [op EXCEPT !.pc = "commit", !.got = live.rate]
      <4>1. /\ op'.pc = "commit" /\ op'.kind = op.kind /\ op'.target = op.target
            /\ op'.want = op.want /\ op'.intent = op.intent /\ op'.got = live.rate
        BY <1>1, <3>1 DEF Running
      <4> QED BY <1>0, <1>1, <1>2, <2>1, <4>1 DEF IInv, Promises, evidence
    <3>2. CASE op' = [op EXCEPT !.pc = "write"] /\ op.kind # "read"
      <4>1. /\ op'.pc = "write" /\ op'.kind = op.kind /\ op'.target = op.target
            /\ op'.want = op.want /\ op'.intent = op.intent
        BY <1>1, <3>2 DEF Running
      <4> QED BY <1>0, <1>1, <3>2, <4>1 DEF IInv, Promises, evidence
    <3> QED BY <1>3, <3>1, <3>2
  <2>2. CASE op' = [op EXCEPT !.pc = "write"] /\ op.kind # "read"
    <3>1. /\ op'.pc = "write" /\ op'.kind = op.kind /\ op'.target = op.target
          /\ op'.want = op.want /\ op'.intent = op.intent
      BY <1>1, <2>2 DEF Running
    <3> QED BY <1>0, <1>1, <2>2, <3>1 DEF IInv, Promises, evidence
  <2> QED BY <1>3, <2>1, <2>2
<1> QED BY <1>5, <1>6, <1>7 DEF IInv
\* What a write leaves in the slots.
LEMMA SaveResult ==
    ASSUME TypeOK, NEW q \in Profile, NEW rec \in Record, Save(q, rec)
    PROVE  /\ live' = rec /\ alias' = q /\ slot' \in [Profile -> Record]
           /\ slot'[q] = rec /\ \A p \in Profile \ {q} : slot'[p] = slot[p]
BY DEF Save, TypeOK

\* The write of a rate saves the live image, which is the intended one.
LEMMA WriteFacts ==
    ASSUME IInv, WriteRate
    PROVE  /\ op # Idle /\ op \in Running /\ op.pc = "write" /\ op.target \in Profile
           /\ op.kind \in {"update", "composite"} /\ op.want \in Rate
           /\ live' = [live EXCEPT !.rate = op.want] /\ live' \in Record
           /\ live'.rate = op.want /\ live'.image = live.image
           /\ alias' = op.target /\ slot' \in [Profile -> Record]
           /\ slot'[op.target] = live'
           /\ \A p \in Profile \ {op.target} : slot'[p] = slot[p]
           /\ stale' = stale \cup {op.target}
           /\ UNCHANGED <<current, evidence, ops, touches, moved>>
<1>0. op.pc = "write" /\ Save(op.target, [live EXCEPT !.rate = op.want])
      /\ stale' = stale \cup {op.target}
      /\ UNCHANGED <<current, evidence, ops, touches, moved>>
  BY DEF WriteRate
<1>1. op # Idle /\ op \in Running /\ op.target \in Profile /\ op.kind \in Kinds
  BY <1>0, AtStep DEF IInv
<1>2. op.kind # "read" /\ op.want \in Rate
  BY <1>0, <1>1 DEF IInv, Promises
<1>3. live \in Record
  BY DEF IInv, TypeOK
<1> DEFINE rec == [live EXCEPT !.rate = op.want]
<1>4. rec \in Record /\ rec.rate = op.want /\ rec.image = live.image
  BY <1>2, <1>3 DEF Record
<1>5. Save(op.target, rec)
  BY <1>0
<1>6. live' = rec
  BY <1>5 DEF Save
<1> HIDE DEF rec
<1>7. /\ live' = rec /\ alias' = op.target /\ slot' \in [Profile -> Record]
      /\ slot'[op.target] = rec /\ \A p \in Profile \ {op.target} : slot'[p] = slot[p]
  BY <1>1, <1>4, <1>5, SaveResult DEF IInv
<1>8. op.kind \in {"update", "composite"}
  BY <1>1, <1>2 DEF Kinds
<1> QED BY <1>0, <1>1, <1>2, <1>4, <1>7, <1>8 DEF rec

LEMMA WriteRateStep == IInv /\ WriteRate => IInv'
<1> SUFFICES ASSUME IInv, WriteRate PROVE IInv'
  OBVIOUS
<1>0. /\ op # Idle /\ op \in Running /\ op.pc = "write" /\ op.target \in Profile
      /\ op.kind \in {"update", "composite"} /\ op.want \in Rate
      /\ live' \in Record /\ live'.rate = op.want /\ live'.image = live.image
      /\ alias' = op.target /\ slot' \in [Profile -> Record]
      /\ slot'[op.target] = live'
      /\ \A p \in Profile \ {op.target} : slot'[p] = slot[p]
      /\ stale' = stale \cup {op.target}
      /\ UNCHANGED <<current, evidence, ops, touches, moved>>
  BY WriteFacts
<1> DEFINE g == IF op.readback THEN op.want ELSE None
<1>1. op' = Idle \/ op' = [op EXCEPT !.pc = "commit", !.got = g]
  BY DEF WriteRate
<1>2. g \in {None, op.want}
  OBVIOUS
<1> HIDE DEF g
<1>3. op' \in {Idle} \cup Running
  BY <1>0, <1>1, <1>2 DEF Running
<1>4. TypeOK'
  BY <1>0, <1>3 DEF IInv, TypeOK, evidence
<1>5. ValuesOfTheirResource'
  BY <1>0 DEF IInv, ValuesOfTheirResource, evidence
<1>6. RateEvidenceIsOfItsProfile'
  BY <1>0 DEF IInv, RateEvidenceIsOfItsProfile, evidence
<1>7. Promises'
  <2>1. CASE op' = Idle
    BY <2>1 DEF Promises
  <2>2. CASE op' = [op EXCEPT !.pc = "commit", !.got = g]
    <3>1. /\ op'.pc = "commit" /\ op'.kind = op.kind /\ op'.target = op.target
          /\ op'.want = op.want /\ op'.intent = op.intent /\ op'.got = g
      BY <1>0, <2>2 DEF Running
    <3>2. op.kind # "read" /\ image' = image
      BY <1>0 DEF evidence
    <3>3. /\ op.kind \in Ways \cup {"read"}
          /\ image[op.target].desired # None /\ op.intent = image[op.target].desired.value
          /\ ~moved => live.image = op.intent
                        /\ (op.kind = "composite" => current = op.target)
      BY <1>0, <3>2 DEF IInv, Promises
    <3>4. moved' = moved /\ current' = current
      BY <1>0
    <3> QED BY <1>0, <1>2, <3>1, <3>2, <3>3, <3>4 DEF Promises
  <2> QED BY <1>1, <2>1, <2>2
<1> QED BY <1>4, <1>5, <1>6, <1>7 DEF IInv

\* A commit whose operation saw the user act keeps the profile out of the
\* claim; otherwise the rate it records is the one in the slot.
LEMMA CommitRateStep == IInv /\ CommitRate => IInv'
<1> SUFFICES ASSUME IInv, CommitRate PROVE IInv'
  OBVIOUS
<1>0. op.pc = "commit" /\ op' = Idle /\ UNCHANGED <<mouse, image, meta, moved>>
      /\ stale' = IF moved THEN stale \cup {op.target} ELSE stale \ {op.target}
  BY DEF CommitRate
<1>1. op # Idle /\ op \in Running /\ op.target \in Profile /\ op.kind \in Kinds
  BY <1>0, AtStep DEF IInv
<1> DEFINE new == CASE op.kind = "read" -> ReconcileObservation(rate[op.target], op.got, 0)
                    [] op.kind # "read" /\ op.got # None ->
                          RecordReadbackWrite(rate[op.target], op.want, op.got, 0)
                    [] op.kind # "read" /\ op.got = None ->
                          RecordAckWrite(rate[op.target], op.want, 0)
<1>2. rate' = [rate EXCEPT ![op.target] = new]
  BY DEF CommitRate
<1>3. rate[op.target] \in Resource
      /\ (rate[op.target].desired # None => rate[op.target].desired.value \in Rate)
  BY <1>1 DEF IInv, TypeOK, ValuesOfTheirResource
<1>4. /\ new \in Resource /\ new.desired.value \in Rate
      /\ ~moved /\ new.desired.application \in {"Acknowledged", "ReadbackVerified"}
            => slot[op.target].rate = new.desired.value
  <2>1. CASE op.kind = "read"
    <3>1. new = ReconcileObservation(rate[op.target], op.got, 0)
      BY <2>1
    <3>2. op.got \in Rate /\ op.got \in Values
      BY <1>0, <1>1, <2>1 DEF IInv, Promises, Values
    <3> HIDE DEF new
    <3>3. /\ new \in Resource
          /\ new.desired.value = IF rate[op.target].desired = None THEN op.got
                                 ELSE rate[op.target].desired.value
          /\ new.desired.application \in {"Acknowledged", "ReadbackVerified"}
               => new.desired.value = op.got
      BY <1>3, <3>1, <3>2, Reconcile
    <3>4. ~moved => slot[op.target].rate = op.got
      BY <1>0, <1>1, <2>1 DEF IInv, Promises
    <3> QED BY <1>3, <3>2, <3>3, <3>4
  <2>2. CASE op.kind # "read"
    <3>1. \/ op.got # None /\ new = RecordReadbackWrite(rate[op.target], op.want, op.got, 0)
          \/ op.got = None /\ new = RecordAckWrite(rate[op.target], op.want, 0)
      BY <2>2
    <3>2. op.want \in Rate /\ op.want \in Values /\ op.got \in {None, op.want}
      BY <1>0, <1>1, <2>2 DEF IInv, Promises, Values
    <3> HIDE DEF new
    <3>3. new \in Resource /\ new.desired.value = op.want
      <4>1. CASE op.got # None /\ new = RecordReadbackWrite(rate[op.target], op.want, op.got, 0)
        BY <1>3, <3>2, <4>1, ReadbackWrite
      <4>2. CASE op.got = None /\ new = RecordAckWrite(rate[op.target], op.want, 0)
        BY <1>3, <3>2, <4>2, AckWrite
      <4> QED BY <3>1, <4>1, <4>2
    <3>4. ~moved => slot[op.target].rate = op.want
      BY <1>0, <1>1, <2>2 DEF IInv, Promises
    <3> QED BY <3>2, <3>3, <3>4
  <2> QED BY <2>1, <2>2
<1> HIDE DEF new
<1>5. /\ rate' \in [Profile -> Resource] /\ rate'[op.target] = new
      /\ \A p \in Profile \ {op.target} : rate'[p] = rate[p]
  BY <1>1, <1>2, <1>4 DEF IInv, TypeOK
<1>6. UNCHANGED <<slot, live, alias, current, image, meta, moved>>
  BY <1>0 DEF mouse
<1>7. TypeOK'
  BY <1>0, <1>1, <1>5, <1>6 DEF IInv, TypeOK
<1>8. ValuesOfTheirResource'
  BY <1>4, <1>5, <1>6 DEF IInv, ValuesOfTheirResource
<1>9. RateEvidenceIsOfItsProfile'
  <2> SUFFICES ASSUME NEW p \in Profile, p \notin stale', rate'[p].desired # None,
                      rate'[p].desired.application \in {"Acknowledged", "ReadbackVerified"}
               PROVE  slot[p].rate = rate'[p].desired.value
    BY <1>6 DEF RateEvidenceIsOfItsProfile
  <2>1. CASE p = op.target
    BY <1>0, <1>4, <1>5, <2>1
  <2>2. CASE p # op.target
    <3>1. p \notin stale /\ rate'[p] = rate[p]
      BY <1>0, <1>5, <2>2
    <3> QED BY <3>1 DEF IInv, RateEvidenceIsOfItsProfile
  <2> QED BY <2>1, <2>2
<1>10. Promises'
  BY <1>0 DEF Promises
<1> QED BY <1>7, <1>8, <1>9, <1>10 DEF IInv

LEMMA FailStep == IInv /\ OperationFails => IInv'
<1> SUFFICES ASSUME IInv, OperationFails PROVE IInv'
  OBVIOUS
<1>1. op' = Idle /\ UNCHANGED <<slot, live, alias, current, image, rate, meta, moved, stale>>
  BY DEF OperationFails, mouse, evidence
<1> QED
  BY <1>1 DEF IInv, TypeOK, ValuesOfTheirResource, RateEvidenceIsOfItsProfile, Promises

-----------------------------------------------------------------------------
(* The single steps that set the stage. *)

\* A step of another operation, while none runs.
LEMMA WhileIdle ==
    ASSUME op = Idle, op' = op PROVE Promises'
BY DEF Promises
\* What the invariant says of one profile.
LEMMA OfProfile ==
    ASSUME IInv, NEW q \in Profile
    PROVE  /\ slot[q] \in Record /\ slot[q].image \in Image /\ slot[q].rate \in Rate
           /\ image[q] \in Resource /\ rate[q] \in Resource
           /\ image[q].desired # None => image[q].desired.value \in Image
           /\ rate[q].desired # None => rate[q].desired.value \in Rate
           /\ live.image \in Image /\ live.rate \in Rate
BY DEF IInv, TypeOK, ValuesOfTheirResource, Record

\* Evidence of the image of one profile, replaced.
LEMMA NewImageEvidence ==
    ASSUME IInv, NEW q \in Profile, NEW new \in Resource,
           new.desired # None => new.desired.value \in Image,
           image' = [image EXCEPT ![q] = new]
    PROVE  /\ image' \in [Profile -> Resource]
           /\ \A p \in Profile : image'[p].desired # None => image'[p].desired.value \in Image
BY DEF IInv, TypeOK, ValuesOfTheirResource

\* Evidence of the rate of one profile, replaced.
LEMMA NewRateEvidence ==
    ASSUME IInv, NEW q \in Profile, NEW new \in Resource,
           new.desired # None => new.desired.value \in Rate,
           rate' = [rate EXCEPT ![q] = new]
    PROVE  /\ rate' \in [Profile -> Resource] /\ rate'[q] = new
           /\ \A p \in Profile \ {q} : rate'[p] = rate[p]
           /\ \A p \in Profile : rate'[p].desired # None => rate'[p].desired.value \in Rate
BY DEF IInv, TypeOK, ValuesOfTheirResource

\* The evidence of the metadata stays evidence.
LEMMA NewMeta ==
    ASSUME IInv, NEW q \in Profile
    PROVE  /\ ReconcileObservation(meta, q, 0) \in Resource
           /\ RecordReadbackWrite(meta, q, q, 0) \in Resource
           /\ RecordAckWrite(meta, q, 0) \in Resource
BY Reconcile, ReadbackWrite, AckWrite DEF IInv, TypeOK, Values

LEMMA ReadLiveProfileStep ==
    ASSUME IInv, NEW q \in Profile, ReadLiveProfile(q)
    PROVE  IInv'
<1>0. /\ op = Idle /\ op' = op /\ live' = slot[q] /\ alias' = q
      /\ UNCHANGED <<slot, current, moved>> /\ stale' = stale \ {q}
      /\ meta' = ReconcileObservation(meta, current, 0)
  BY DEF ReadLiveProfile, Start, Load
<1> DEFINE i == ReconcileObservation(image[q], slot[q].image, 0)
           r == ReconcileObservation(rate[q], slot[q].rate, 0)
<1>1. image' = [image EXCEPT ![q] = i] /\ rate' = [rate EXCEPT ![q] = r]
  BY DEF ReadLiveProfile
<1>2. i \in Resource /\ (i.desired # None => i.desired.value \in Image)
  BY OfProfile, Reconcile DEF Values
<1>3. /\ r \in Resource /\ (r.desired # None => r.desired.value \in Rate)
      /\ r.desired.application \in {"Acknowledged", "ReadbackVerified"}
            => r.desired.value = slot[q].rate
  BY OfProfile, Reconcile DEF Values
<1> HIDE DEF i, r
<1>4. meta' \in Resource /\ live' \in Record
  BY <1>0, OfProfile, NewMeta DEF IInv, TypeOK
<1>5. TypeOK'
  BY <1>0, <1>1, <1>2, <1>3, <1>4, NewImageEvidence, NewRateEvidence DEF IInv, TypeOK
<1>6. ValuesOfTheirResource'
  BY <1>1, <1>2, <1>3, NewImageEvidence, NewRateEvidence DEF ValuesOfTheirResource
<1>7. RateEvidenceIsOfItsProfile'
  <2>1. rate'[q] = r /\ \A p \in Profile \ {q} : rate'[p] = rate[p]
    BY <1>1, <1>3, NewRateEvidence
  <2>2. \A p \in Profile \ stale' : p = q \/ p \in Profile \ stale
    BY <1>0
  <2> QED BY <1>0, <1>3, <2>1, <2>2 DEF IInv, RateEvidenceIsOfItsProfile
<1> QED BY <1>0, <1>5, <1>6, <1>7, WhileIdle DEF IInv

LEMMA WriteImageStep ==
    ASSUME IInv, NEW q \in Profile, NEW i \in Image, NEW readback \in BOOLEAN,
           WriteImage(q, i, readback)
    PROVE  IInv'
<1> DEFINE rec == [slot[q] EXCEPT !.image = i]
           new == IF readback THEN RecordReadbackWrite(image[q], i, i, 0)
                  ELSE RecordAckWrite(image[q], i, 0)
<1>0. /\ op = Idle /\ op' = op /\ Save(q, rec)
      /\ UNCHANGED <<current, rate, meta, moved, stale>>
      /\ image' = [image EXCEPT ![q] = new]
  BY DEF WriteImage, Start
<1>1. rec \in Record /\ rec.rate = slot[q].rate
  BY OfProfile DEF Record
<1>2. new \in Resource /\ (new.desired # None => new.desired.value \in Image)
  <2>1. i \in Values /\ image[q] \in Resource
    BY OfProfile DEF Values
  <2>2. CASE readback
    BY <2>1, <2>2, ReadbackWrite
  <2>3. CASE ~readback
    BY <2>1, <2>3, AckWrite
  <2> QED BY <2>2, <2>3
<1> HIDE DEF rec, new
<1>3. /\ live' = rec /\ alias' = q /\ slot' \in [Profile -> Record]
      /\ slot'[q] = rec /\ \A p \in Profile \ {q} : slot'[p] = slot[p]
  BY <1>0, <1>1, SaveResult DEF IInv
<1>4. TypeOK'
  BY <1>0, <1>1, <1>2, <1>3, NewImageEvidence DEF IInv, TypeOK
<1>5. ValuesOfTheirResource'
  BY <1>0, <1>2, NewImageEvidence DEF IInv, ValuesOfTheirResource
<1>6. \A p \in Profile : slot'[p].rate = slot[p].rate
  BY <1>1, <1>3
<1>7. RateEvidenceIsOfItsProfile'
  BY <1>0, <1>6 DEF IInv, RateEvidenceIsOfItsProfile
<1> QED BY <1>0, <1>4, <1>5, <1>7, WhileIdle DEF IInv

LEMMA ImportImageStep ==
    ASSUME IInv, NEW q \in Profile, NEW i \in Image, ImportImage(q, i)
    PROVE  IInv'
<1> DEFINE new == SetImported(image[q], i, 0)
<1>0. /\ op = Idle /\ op' = op /\ image' = [image EXCEPT ![q] = new]
      /\ UNCHANGED <<slot, live, alias, current, rate, meta, moved, stale>>
  BY DEF ImportImage, Start, mouse
<1>1. new \in Resource /\ (new.desired # None => new.desired.value \in Image)
  BY OfProfile, Import DEF Values
<1> HIDE DEF new
<1>2. TypeOK'
  BY <1>0, <1>1, NewImageEvidence DEF IInv, TypeOK
<1>3. ValuesOfTheirResource'
  BY <1>0, <1>1, NewImageEvidence DEF IInv, ValuesOfTheirResource
<1>4. RateEvidenceIsOfItsProfile'
  BY <1>0 DEF IInv, RateEvidenceIsOfItsProfile
<1> QED BY <1>0, <1>2, <1>3, <1>4, WhileIdle DEF IInv

LEMMA ActivateProfileStep ==
    ASSUME IInv, NEW q \in Profile, NEW usb \in BOOLEAN, ActivateProfile(q, usb)
    PROVE  IInv'
<1>0. /\ op = Idle /\ op' = op /\ current' = q
      /\ UNCHANGED <<slot, image, rate, moved, stale>>
      /\ meta' = IF usb THEN RecordReadbackWrite(meta, q, q, 0) ELSE RecordAckWrite(meta, q, 0)
  BY DEF ActivateProfile, Start
<1>1. \/ live' = slot[q] /\ alias' = q
      \/ UNCHANGED <<live, alias>>
  BY DEF ActivateProfile, Load
<1>2. meta' \in Resource
  BY <1>0, NewMeta
<1>3. TypeOK'
  BY <1>0, <1>1, <1>2, OfProfile DEF IInv, TypeOK
<1>4. ValuesOfTheirResource' /\ RateEvidenceIsOfItsProfile'
  BY <1>0 DEF IInv, ValuesOfTheirResource, RateEvidenceIsOfItsProfile
<1> QED BY <1>0, <1>3, <1>4, WhileIdle DEF IInv

LEMMA UnverifiedBleRateStep ==
    ASSUME IInv, NEW q \in Profile, NEW r \in Rate, UnverifiedBleRate(q, r)
    PROVE  IInv'
<1> DEFINE rec == [live EXCEPT !.rate = r]
           new == RecordAckWrite(rate[q], r, 0)
<1>0. /\ op = Idle /\ op' = op /\ Save(q, rec)
      /\ UNCHANGED <<current, image, meta, moved>> /\ stale' = stale \ {q}
      /\ rate' = [rate EXCEPT ![q] = new]
  BY DEF UnverifiedBleRate, Start
<1>1. rec \in Record /\ rec.rate = r
  BY DEF IInv, TypeOK, Record
<1>2. new \in Resource /\ new.desired.value = r
  BY OfProfile, AckWrite DEF Values
<1> HIDE DEF rec, new
<1>3. /\ live' = rec /\ alias' = q /\ slot' \in [Profile -> Record]
      /\ slot'[q] = rec /\ \A p \in Profile \ {q} : slot'[p] = slot[p]
  BY <1>0, <1>1, SaveResult DEF IInv
<1>4. /\ rate' \in [Profile -> Resource] /\ rate'[q] = new
      /\ \A p \in Profile \ {q} : rate'[p] = rate[p]
      /\ \A p \in Profile : rate'[p].desired # None => rate'[p].desired.value \in Rate
  BY <1>0, <1>2, NewRateEvidence
<1>5. TypeOK'
  BY <1>0, <1>1, <1>3, <1>4 DEF IInv, TypeOK
<1>6. ValuesOfTheirResource'
  BY <1>0, <1>4 DEF IInv, ValuesOfTheirResource
<1>7. RateEvidenceIsOfItsProfile'
  <2>1. \A p \in Profile \ stale' : p = q \/ p \in (Profile \ stale) \ {q}
    BY <1>0
  <2> QED BY <1>1, <1>2, <1>3, <1>4, <2>1 DEF IInv, RateEvidenceIsOfItsProfile
<1> QED BY <1>0, <1>5, <1>6, <1>7, WhileIdle DEF IInv
-----------------------------------------------------------------------------
(* The user: a running operation owes nothing any more once it is moved. *)

LEMMA PromisesReleased ==
    ASSUME IInv, moved' = TRUE, op' = op, image' = image PROVE Promises'
BY DEF IInv, Promises

LEMMA TouchMouseStep ==
    ASSUME IInv, NEW i \in Image, TouchMouse(i)
    PROVE  IInv'
<1> DEFINE rec == [live EXCEPT !.image = i]
<1>0. /\ op' = op /\ moved' = TRUE /\ Save(alias, rec) /\ alias \in Profile
      /\ UNCHANGED <<current, image, rate, meta>> /\ stale' = stale \cup {alias}
  BY DEF TouchMouse, Touch, evidence, IInv, TypeOK
<1>1. rec \in Record
  BY DEF IInv, TypeOK, Record
<1> HIDE DEF rec
<1>2. /\ live' = rec /\ alias' = alias /\ slot' \in [Profile -> Record]
      /\ \A p \in Profile \ {alias} : slot'[p] = slot[p]
  BY <1>0, <1>1, SaveResult DEF IInv
<1>3. TypeOK'
  BY <1>0, <1>1, <1>2 DEF IInv, TypeOK
<1>4. ValuesOfTheirResource'
  BY <1>0 DEF IInv, ValuesOfTheirResource
<1>5. RateEvidenceIsOfItsProfile'
  BY <1>0, <1>2 DEF IInv, RateEvidenceIsOfItsProfile
<1> QED BY <1>0, <1>3, <1>4, <1>5, PromisesReleased DEF IInv

LEMMA SwitchProfileStep ==
    ASSUME IInv, NEW q \in Profile, SwitchProfile(q)
    PROVE  IInv'
<1>0. /\ op' = op /\ moved' = TRUE /\ current' = q /\ live' = slot[q] /\ alias' = q
      /\ UNCHANGED <<slot, image, rate, meta, stale>>
  BY DEF SwitchProfile, Touch, Load, evidence
<1>1. TypeOK'
  BY <1>0, OfProfile DEF IInv, TypeOK
<1>2. ValuesOfTheirResource' /\ RateEvidenceIsOfItsProfile'
  BY <1>0 DEF IInv, ValuesOfTheirResource, RateEvidenceIsOfItsProfile
<1> QED BY <1>0, <1>1, <1>2, PromisesReleased DEF IInv

-----------------------------------------------------------------------------
(* The invariant, and what follows from it. *)

LEMMA OperateStep == IInv /\ Operate => IInv'
<1> SUFFICES ASSUME IInv, Operate PROVE IInv'
  OBVIOUS
<1>1. ASSUME NEW q \in Profile, NEW r \in Rate, NEW kind \in Ways, NEW readback \in BOOLEAN,
             BeginRateWrite(q, r, kind, readback)
      PROVE  IInv'
  <2> DEFINE i == image[q].desired.value
  <2>1. /\ op' = [pc |-> "load", kind |-> kind, target |-> q, want |-> r,
                  intent |-> i, got |-> None, readback |-> readback]
        /\ image[q].desired # None /\ UNCHANGED <<mouse, image, rate, meta, moved, stale>>
    BY <1>1 DEF BeginRateWrite, evidence
  <2>2. i \in Image /\ meta' \in Resource
    BY <2>1, OfProfile DEF IInv, TypeOK
  <2>3. /\ kind \in Ways \cup {"read"} /\ r \in {None} \cup Rate /\ i \in {None} \cup Image
        /\ i = image[q].desired.value
    BY <2>2
  <2> HIDE DEF i
  <2> QED BY <2>1, <2>2, <2>3, BeginStep
<1>2. ASSUME NEW q \in Profile, BeginRateRead(q)
      PROVE  IInv'
  <2>1. /\ op' = [pc |-> "load", kind |-> "read", target |-> q, want |-> None,
                  intent |-> None, got |-> None, readback |-> FALSE]
        /\ UNCHANGED <<mouse, image, rate, meta, moved, stale>>
    BY <1>2 DEF BeginRateRead, evidence
  <2>2. meta' \in Resource
    BY <2>1 DEF IInv, TypeOK
  <2> QED BY <2>1, <2>2, BeginStep
<1>3. CASE BeginStatus
  <2>1. /\ op' = [pc |-> "load", kind |-> "read", target |-> current, want |-> None,
                  intent |-> None, got |-> None, readback |-> FALSE]
        /\ UNCHANGED <<mouse, image, rate, moved, stale>>
        /\ meta' = ReconcileObservation(meta, current, 0)
    BY <1>3 DEF BeginStatus
  <2>2. current \in Profile
    BY DEF IInv, TypeOK
  <2>3. meta' \in Resource
    BY <2>1, <2>2, NewMeta
  <2> QED BY <2>1, <2>2, <2>3, BeginStep
<1> QED
  BY <1>1, <1>2, <1>3, ReadLiveProfileStep, WriteImageStep, ImportImageStep,
     ActivateProfileStep, UnverifiedBleRateStep DEF Operate

LEMMA StepInvariant == IInv /\ [Next]_vars => IInv'
<1> SUFFICES ASSUME IInv, [Next]_vars PROVE IInv'
  OBVIOUS
<1>1. CASE UNCHANGED vars
  <2>1. UNCHANGED <<slot, live, alias, current, image, rate, meta, op, moved, stale>>
    BY <1>1 DEF vars, mouse, evidence
  <2> QED
    BY <2>1 DEF IInv, TypeOK, ValuesOfTheirResource, RateEvidenceIsOfItsProfile, Promises
<1>2. CASE Next
  BY <1>2, OperateStep, ReadTargetStep, ReadLiveRateStep, WriteRateStep, CommitRateStep,
     FailStep, TouchMouseStep, SwitchProfileStep DEF Next
<1> QED BY <1>1, <1>2

LEMMA Invariance == Spec => []IInv
BY InitInvariant, StepInvariant, PTL DEF Spec

\* The model's variables keep their types.
THEOREM PollingRateTypes == Spec => []TypeOK
<1>1. IInv => TypeOK
  BY DEF IInv
<1> QED BY <1>1, Invariance, PTL

\* Applied rate evidence of a profile names the rate in that profile's own
\* slot, whatever was live when it was read or written (read_polling_rate,
\* update_polling_rate, apply_profile_update, read_status).
THEOREM RateEvidence == Spec => []RateEvidenceIsOfItsProfile
<1>1. IInv => RateEvidenceIsOfItsProfile
  BY DEF IInv
<1> QED BY <1>1, Invariance, PTL

\* A rate write saves the intended image into the slot of its target and into
\* no other, although report 0x06 saves whatever image is live.
LEMMA IntendedStep ==
    ASSUME IInv, WriteRate, ~moved
    PROVE  /\ slot'[op.target].image = image[op.target].desired.value
           /\ \A q \in Profile \ {op.target} : slot'[q] = slot[q]
           /\ op.kind = "composite" => current = op.target
<1>1. /\ op # Idle /\ op.pc = "write" /\ op.kind \in {"update", "composite"}
      /\ slot'[op.target] = live' /\ live'.image = live.image
      /\ \A q \in Profile \ {op.target} : slot'[q] = slot[q]
  BY WriteFacts
<1>2. /\ live.image = op.intent /\ op.intent = image[op.target].desired.value
      /\ op.kind = "composite" => current = op.target
  BY <1>1 DEF IInv, Promises
<1> QED BY <1>1, <1>2

THEOREM RateWrites == Spec => RateWriteSavesIntendedImage
<1> DEFINE Intended ==
        WriteRate /\ ~moved =>
          /\ slot'[op.target].image = image[op.target].desired.value
          /\ \A q \in Profile \ {op.target} : slot'[q] = slot[q]
          /\ op.kind = "composite" => current = op.target
<1>1. IInv /\ [Next]_vars => [Intended]_vars
  BY IntendedStep
<1> HIDE DEF Intended
<1>2. Spec => [][Intended]_vars
  BY Invariance, <1>1, PTL DEF Spec
<1> QED BY <1>2 DEF RateWriteSavesIntendedImage, Intended
-----------------------------------------------------------------------------

\* Every debounce the user may ask for has its own wire byte, which decodes to
\* it again (DebounceMs::raw and from_raw are inverse).
THEOREM DebounceRoundTrip ==
    \A ms \in 4..50 : DebounceValid(ms) => DebounceFromRaw(DebounceRaw(ms)) = ms
BY DEF DebounceValid, DebounceFromRaw, DebounceRaw

\* A deep sleep of one to sixty minutes, written over any configuration byte,
\* decodes to itself, and the low nibble of that byte survives
\* (DeepSleepMinutes::configuration_with, deep_sleep_byte and from_raw).
THEOREM DeepSleepRoundTrip ==
    ASSUME NEW m \in 1..60, NEW c \in Byte
    PROVE  /\ ConfigurationWith(m, c) \in Byte
           /\ DeepSleepByte(m) \in Byte
           /\ ConfigurationWith(m, c) % 16 = c % 16
           /\ DeepSleepFrom(ConfigurationWith(m, c), DeepSleepByte(m)) = m
<1> DEFINE q == m \div 16
           r == m % 16
           l == c % 16
<1>1. q \in 0..3 /\ r \in 0..15 /\ l \in 0..15 /\ m = 16 * q + r
  BY DEF Byte
<1>2. /\ (16 * q + l) \div 16 = q
      /\ (16 * q + l) % 16 = l
      /\ (8 + 16 * r) \div 16 = r
      /\ (8 + 16 * r) % 16 = 8
  BY <1>1
<1>3. ConfigurationWith(m, c) = 16 * q + l /\ DeepSleepByte(m) = 8 + 16 * r
  BY DEF ConfigurationWith, DeepSleepByte
<1>4. ConfigurationWith(m, c) \in Byte /\ DeepSleepByte(m) \in Byte
  BY <1>1, <1>3 DEF Byte
<1>5. DeepSleepFrom(ConfigurationWith(m, c), DeepSleepByte(m)) = m
  BY <1>1, <1>2, <1>3 DEF DeepSleepFrom
<1> QED BY <1>2, <1>3, <1>4, <1>5

\* The bytes of a frame put together from two parts.
LEMMA Concatenation ==
    ASSUME NEW s \in Seq(Int), NEW t \in Seq(Int)
    PROVE  /\ s \o t \in Seq(Int) /\ Len(s \o t) = Len(s) + Len(t)
           /\ \A i \in 1..Len(s) : (s \o t)[i] = s[i]
           /\ \A i \in 1..Len(t) : (s \o t)[Len(s) + i] = t[i]
OBVIOUS

\* A rate readback the decoder accepts is, but for the declared length, the
\* very report the driver writes for that rate: no damaged byte, no other
\* profile and no other rate is ever read (PollingRateReport::decode).
THEOREM RateReadExactly ==
    ASSUME NEW p \in Seq(Byte), NEW transport \in Transport, NEW profile \in Profiles,
           NEW hz \in DOMAIN RateCode, None \notin DOMAIN RateCode,
           DecodeRate(p, transport, profile) = hz
    PROVE  /\ Len(p) = Len(EncodeRate(profile, hz))
           /\ \A i \in 1..Len(p) : i # 2 => p[i] = EncodeRate(profile, hz)[i]
<1> DEFINE codes == {r \in DOMAIN RateCode : RateCode[r] = At(p, 3)}
<1>1. /\ Len(p) = 9 /\ At(p, 0) = 6 /\ At(p, 2) = profile
      /\ codes # {} /\ IsComplement(At(p, 3), At(p, 4)) /\ ZeroFrom(p, 5)
      /\ hz = CHOOSE r \in codes : TRUE
  BY DEF DecodeRate, Layout
<1>2. hz \in codes
  BY <1>1
<1>3. p[4] = RateCode[hz] /\ p[5] = Complement(RateCode[hz])
  <2>1. At(p, 3) = p[4] /\ At(p, 4) = p[5]
    BY DEF At
  <2>2. RateCode[hz] = At(p, 3)
    BY <1>2
  <2>3. At(p, 3) + At(p, 4) = 255 /\ At(p, 3) \in Int /\ At(p, 4) \in Int
    <3>1. At(p, 3) \in Byte /\ At(p, 4) \in Byte /\ At(p, 3) + At(p, 4) = 255
      BY <1>1 DEF IsComplement
    <3>2. Byte \subseteq Int
      BY DEF Byte
    <3> QED BY <3>1, <3>2
  <2>4. p[4] + p[5] = 255 /\ p[4] \in Int /\ p[5] \in Int
    BY <2>1, <2>3
  <2>5. p[5] = 255 - p[4]
    BY <2>4
  <2> QED BY <2>1, <2>2, <2>5 DEF Complement
<1>4. p[1] = 6 /\ p[3] = profile
  BY <1>1 DEF At
<1>5. p[6] = 0 /\ p[7] = 0 /\ p[8] = 0 /\ p[9] = 0
  <2>1. At(p, 5) = 0 /\ At(p, 6) = 0 /\ At(p, 7) = 0 /\ At(p, 8) = 0
    BY <1>1 DEF ZeroFrom
  <2> QED BY <2>1 DEF At
<1>6. /\ Zeros(4) \in Seq(Int) /\ Len(Zeros(4)) = 4
      /\ Zeros(4)[1] = 0 /\ Zeros(4)[2] = 0 /\ Zeros(4)[3] = 0 /\ Zeros(4)[4] = 0
  BY DEF Zeros
<1> DEFINE e == EncodeRate(profile, hz)
           c == RateCode[hz]
           h == <<6, 9, profile>>
           b == <<c, Complement(c)>>
           z == Zeros(4)
<1>7. /\ Len(e) = 9 /\ e[1] = 6 /\ e[3] = profile
      /\ e[4] = c /\ e[5] = Complement(c)
      /\ e[6] = 0 /\ e[7] = 0 /\ e[8] = 0 /\ e[9] = 0
  <2>1. c \in Int /\ Complement(c) \in Int /\ profile \in Int
    BY DEF RateCode, Complement, Profiles
  <2>2. h \in Seq(Int) /\ Len(h) = 3 /\ h[1] = 6 /\ h[3] = profile
    BY <2>1
  <2>3. b \in Seq(Int) /\ Len(b) = 2 /\ b[1] = c /\ b[2] = Complement(c)
    BY <2>1
  <2>4. e = h \o b \o z
    BY DEF EncodeRate, Header, Layout
  <2> HIDE DEF e, h, b, z, c
  <2>5. z \in Seq(Int) /\ Len(z) = 4 /\ z[1] = 0 /\ z[2] = 0 /\ z[3] = 0 /\ z[4] = 0
    BY <1>6 DEF z
  <2> DEFINE f == h \o b
  <2>6. /\ f \in Seq(Int) /\ Len(f) = 5
        /\ f[1] = h[1] /\ f[3] = h[3] /\ f[3 + 1] = b[1] /\ f[3 + 2] = b[2]
    <3> HIDE DEF f
    <3>1. /\ f \in Seq(Int) /\ Len(f) = Len(h) + Len(b)
          /\ \A i \in 1..Len(h) : f[i] = h[i]
          /\ \A i \in 1..Len(b) : f[Len(h) + i] = b[i]
      BY <2>2, <2>3, Concatenation DEF f
    <3> QED BY <2>2, <2>3, <3>1
  <2>7. e = f \o z
    BY <2>4
  <2> HIDE DEF f
  <2>8. /\ Len(e) = Len(f) + Len(z)
        /\ \A i \in 1..Len(f) : e[i] = f[i]
        /\ \A i \in 1..Len(z) : e[Len(f) + i] = z[i]
    BY <2>5, <2>6, <2>7, Concatenation
  <2>9. /\ Len(e) = 9 /\ e[1] = f[1] /\ e[3] = f[3] /\ e[4] = f[4] /\ e[5] = f[5]
        /\ e[5 + 1] = 0 /\ e[5 + 2] = 0 /\ e[5 + 3] = 0 /\ e[5 + 4] = 0
    BY <2>5, <2>6, <2>8
  <2>10. f[1] = 6 /\ f[3] = profile /\ f[4] = c /\ f[5] = Complement(c)
    BY <2>2, <2>3, <2>6
  <2> QED BY <2>9, <2>10
<1> HIDE DEF e
<1>8. \A i \in 1..9 : i = 1 \/ i = 2 \/ i = 3 \/ i = 4 \/ i = 5 \/ i = 6 \/ i = 7 \/ i = 8 \/ i = 9
  OBVIOUS
<1>9. Len(p) = Len(e) /\ \A i \in 1..Len(p) : i # 2 => p[i] = e[i]
  BY <1>1, <1>3, <1>4, <1>5, <1>7, <1>8
<1> QED BY <1>9 DEF e
=============================================================================
