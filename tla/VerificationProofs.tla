--------------------------- MODULE VerificationProofs ---------------------------
(***************************************************************************)
(* Proofs of the safety properties of Verification for any number of       *)
(* profiles, any records and ports, any number of operations and events.   *)
(***************************************************************************)
EXTENDS Verification, WellFoundedInduction, TLAPS

Waits == {"gone", "back", "reopen"}
Writes == {"away", "expand", "activate", "restore"}

\* Which steps belong to which operation, and what it has by then.
Stages ==
    op # Idle =>
        /\ op.kind # "power" => op.pc \notin Waits /\ op.session # "other"
        /\ op.kind = "power" => op.pc \notin Writes
        /\ op.kind = "refresh" => op.pc # "away"
        /\ op.kind = "reload" =>
              /\ op.pc # "expand"
              /\ op.target <= op.original.maximum /\ Alternate(op.original, op.target) # {}
              /\ op.first = None => op.pc \in {"image", "rate"}
        /\ op.pc = "rate" => op.seen \in Partial
        /\ op.pc \in Waits => op.first # None /\ op.session = None
        /\ op.first = None => op.session # "other"
        /\ op.failed => op.pc = "restore"
        /\ op.session # None => at[op.session] = locator
        /\ op.pc \in {"restore", "commit"} /\ ~op.failed => op.caught[op.target] # None
        /\ op.kind # "refresh" =>
              /\ op.pc = "commit" => op.first # None
              /\ \A q \in Profile : op.caught[q] # None =>
                    q = op.target /\ op.pc \in {"restore", "commit"} /\ ~op.failed

\* What a check or refresh leaves of the metadata.
Restoration ==
    op # Idle /\ op.kind # "power" /\ ~op.moved =>
        /\ op.kind = "reload" /\ op.first = None => meta = op.original
        /\ op.kind = "reload" /\ op.pc = "activate" => meta.current # op.target
        /\ op.pc = "commit" => meta = op.original

\* The working record is the saved one once the check has reloaded the profile.
Reloaded ==
    \/ /\ op.kind = "reload"
       /\ \/ op.pc \in {"image", "rate"} /\ op.first # None
          \/ op.pc \in {"restore", "commit"} /\ ~op.failed
    \/ /\ op.kind = "power" /\ op.first # None
       /\ op.pc = "gone" => at["own"] # locator

Reread ==
    op # Idle /\ ~op.moved =>
        /\ ~op.raced /\ Reloaded => ~unsaved
        /\ op.pc = "rate" /\ op.session = "own" => alias = op.target /\ op.seen.image = live.image
        /\ ~op.raced => op.session # "other"
        /\ ~op.raced /\ op.kind # "refresh" /\ op.caught[op.target] # None =>
              op.caught[op.target] = flash[op.target]

\* A claim is about the working record too, and what is not to be saved is saved.
Loaded ==
    /\ ~unsaved => live = flash[alias]
    /\ alias \notin excused /\ Claims(evidence[alias]) => live = flash[alias]

IInv == TypeOK /\ Stages /\ Restoration /\ Reread /\ Loaded /\ ClaimsAreSaved

-----------------------------------------------------------------------------
(* What the mutators of a profile's evidence return. *)

LEMMA WantedType ==
    ASSUME NEW v \in Record, NEW src \in Source, NEW app \in Application
    PROVE  Wanted(v, src, app, 0) \in Desired
BY DEF Wanted, Desired

LEMMA SeenType ==
    ASSUME NEW v \in Record
    PROVE  Seen(v, 0) \in Observed
BY DEF Seen, Observed

\* A write leaves no claim.
LEMMA WriteEvidence ==
    ASSUME NEW rs \in Resource, NEW v \in Record
    PROVE  /\ RecordAckWrite(rs, v, 0) \in Resource /\ ~Claims(RecordAckWrite(rs, v, 0))
           /\ RecordReadbackWrite(rs, v, v, 0) \in Resource
           /\ ~Claims(RecordReadbackWrite(rs, v, v, 0))
<1>1. /\ RecordAckWrite(rs, v, 0) \in Resource /\ ~Claims(RecordAckWrite(rs, v, 0))
  <2> DEFINE d == Wanted(v, "UserWrite", "Acknowledged", 0)
  <2>1. d \in Desired /\ d.persistence = Unknown
    BY WantedType DEF Source, Application, Wanted
  <2>2. RecordAckWrite(rs, v, 0) = [rs EXCEPT !.desired = d]
    BY DEF RecordAckWrite
  <2> HIDE DEF d
  <2>3. rs = [desired |-> rs.desired, observed |-> rs.observed]
        /\ rs.observed \in {None} \cup Observed
    BY DEF Resource
  <2>4. RecordAckWrite(rs, v, 0) = [desired |-> d, observed |-> rs.observed]
    BY <2>2, <2>3
  <2> QED BY <2>1, <2>3, <2>4 DEF Resource, Claims
<1>2. /\ RecordReadbackWrite(rs, v, v, 0) \in Resource
      /\ ~Claims(RecordReadbackWrite(rs, v, v, 0))
  <2> DEFINE d == Wanted(v, "UserWrite", "ReadbackVerified", 0)
  <2>1. d \in Desired /\ d.persistence = Unknown
    BY WantedType DEF Source, Application, Wanted
  <2>2. Seen(v, 0) \in Observed
    BY SeenType
  <2>3. RecordReadbackWrite(rs, v, v, 0) = [desired |-> d, observed |-> Seen(v, 0)]
    BY DEF RecordReadbackWrite
  <2> HIDE DEF d
  <2> QED BY <2>1, <2>2, <2>3 DEF Resource, Claims
<1> QED BY <1>1, <1>2

\* A read leaves no claim either, and it is what was observed.
LEMMA ReconcileEvidence ==
    ASSUME NEW rs \in Resource, NEW o \in Record
    PROVE  /\ ReconcileObservation(rs, o, 0) \in Resource
           /\ ~Claims(ReconcileObservation(rs, o, 0))
           /\ ReconcileObservation(rs, o, 0).observed.value = o
<1> DEFINE new == ReconcileObservation(rs, o, 0)
<1>1. Seen(o, 0) \in Observed /\ Seen(o, 0).value = o
  BY SeenType DEF Seen
<1>2. CASE rs.desired = None
  <2> DEFINE d == Wanted(o, "CapturedBaseline", "ReadbackVerified", 0)
  <2>1. d \in Desired /\ d.persistence = Unknown
    BY WantedType DEF Source, Application, Wanted
  <2>2. new = [desired |-> d, observed |-> Seen(o, 0)]
    BY <1>2 DEF ReconcileObservation
  <2> HIDE DEF d, new
  <2>3. new \in Resource /\ ~Claims(new) /\ new.observed.value = o
    BY <1>1, <2>1, <2>2 DEF Resource, Claims
  <2> QED BY <2>3 DEF new
<1>3. CASE rs.desired # None
  <2> DEFINE app == IF rs.desired.value = o /\ 0 >= rs.desired.updated_at
                    THEN "ReadbackVerified" ELSE "Mismatch"
             d == [rs.desired EXCEPT !.application = app, !.persistence = Unknown]
  <2>1. rs.desired \in Desired
    BY <1>3 DEF Resource
  <2>2. app \in Application
    BY DEF Application
  <2>3. new = [desired |-> d, observed |-> Seen(o, 0)]
    BY <1>3 DEF ReconcileObservation
  <2>4. d \in Desired /\ d.persistence = Unknown
    <3> HIDE DEF app
    <3> QED BY <2>1, <2>2 DEF Desired
  <2> HIDE DEF app, d, new
  <2>5. new \in Resource /\ ~Claims(new) /\ new.observed.value = o
    BY <1>1, <2>3, <2>4 DEF Resource, Claims
  <2> QED BY <2>5 DEF new
<1> QED BY <1>2, <1>3

\* A claim is only attached to the value that has just been read.
LEMMA MarkEvidence ==
    ASSUME NEW rs \in Resource, NEW o \in Record, rs.observed.value = o, ~Claims(rs),
           NEW kind \in ClaimKind
    PROVE  /\ MarkOrInvalidate(rs, kind, 0) \in Resource
           /\ Claims(MarkOrInvalidate(rs, kind, 0))
                 => MarkOrInvalidate(rs, kind, 0).desired.value = o
<1> DEFINE new == MarkOrInvalidate(rs, kind, 0)
<1>0. rs = [desired |-> rs.desired, observed |-> rs.observed]
      /\ rs.observed \in {None} \cup Observed
  BY DEF Resource
<1>1. CASE Markable(rs, 0)
  <2> DEFINE p == [kind |-> kind, verified_at |-> 0]
             d == [rs.desired EXCEPT !.persistence = p]
  <2>1. rs.desired # None /\ rs.desired.value = o
    BY <1>1 DEF Markable, Agrees
  <2>2. rs.desired \in Desired
    BY <2>1 DEF Resource
  <2>3. p \in Claim
    BY DEF Claim
  <2>4. new = [rs EXCEPT !.desired.persistence = p]
    BY <1>1 DEF MarkOrInvalidate
  <2> HIDE DEF p
  <2>5. d \in Desired /\ d.value = o
    BY <2>1, <2>2, <2>3 DEF Desired
  <2>6. new = [desired |-> d, observed |-> rs.observed]
    BY <1>0, <2>4
  <2> HIDE DEF d, new
  <2>7. new \in Resource /\ new.desired.value = o
    BY <1>0, <2>5, <2>6 DEF Resource
  <2> QED BY <2>7 DEF new
<1>2. CASE ~Markable(rs, 0)
  <2>1. new = IF rs.desired = None THEN rs ELSE [rs EXCEPT !.desired.persistence = Unknown]
    BY <1>2 DEF MarkOrInvalidate, InvalidatePersistence
  <2>2. CASE rs.desired = None
    BY <2>1, <2>2
  <2>3. CASE rs.desired # None
    <3> DEFINE d == [rs.desired EXCEPT !.persistence = Unknown]
    <3>1. d \in Desired /\ d.persistence = Unknown
      BY <2>3 DEF Resource, Desired
    <3>2. new = [desired |-> d, observed |-> rs.observed]
      BY <1>0, <2>1, <2>3
    <3> HIDE DEF d, new
    <3>3. new \in Resource /\ ~Claims(new)
      BY <1>0, <3>1, <3>2 DEF Resource, Claims
    <3> QED BY <3>3 DEF new
  <2> QED BY <2>2, <2>3
<1> QED BY <1>1, <1>2

-----------------------------------------------------------------------------
(* The firmware. *)

\* A load writes nothing that a claim is about, and saves nothing new unless a
\* save was due.
LEMMA SettledResult ==
    ASSUME IInv, NEW f \in Settled
    PROVE  /\ f \in [Profile -> Record]
           /\ ~unsaved => f = flash
           /\ \A p \in Profile \ excused : Claims(evidence[p]) => f[p] = flash[p]
<1>1. f = flash \/ (unsaved /\ f = [flash EXCEPT ![alias] = live])
  BY DEF Settled
<1>2. flash \in [Profile -> Record] /\ alias \in Profile /\ live \in Record
  BY DEF IInv, TypeOK
<1>3. alias \notin excused /\ Claims(evidence[alias]) => live = flash[alias]
  BY DEF IInv, Loaded
<1> QED BY <1>1, <1>2, <1>3

LEMMA LoadResult ==
    ASSUME IInv, NEW q \in Profile, Load(q)
    PROVE  /\ flash' \in [Profile -> Record] /\ live' \in Record /\ alias' = q
           /\ ~unsaved' /\ unsaved' \in BOOLEAN /\ live' = flash'[q]
           /\ ~unsaved => flash' = flash
           /\ \A p \in Profile \ excused : Claims(evidence[p]) => flash'[p] = flash[p]
<1>1. flash' \in Settled /\ live' = flash'[q] /\ alias' = q /\ unsaved' = FALSE
  BY DEF Load
<1> QED BY <1>1, SettledResult

\* Loading, or not: the claims stay true of the flash and the working record.
Preserved ==
    /\ flash' \in [Profile -> Record] /\ live' \in Record /\ alias' \in Profile
    /\ unsaved' \in BOOLEAN
    /\ ~unsaved => ~unsaved' /\ flash' = flash
    /\ ~unsaved' => live' = flash'[alias']
    /\ \A p \in Profile \ excused : Claims(evidence[p]) => flash'[p] = flash[p]
    /\ alias' \notin excused /\ Claims(evidence[alias']) => live' = flash'[alias']

LEMMA LoadKeeps ==
    ASSUME IInv, NEW q \in Profile, Load(q)
    PROVE  Preserved
BY LoadResult DEF Preserved

LEMMA IdleKeeps ==
    ASSUME IInv, UNCHANGED <<flash, live, alias, unsaved>>
    PROVE  Preserved
BY DEF Preserved, IInv, TypeOK, Loaded

LEMMA KeptClaims ==
    ASSUME IInv, Preserved, evidence' = evidence, excused \subseteq excused'
    PROVE  Loaded' /\ ClaimsAreSaved'
BY DEF IInv, Preserved, Loaded, ClaimsAreSaved

\* The metadata that a write may leave behind, on its way or at its end.
LEMMA MetadataSteps ==
    ASSUME meta \in Metadata, NEW to \in Metadata, NEW m \in Steps(to)
    PROVE  m \in Metadata
<1>1. /\ meta = [current |-> meta.current, maximum |-> meta.maximum]
      /\ meta.current \in Profile /\ meta.maximum \in Profile /\ meta.current <= meta.maximum
      /\ to.current \in Profile /\ to.maximum \in Profile /\ to.current <= to.maximum
  BY DEF Metadata
<1> DEFINE high == IF to.maximum > meta.maximum THEN to.maximum ELSE meta.maximum
<1>2. high \in Profile /\ meta.current <= high /\ to.current <= high
  BY <1>1, MaxIdAssumption DEF Profile
<1>3. Raised(to) = [current |-> meta.current, maximum |-> high]
  BY <1>1 DEF Raised
<1> HIDE DEF high
<1>4. Raised(to) \in Metadata
  BY <1>1, <1>2, <1>3 DEF Metadata
<1>5. [Raised(to) EXCEPT !.current = to.current] = [current |-> to.current, maximum |-> high]
  BY <1>3
<1>6. [Raised(to) EXCEPT !.current = to.current] \in Metadata
  BY <1>1, <1>2, <1>5 DEF Metadata
<1> QED BY <1>4, <1>6 DEF Steps

LEMMA ReachKeeps ==
    ASSUME IInv, NEW m \in Metadata, Reach(m)
    PROVE  /\ Preserved /\ meta' = m
           /\ m.current # meta.current =>
                 alias' = m.current /\ ~unsaved' /\ live' = flash'[m.current]
<1>1. m.current \in Profile
  BY DEF Metadata
<1>2. CASE m.current # meta.current
  BY <1>1, <1>2, LoadKeeps, LoadResult DEF Reach
<1>3. CASE m.current = meta.current
  BY <1>3, IdleKeeps DEF Reach
<1> QED BY <1>2, <1>3
-----------------------------------------------------------------------------
(* The running operation. *)

LEMMA RunningFields ==
    ASSUME IInv, op # Idle
    PROVE  /\ op \in Running /\ op.target \in Profile /\ op.original \in Metadata
           /\ op.kind \in {"reload", "power", "refresh"}
           /\ op.first \in {None} \cup Record /\ op.seen \in {None} \cup Partial
           /\ op.caught \in [Profile -> {None} \cup Record]
           /\ op.session \in Mice \cup {None} /\ op.moved \in BOOLEAN /\ op.raced \in BOOLEAN
           /\ op.failed \in BOOLEAN /\ op.agrees \in BOOLEAN /\ op.expired \in BOOLEAN
BY DEF IInv, TypeOK, Running

LEMMA Ended ==
    ASSUME op' = Idle PROVE Stages' /\ Restoration' /\ Reread'
BY DEF Stages, Restoration, Reread

\* The parts of the invariant that are not about the operation, after a step
\* that leaves the evidence and the excuses alone.
LEMMA RestOfInvariant ==
    ASSUME IInv, Preserved, UNCHANGED <<evidence, excused>>, meta' \in Metadata,
           at' \in [Mice -> Port \cup {None}], locator' \in Port,
           op' \in {Idle} \cup Running,
           last' \in {None, "done", "mismatch", "failed", "unrestored", "died"},
           Stages', Restoration', Reread'
    PROVE  IInv'
<1>1. TypeOK'
  BY DEF IInv, TypeOK, Preserved
<1>2. Loaded' /\ ClaimsAreSaved'
  BY KeptClaims
<1> QED BY <1>1, <1>2 DEF IInv

\* An operation that fails ends, or goes on to put the metadata back.
LEMMA FailResult ==
    ASSUME IInv, op # Idle, Fail,
           op.pc \in {"image", "rate", "away", "expand", "activate"},
           UNCHANGED <<at, locator>>
    PROVE  /\ op' \in {Idle} \cup Running /\ last' \in {None, "failed"}
           /\ Stages' /\ Restoration' /\ Reread'
<1>0. op \in Running
  BY RunningFields
<1>1. CASE op.kind = "refresh" \/ (op.kind = "reload" /\ op.first # None)
  <2>1. op' = [op EXCEPT !.pc = "restore", !.failed = TRUE] /\ last' = None
    BY <1>1 DEF Fail, Go
  <2>2. /\ op' \in Running /\ op'.pc = "restore" /\ op'.failed = TRUE
        /\ op'.kind = op.kind /\ op'.target = op.target /\ op'.original = op.original
        /\ op'.first = op.first /\ op'.caught = op.caught /\ op'.session = op.session
        /\ op'.moved = op.moved /\ op'.raced = op.raced
    BY <1>0, <2>1 DEF Running
  <2>3. Stages'
    BY <1>1, <2>2 DEF IInv, Stages, Waits, Alternate
  <2>4. Restoration'
    BY <1>1, <2>2 DEF Restoration
  <2>5. Reread'
    <3>1. op.kind # "power" /\ op.session # "other"
      BY <1>1 DEF IInv, Stages
    <3>2. op.kind # "refresh" => op.caught[op.target] = None
      BY RunningFields DEF IInv, Stages
    <3> QED BY <1>1, <2>2, <3>1, <3>2 DEF Reread, Reloaded
  <2> QED BY <2>1, <2>2, <2>3, <2>4, <2>5
<1>2. CASE ~(op.kind = "refresh" \/ (op.kind = "reload" /\ op.first # None))
  <2>1. op' = Idle /\ last' = "failed"
    BY <1>2 DEF Fail, End
  <2> QED BY <2>1, Ended
<1> QED BY <1>1, <1>2

LEMMA InitInvariant == Init => IInv
<1> SUFFICES ASSUME Init PROVE IInv
  OBVIOUS
<1>1. /\ flash = Factory /\ meta \in Metadata /\ live = flash[meta.current]
      /\ alias = meta.current /\ unsaved = FALSE /\ locator = Home
      /\ at \in [Mice -> Port \cup {None}] /\ evidence = [q \in Profile |-> Empty]
      /\ op = Idle /\ last = None /\ excused = {}
  BY DEF Init
<1>2. meta.current \in Profile /\ Empty \in Resource /\ Empty.desired = None
  BY <1>1 DEF Metadata, Empty, Resource
<1>3. TypeOK
  BY <1>1, <1>2, HomeAssumption, RecordsAssumption DEF TypeOK
<1>4. Stages /\ Restoration /\ Reread
  BY <1>1 DEF Stages, Restoration, Reread
<1>5. Loaded /\ ClaimsAreSaved
  BY <1>1, <1>2 DEF Loaded, ClaimsAreSaved, Claims
<1> QED BY <1>3, <1>4, <1>5 DEF IInv

\* A check or a refresh begins.
LEMMA BeginResult ==
    ASSUME IInv, Begin, NEW o \in Running, Go(o),
           o.kind = "power" => o.pc = "image",
           o.kind = "reload" => /\ o.pc = "image" /\ o.target <= meta.maximum
                                /\ Alternate(meta, o.target) # {},
           o.pc \in {"image", "expand"}, o.original = meta, o.first = None,
           o.caught = Nothing, o.session = "own", o.failed = FALSE
    PROVE  IInv'
<1>1. /\ op' = o /\ last' = None /\ at["own"] = locator
      /\ UNCHANGED <<firmware, at, locator, evidence, excused>>
  BY DEF Begin, Go
<1>2. UNCHANGED <<flash, live, alias, unsaved, meta>> /\ o.target \in Profile
  BY <1>1 DEF firmware, Running
<1>3. Preserved
  BY <1>2, IdleKeeps
<1>4. \A q \in Profile : o.caught[q] = None
  BY DEF Nothing
<1>5. Stages'
  BY <1>1, <1>2, <1>4 DEF Stages, Waits, Writes, Alternate
<1>6. Restoration'
  BY <1>1, <1>2 DEF Restoration
<1>7. Reread'
  <2>1. ~Reloaded'
    BY <1>1 DEF Reloaded
  <2> QED BY <1>1, <1>2, <1>4, <2>1 DEF Reread
<1>8. meta \in Metadata /\ at \in [Mice -> Port \cup {None}] /\ locator \in Port
  BY DEF IInv, TypeOK
<1> QED BY <1>1, <1>2, <1>3, <1>5, <1>6, <1>7, <1>8, RestOfInvariant

LEMMA FreshRunning ==
    ASSUME IInv, NEW q \in Profile, NEW k \in {"reload", "power", "refresh"}
    PROVE  Fresh(k, q) \in Running
BY DEF Fresh, Running, IInv, TypeOK, Nothing, Mice

LEMMA BeginSteps ==
    ASSUME IInv,
           \/ BeginRefresh
           \/ \E q \in Profile : BeginReload(q) \/ BeginPowerCycle(q)
    PROVE  IInv'
<1>1. ASSUME NEW q \in Profile, BeginReload(q) PROVE IInv'
  <2>1. Fresh("reload", q) \in Running
    BY FreshRunning
  <2>2. /\ Begin /\ Go(Fresh("reload", q)) /\ q <= meta.maximum /\ Alternate(meta, q) # {}
    BY <1>1 DEF BeginReload
  <2> QED BY <2>1, <2>2, BeginResult DEF Fresh
<1>2. ASSUME NEW q \in Profile, BeginPowerCycle(q) PROVE IInv'
  <2>1. Fresh("power", q) \in Running /\ Begin /\ Go(Fresh("power", q))
    BY <1>2, FreshRunning DEF BeginPowerCycle
  <2> QED BY <2>1, BeginResult DEF Fresh
<1>3. CASE BeginRefresh
  <2> DEFINE f == Fresh("refresh", meta.current)
             p == IF meta.maximum # MaxId THEN "expand" ELSE "image"
             o == [f EXCEPT !.pc = p]
  <2>1. f \in Running
    BY FreshRunning DEF IInv, TypeOK, Metadata
  <2>2. p \in {"expand", "image"}
    OBVIOUS
  <2>3. Begin /\ Go(o)
    BY <1>3 DEF BeginRefresh
  <2>4. /\ f.kind = "refresh" /\ f.original = meta /\ f.first = None
        /\ f.caught = Nothing /\ f.session = "own" /\ f.failed = FALSE
    BY DEF Fresh
  <2> HIDE DEF f, p
  <2>5. /\ o \in Running /\ o.pc = p /\ o.kind = "refresh" /\ o.original = meta
        /\ o.first = None /\ o.caught = Nothing /\ o.session = "own" /\ o.failed = FALSE
    BY <2>1, <2>2, <2>4 DEF Running
  <2> HIDE DEF o
  <2> QED BY <2>2, <2>3, <2>5, BeginResult
<1> QED BY <1>1, <1>2, <1>3
-----------------------------------------------------------------------------
(* The reads of a check or a refresh. *)

LEMMA ReadImageStep == IInv /\ ReadImage => IInv'
<1> SUFFICES ASSUME IInv, ReadImage PROVE IInv'
  OBVIOUS
<1>0. /\ op # Idle /\ op.session # None /\ op.pc = "image"
      /\ UNCHANGED <<meta, at, locator, evidence, excused>>
  BY DEF ReadImage, Reads
<1>1. /\ op \in Running /\ op.target \in Profile /\ op.session \in Mice
      /\ op.kind \in {"reload", "power", "refresh"}
  BY <1>0, RunningFields
<1>2. /\ Preserved
      /\ op.session = "own" => alias' = op.target
  <2>1. CASE op.session = "own"
    <3>1. Target(op.target)
      BY <2>1 DEF ReadImage
    <3>2. \/ alias = op.target /\ UNCHANGED <<flash, live, alias, unsaved>>
          \/ Load(op.target)
      BY <3>1 DEF Target
    <3> QED BY <1>1, <3>2, LoadKeeps, LoadResult, IdleKeeps
  <2>2. CASE op.session # "own"
    BY <2>2, IdleKeeps DEF ReadImage
  <2> QED BY <2>1, <2>2
<1>3. meta' \in Metadata /\ at' \in [Mice -> Port \cup {None}] /\ locator' \in Port
  BY <1>0 DEF IInv, TypeOK
<1>4. CASE Expected
  <2>1. PICK i \in LiveImage, agrees \in SameMaximum :
             Go([op EXCEPT !.pc = "rate", !.seen = [image |-> i, rate |-> None],
                           !.agrees = agrees])
    BY <1>4 DEF ReadImage
  <2>2. /\ i \in Image /\ agrees \in BOOLEAN
        /\ op.session = "own" => i = live'.image
    BY <1>2 DEF LiveImage, SameMaximum, Preserved, Record
  <2> DEFINE seen == [image |-> i, rate |-> None]
  <2>3. seen \in Partial /\ seen.image = i
    BY <2>2 DEF Partial
  <2>4. op' = [op EXCEPT !.pc = "rate", !.seen = seen, !.agrees = agrees] /\ last' = None
    BY <2>1 DEF Go
  <2> HIDE DEF seen
  <2>5. /\ op' \in Running /\ op'.pc = "rate" /\ op'.seen = seen
        /\ op'.kind = op.kind /\ op'.target = op.target /\ op'.original = op.original
        /\ op'.first = op.first /\ op'.caught = op.caught /\ op'.session = op.session
        /\ op'.moved = op.moved /\ op'.raced = op.raced /\ op'.failed = op.failed
    BY <1>1, <2>2, <2>3, <2>4 DEF Running
  <2>6. Stages'
    BY <1>0, <1>1, <2>3, <2>5 DEF IInv, Stages, Waits, Writes, Alternate
  <2>7. Restoration'
    BY <1>0, <2>5 DEF IInv, Restoration
  <2>8. Reread'
    <3>1. Reloaded' => Reloaded
      BY <1>0, <2>5 DEF Reloaded
    <3>2. op.kind # "refresh" => op.caught[op.target] = None
      BY <1>0, <1>1 DEF IInv, Stages
    <3>3. ~unsaved => ~unsaved'
      BY <1>2 DEF Preserved
    <3>4. op.session = "own" => op'.seen.image = live'.image
      BY <2>2, <2>3, <2>5
    <3> QED BY <1>0, <1>2, <2>5, <3>1, <3>2, <3>3, <3>4 DEF IInv, Reread
  <2> QED BY <1>0, <1>2, <1>3, <2>4, <2>5, <2>6, <2>7, <2>8, RestOfInvariant
<1>5. CASE ~Expected
  <2>1. Fail
    BY <1>5 DEF ReadImage
  <2>2. /\ op' \in {Idle} \cup Running /\ last' \in {None, "failed"}
        /\ Stages' /\ Restoration' /\ Reread'
    BY <1>0, <2>1, FailResult
  <2> QED BY <1>0, <1>2, <1>3, <2>2, RestOfInvariant
<1> QED BY <1>4, <1>5

\* The walk of a refresh goes on with the smallest profile it has not visited.
LEMMA NextOfWalk ==
    ASSUME Rest # {}
    PROVE  NextInWalk \in Profile
<1> DEFINE R == {ss \in Nat \X Nat : ss[1] < ss[2]}
<1>1. IsWellFoundedOn(R, Nat)
  BY NatLessThanWellFounded DEF OpToRel
<1>2. \A x, y \in Nat : y < x => <<y, x>> \in R
  OBVIOUS
<1>3. Rest \subseteq Nat /\ Rest \subseteq Profile
  BY DEF Rest, Profile
<1> HIDE DEF R
<1>4. PICK x \in Rest : \A y \in Rest : <<y, x>> \notin R
  BY <1>1, <1>3, WFMin
<1>5. ASSUME NEW y \in Rest PROVE x <= y
  <2>1. x \in Nat /\ y \in Nat /\ ~(y < x)
    BY <1>2, <1>3, <1>4
  <2> QED BY <2>1
<1>6. NextInWalk \in Rest
  BY <1>5 DEF NextInWalk
<1> QED BY <1>3, <1>6

LEMMA ReadRateStep == IInv /\ ReadRate => IInv'
<1> SUFFICES ASSUME IInv, ReadRate PROVE IInv'
  OBVIOUS
<1>0. /\ op # Idle /\ op.session # None /\ op.pc = "rate"
      /\ UNCHANGED <<flash, live, alias, unsaved, meta, at, locator, evidence, excused>>
  BY DEF ReadRate, Reads, firmware
<1>1. /\ op \in Running /\ op.target \in Profile /\ op.session \in Mice
      /\ op.kind \in {"reload", "power", "refresh"} /\ op.original \in Metadata
      /\ op.caught \in [Profile -> {None} \cup Record] /\ op.first \in {None} \cup Record
      /\ op.moved \in BOOLEAN /\ op.raced \in BOOLEAN
  BY <1>0, RunningFields
<1>2. Preserved
  BY <1>0, IdleKeeps
<1>3. meta' \in Metadata /\ at' \in [Mice -> Port \cup {None}] /\ locator' \in Port
  BY <1>0 DEF IInv, TypeOK
<1>4. PICK r \in LiveRate : Go(AfterRead([image |-> op.seen.image, rate |-> r]))
  BY DEF ReadRate
<1> DEFINE rec == [image |-> op.seen.image, rate |-> r]
<1>5. op.seen \in Partial /\ op.seen.image \in Image
  BY <1>0 DEF IInv, Stages, Partial
<1>6. r \in Rate /\ (op.session = "own" => r = live.rate)
  BY DEF LiveRate, IInv, TypeOK, Record
<1>7. rec \in Record /\ rec # None
  BY <1>5, <1>6, AbsentAssumption DEF Record
\* What is read is what the flash holds, once the profile has been reloaded.
<1>8. ~op.moved /\ ~op.raced /\ Reloaded => rec = flash[op.target]
  <2> SUFFICES ASSUME ~op.moved, ~op.raced, Reloaded PROVE rec = flash[op.target]
    OBVIOUS
  <2>1. ~unsaved /\ op.session = "own"
    BY <1>0, <1>1 DEF IInv, Reread, Mice
  <2>2. alias = op.target /\ op.seen.image = live.image /\ live = flash[alias]
    BY <1>0, <2>1 DEF IInv, Reread, Loaded
  <2>3. live = [image |-> live.image, rate |-> live.rate]
    BY DEF IInv, TypeOK, Record
  <2> QED BY <1>6, <2>1, <2>2, <2>3
<1>9. op' = AfterRead(rec) /\ last' = None
  BY <1>4 DEF Go
<1> HIDE DEF rec
<1> DEFINE caught == [op.caught EXCEPT ![op.target] = rec]
<1>10. /\ caught \in [Profile -> {None} \cup Record] /\ caught[op.target] = rec
       /\ \A q \in Profile \ {op.target} : caught[q] = op.caught[q]
  BY <1>1, <1>7
<1> SUFFICES op' \in Running /\ Stages' /\ Restoration' /\ Reread'
  BY <1>0, <1>2, <1>3, <1>9, RestOfInvariant
<1>11. CASE op.kind = "refresh"
  <2>1. \/ /\ Rest # {}
           /\ op' = [op EXCEPT !.pc = "activate", !.caught[op.target] = rec, !.target = NextInWalk]
        \/ op' = [op EXCEPT !.pc = "restore", !.caught[op.target] = rec]
    BY <1>9, <1>11 DEF AfterRead
  <2>2. /\ op' \in Running /\ op'.pc \in {"activate", "restore"} /\ op'.kind = "refresh"
        /\ op'.session = op.session /\ op'.first = op.first /\ op'.moved = op.moved
        /\ op'.raced = op.raced /\ op'.failed = op.failed
        /\ op'.pc = "restore" => op'.caught[op'.target] = rec
    <3>1. CASE Rest # {} /\ op' = [op EXCEPT !.pc = "activate", !.caught[op.target] = rec,
                                             !.target = NextInWalk]
      <4>1. op' = [op EXCEPT !.pc = "activate", !.caught = caught, !.target = NextInWalk]
        BY <1>1, <3>1 DEF Running
      <4> HIDE DEF caught
      <4> QED BY <1>1, <1>10, <1>11, <3>1, <4>1, NextOfWalk DEF Running
    <3>2. CASE op' = [op EXCEPT !.pc = "restore", !.caught[op.target] = rec]
      <4>1. op' = [op EXCEPT !.pc = "restore", !.caught = caught]
        BY <1>1, <3>2 DEF Running
      <4> HIDE DEF caught
      <4> QED BY <1>1, <1>10, <1>11, <4>1 DEF Running
    <3> QED BY <2>1, <3>1, <3>2
  <2>3. op.session # "other" /\ at[op.session] = locator /\ ~op.failed
    BY <1>0, <1>11 DEF IInv, Stages
  <2>4. Stages'
    BY <1>0, <1>7, <2>2, <2>3 DEF Stages, Waits
  <2>5. Restoration'
    BY <2>2 DEF Restoration
  <2>6. Reread'
    BY <2>2, <2>3 DEF Reread, Reloaded
  <2> QED BY <2>2, <2>4, <2>5, <2>6
<1>12. CASE op.kind = "reload" /\ op.first = None
  <2>1. op' = [op EXCEPT !.pc = "away", !.first = rec]
    BY <1>9, <1>12 DEF AfterRead
  <2>2. /\ op' \in Running /\ op'.pc = "away" /\ op'.first = rec
        /\ op'.kind = op.kind /\ op'.target = op.target /\ op'.original = op.original
        /\ op'.caught = op.caught /\ op'.session = op.session
        /\ op'.moved = op.moved /\ op'.raced = op.raced /\ op'.failed = op.failed
    BY <1>1, <1>7, <2>1 DEF Running
  <2>3. Stages'
    <3>1. \A q \in Profile : op.caught[q] = None
      BY <1>0, <1>12 DEF IInv, Stages
    <3>2. op.session # "other" /\ ~op.failed /\ at[op.session] = locator
          /\ op.target <= op.original.maximum /\ Alternate(op.original, op.target) # {}
      BY <1>0, <1>1, <1>12 DEF IInv, Stages
    <3>3. Alternate(op.original, op.target)' = Alternate(op.original, op.target)
      BY <2>2 DEF Alternate
    <3> QED BY <1>0, <1>7, <1>12, <2>2, <3>1, <3>2, <3>3 DEF Stages, Waits
  <2>4. Restoration'
    BY <1>7, <1>12, <2>2 DEF Restoration
  <2>5. Reread'
    <3>1. ~Reloaded'
      BY <1>12, <2>2 DEF Reloaded
    <3> QED BY <1>0, <1>1, <1>12, <2>2, <3>1 DEF IInv, Stages, Reread
  <2> QED BY <2>2, <2>3, <2>4, <2>5
<1>13. CASE op.kind = "reload" /\ op.first # None
  <2>1. op' = [op EXCEPT !.pc = "restore", !.caught[op.target] = rec]
    BY <1>9, <1>13 DEF AfterRead
  <2>2. op' = [op EXCEPT !.pc = "restore", !.caught = caught]
    BY <1>1, <2>1 DEF Running
  <2> HIDE DEF caught
  <2>3. /\ op' \in Running /\ op'.pc = "restore" /\ op'.first = op.first
        /\ op'.kind = op.kind /\ op'.target = op.target /\ op'.original = op.original
        /\ op'.caught = caught /\ op'.session = op.session
        /\ op'.moved = op.moved /\ op'.raced = op.raced /\ op'.failed = op.failed
    BY <1>1, <1>10, <2>2 DEF Running
  <2>4. op.failed => FALSE
    BY <1>0, <1>13 DEF IInv, Stages
  <2>5. Stages'
    BY <1>0, <1>7, <1>10, <1>13, <2>3, <2>4 DEF IInv, Stages, Waits, Alternate
  <2>6. Restoration'
    BY <1>13, <2>3 DEF Restoration
  <2>7. Reread'
    <3>1. Reloaded
      BY <1>0, <1>13 DEF Reloaded
    <3> QED BY <1>0, <1>1, <1>8, <1>10, <2>3, <3>1 DEF IInv, Reread
  <2> QED BY <2>3, <2>5, <2>6, <2>7
<1>14. CASE op.kind = "power" /\ op.first = None
  <2>1. op' = [op EXCEPT !.pc = "gone", !.first = rec, !.seen = None, !.session = None]
    BY <1>9, <1>14 DEF AfterRead, Await
  <2>2. /\ op' \in Running /\ op'.pc = "gone" /\ op'.first = rec
        /\ op'.kind = op.kind /\ op'.target = op.target
        /\ op'.caught = op.caught /\ op'.session = None
        /\ op'.moved = op.moved /\ op'.raced = op.raced /\ op'.failed = op.failed
    BY <1>1, <1>7, <2>1 DEF Running
  <2>3. at["own"] = locator
    BY <1>0, <1>1, <1>14 DEF IInv, Stages, Mice
  <2>4. Stages'
    BY <1>0, <1>7, <1>14, <2>2 DEF IInv, Stages, Waits, Writes
  <2>5. Restoration'
    BY <1>14, <2>2 DEF Restoration
  <2>6. Reread'
    <3>1. ~Reloaded'
      BY <1>0, <1>14, <2>2, <2>3 DEF Reloaded
    <3> QED BY <1>0, <1>1, <1>14, <2>2, <3>1, AbsentAssumption DEF IInv, Stages, Reread, Mice
  <2> QED BY <2>2, <2>4, <2>5, <2>6
<1>15. CASE op.kind = "power" /\ op.first # None
  <2>1. op' = [op EXCEPT !.pc = "commit", !.caught[op.target] = rec]
    BY <1>9, <1>15 DEF AfterRead
  <2>2. op' = [op EXCEPT !.pc = "commit", !.caught = caught]
    BY <1>1, <2>1 DEF Running
  <2> HIDE DEF caught
  <2>3. /\ op' \in Running /\ op'.pc = "commit" /\ op'.first = op.first
        /\ op'.kind = op.kind /\ op'.target = op.target /\ op'.original = op.original
        /\ op'.caught = caught /\ op'.session = op.session
        /\ op'.moved = op.moved /\ op'.raced = op.raced /\ op'.failed = op.failed
    BY <1>1, <1>10, <2>2 DEF Running
  <2>4. Stages'
    BY <1>0, <1>7, <1>10, <1>15, <2>3 DEF IInv, Stages, Waits, Writes
  <2>5. Restoration'
    BY <1>15, <2>3 DEF Restoration
  <2>6. Reread'
    <3>1. Reloaded /\ Reloaded'
      BY <1>0, <1>15, <2>3 DEF Reloaded
    <3> QED BY <1>0, <1>1, <1>8, <1>10, <2>3, <3>1 DEF IInv, Reread
  <2> QED BY <2>3, <2>4, <2>5, <2>6
<1> QED BY <1>1, <1>11, <1>12, <1>13, <1>14, <1>15
-----------------------------------------------------------------------------
(* The metadata writes. *)

LEMMA WishType ==
    ASSUME IInv, op # Idle, op.pc \in Writes
    PROVE  /\ Wish \in Metadata
           /\ op.pc = "restore" => Wish = op.original
           /\ op.pc = "away" => Wish.current # op.target
           /\ op.pc = "activate" => Wish.current = op.target
<1>1. /\ op \in Running /\ op.target \in Profile /\ op.original \in Metadata
      /\ op.kind \in {"reload", "refresh"}
  BY RunningFields DEF IInv, Stages
<1>2. /\ op.original = [current |-> op.original.current, maximum |-> op.original.maximum]
      /\ op.original.current \in Profile /\ op.original.maximum \in Profile
      /\ op.original.current <= op.original.maximum
  BY <1>1 DEF Metadata
<1>3. MaxId \in Profile /\ \A q \in Profile : q <= MaxId
  BY MaxIdAssumption DEF Profile
<1>4. CASE op.pc = "away"
  <2>1. Alternate(op.original, op.target) # {}
    BY <1>1, <1>4 DEF IInv, Stages
  <2>2. \A away \in Alternate(op.original, op.target) :
            away \in 1..op.original.maximum /\ away # op.target
    BY <1>2 DEF Alternate, Profile
  <2> DEFINE away == CHOOSE a \in Alternate(op.original, op.target) : TRUE
  <2>3. away \in 1..op.original.maximum /\ away # op.target
    BY <2>1, <2>2
  <2>4. Wish = [current |-> away, maximum |-> op.original.maximum]
    BY <1>4 DEF Wish, AwayFrom
  <2> HIDE DEF away
  <2>5. away \in Profile /\ away <= op.original.maximum
    BY <1>2, <2>3, MaxIdAssumption DEF Profile
  <2> QED BY <1>2, <1>4, <2>3, <2>4, <2>5 DEF Metadata
<1>5. CASE op.pc = "expand"
  <2>1. Wish = [current |-> op.original.current, maximum |-> MaxId]
    BY <1>2, <1>5 DEF Wish
  <2> QED BY <1>2, <1>3, <1>5, <2>1 DEF Metadata
<1>6. CASE op.pc = "activate" /\ op.kind = "reload"
  <2>1. Wish = [current |-> op.target, maximum |-> op.original.maximum]
    BY <1>2, <1>6 DEF Wish
  <2>2. op.target <= op.original.maximum
    BY <1>6 DEF IInv, Stages
  <2> QED BY <1>1, <1>2, <1>6, <2>1, <2>2 DEF Metadata
<1>7. CASE op.pc = "activate" /\ op.kind = "refresh"
  <2>1. Wish = [current |-> op.target, maximum |-> MaxId]
    BY <1>7 DEF Wish
  <2> QED BY <1>1, <1>3, <1>7, <2>1 DEF Metadata
<1>8. CASE op.pc = "restore"
  BY <1>1, <1>8 DEF Wish
<1> QED BY <1>1, <1>4, <1>5, <1>6, <1>7, <1>8 DEF Writes

LEMMA WriteMetadataStep == IInv /\ WriteMetadata => IInv'
<1> SUFFICES ASSUME IInv, WriteMetadata PROVE IInv'
  OBVIOUS
<1>0. /\ op # Idle /\ op.session # None /\ op.pc \in Writes
      /\ UNCHANGED <<at, locator, evidence, excused>>
  BY DEF WriteMetadata, Reads, Writes
<1>1. /\ op \in Running /\ op.target \in Profile /\ op.original \in Metadata
      /\ op.session \in Mice /\ op.failed \in BOOLEAN
      /\ op.kind \in {"reload", "refresh"} /\ op.session # "other"
  BY <1>0, RunningFields DEF IInv, Stages
<1>2. PICK m \in Steps(Wish) :
        /\ Reach(m)
        /\ \/ /\ m = Wish
              /\ CASE op.pc = "away" -> Go([op EXCEPT !.pc = "activate"])
                   [] op.pc \in {"expand", "activate"} -> Go([op EXCEPT !.pc = "image"])
                   [] op.pc = "restore" /\ op.failed -> End("failed")
                   [] op.pc = "restore" /\ ~op.failed ->
                          Go([op EXCEPT !.pc = "commit"])
           \/ IF op.pc = "restore" THEN End("unrestored") ELSE Fail
  BY DEF WriteMetadata
<1>3. meta \in Metadata /\ Wish \in Metadata
  BY <1>0, WishType DEF IInv, TypeOK
<1>4. m \in Metadata
  BY <1>3, MetadataSteps
<1>5. /\ Preserved /\ meta' = m /\ meta' \in Metadata
      /\ m.current # meta.current => ~unsaved'
  BY <1>2, <1>4, ReachKeeps
<1>6. at' \in [Mice -> Port \cup {None}] /\ locator' \in Port
  BY <1>0 DEF IInv, TypeOK
<1> SUFFICES /\ op' \in {Idle} \cup Running
             /\ last' \in {None, "done", "mismatch", "failed", "unrestored", "died"}
             /\ Stages' /\ Restoration' /\ Reread'
  BY <1>0, <1>5, <1>6, RestOfInvariant
<1>7. CASE op.pc = "restore" /\ End("unrestored")
  BY <1>7, Ended DEF End
<1>8. CASE op.pc # "restore" /\ Fail
  <2>1. op.pc \in {"image", "rate", "away", "expand", "activate"}
    BY <1>0, <1>8 DEF Writes
  <2> QED BY <1>0, <1>8, <2>1, FailResult
<1>9. CASE m = Wish /\ op.pc = "away" /\ Go([op EXCEPT !.pc = "activate"])
  <2>1. /\ op' \in Running /\ op'.pc = "activate" /\ op'.kind = op.kind
        /\ op'.target = op.target /\ op'.original = op.original /\ op'.first = op.first
        /\ op'.caught = op.caught /\ op'.session = op.session /\ op'.failed = op.failed
        /\ op'.moved = op.moved /\ op'.raced = op.raced /\ last' = None
    BY <1>1, <1>9 DEF Go, Running
  <2>2. op.kind = "reload" /\ op.first # None /\ ~op.failed
        /\ \A q \in Profile : op.caught[q] = None
    BY <1>0, <1>1, <1>9 DEF IInv, Stages
  <2>3. Alternate(op.original, op.target)' = Alternate(op.original, op.target)
    BY <2>1 DEF Alternate
  <2>4. Stages'
    BY <1>0, <1>9, <2>1, <2>2, <2>3 DEF IInv, Stages, Waits
  <2>5. Wish.current # op.target
    BY <1>0, <1>9, WishType
  <2>6. Restoration'
    BY <1>5, <1>9, <2>1, <2>2, <2>5 DEF Restoration
  <2>7. ~Reloaded'
    BY <2>1, <2>2 DEF Reloaded
  <2>8. Reread'
    BY <1>1, <2>1, <2>2, <2>7 DEF Reread
  <2> QED BY <2>1, <2>4, <2>6, <2>8
<1>10. CASE m = Wish /\ op.pc \in {"expand", "activate"} /\ Go([op EXCEPT !.pc = "image"])
  <2>1. /\ op' \in Running /\ op'.pc = "image" /\ op'.kind = op.kind
        /\ op'.target = op.target /\ op'.original = op.original /\ op'.first = op.first
        /\ op'.caught = op.caught /\ op'.session = op.session /\ op'.failed = op.failed
        /\ op'.moved = op.moved /\ op'.raced = op.raced /\ last' = None
    BY <1>1, <1>10 DEF Go, Running
  <2>2. /\ ~op.failed
        /\ op.kind = "reload" => /\ op.pc = "activate" /\ op.first # None
                                 /\ op.caught[op.target] = None
    BY <1>0, <1>1, <1>10 DEF IInv, Stages
  <2>3. Alternate(op.original, op.target)' = Alternate(op.original, op.target)
    BY <2>1 DEF Alternate
  <2>4. Stages'
    BY <1>0, <1>10, <2>1, <2>2, <2>3 DEF IInv, Stages, Waits
  <2>5. Restoration'
    BY <2>1, <2>2 DEF Restoration
  <2>6. ~op.moved /\ op.kind = "reload" => ~unsaved'
    <3> SUFFICES ASSUME ~op.moved, op.kind = "reload" PROVE ~unsaved'
      OBVIOUS
    <3>1. meta.current # op.target
      BY <1>0, <2>2 DEF IInv, Restoration
    <3>2. m.current = op.target
      BY <1>0, <1>10, <2>2, WishType
    <3> QED BY <1>5, <3>1, <3>2
  <2>7. Reloaded' => op.kind = "reload"
    BY <1>1, <2>1 DEF Reloaded
  <2>8. Reread'
    BY <1>1, <2>1, <2>2, <2>6, <2>7 DEF Reread
  <2> QED BY <2>1, <2>4, <2>5, <2>8
<1>11. CASE op.pc = "restore" /\ End("failed")
  BY <1>11, Ended DEF End
<1>12. CASE m = Wish /\ op.pc = "restore" /\ ~op.failed /\ Go([op EXCEPT !.pc = "commit"])
  <2>1. /\ op' \in Running /\ op'.pc = "commit" /\ op'.kind = op.kind
        /\ op'.target = op.target /\ op'.original = op.original /\ op'.first = op.first
        /\ op'.caught = op.caught /\ op'.session = op.session /\ op'.failed = op.failed
        /\ op'.moved = op.moved /\ op'.raced = op.raced /\ last' = None
    BY <1>1, <1>12 DEF Go, Running
  <2>2. op.kind = "reload" => op.first # None
    BY <1>0, <1>12 DEF IInv, Stages
  <2>3. Alternate(op.original, op.target)' = Alternate(op.original, op.target)
    BY <2>1 DEF Alternate
  <2>4. Stages'
    BY <1>0, <1>1, <1>12, <2>1, <2>2, <2>3 DEF IInv, Stages, Waits
  <2>5. m = op.original
    BY <1>0, <1>12, WishType
  <2>6. Restoration'
    BY <1>5, <2>1, <2>2, <2>5 DEF Restoration
  <2>7. Reloaded' => Reloaded
    BY <1>12, <2>1 DEF Reloaded
  <2>8. Reread'
    <3>1. op.kind = "reload" => Reloaded
      BY <1>12 DEF Reloaded
    <3> QED BY <1>0, <1>1, <1>5, <2>1, <2>7, <3>1 DEF IInv, Reread, Preserved
  <2> QED BY <2>1, <2>4, <2>6, <2>8
<1> QED
  BY <1>0, <1>1, <1>2, <1>7, <1>8, <1>9, <1>10, <1>11, <1>12 DEF Writes

LEMMA FailingSteps ==
    ASSUME IInv, ReadFails \/ WriteHasNoSession
    PROVE  IInv'
<1>0. /\ op # Idle
      /\ UNCHANGED <<flash, live, alias, unsaved, meta, at, locator, evidence, excused>>
  BY DEF ReadFails, WriteHasNoSession, firmware
<1>1. Preserved
  BY <1>0, IdleKeeps
<1>2. /\ meta' \in Metadata /\ at' \in [Mice -> Port \cup {None}] /\ locator' \in Port
  BY <1>0 DEF IInv, TypeOK
<1>3. \/ End("unrestored")
      \/ Fail /\ op.pc \in {"image", "rate", "away", "expand", "activate"}
  BY DEF ReadFails, WriteHasNoSession
<1>4. CASE End("unrestored")
  BY <1>0, <1>1, <1>2, <1>4, Ended, RestOfInvariant DEF End
<1>5. CASE Fail /\ op.pc \in {"image", "rate", "away", "expand", "activate"}
  BY <1>0, <1>1, <1>2, <1>5, FailResult, RestOfInvariant
<1> QED BY <1>3, <1>4, <1>5
-----------------------------------------------------------------------------
(* The waits of a power-cycle check, and the end of an operation. *)

\* A round of a wait that stays where it is, or goes on with the same mouse.
LEMMA WaitResult ==
    ASSUME IInv, op # Idle, op.pc \in Waits, NEW p \in Waits, NEW e \in BOOLEAN,
           op' = [op EXCEPT !.pc = p, !.expired = e],
           op.pc = "gone" /\ p # "gone" => at["own"] # locator,
           op.pc # "gone" => p # "gone",
           UNCHANGED <<flash, live, alias, unsaved, at>>,
           op.pc = "gone" => locator' = locator
    PROVE  op' \in Running /\ Stages' /\ Restoration' /\ Reread'
<1>1. op \in Running
  BY RunningFields
<1>2. /\ op' \in Running /\ op'.pc = p /\ op'.kind = op.kind
      /\ op'.target = op.target /\ op'.original = op.original /\ op'.first = op.first
      /\ op'.caught = op.caught /\ op'.session = op.session /\ op'.failed = op.failed
      /\ op'.moved = op.moved /\ op'.raced = op.raced
  BY <1>1 DEF Running, Waits
<1>3. /\ op.kind = "power" /\ op.first # None /\ op.session = None /\ ~op.failed
      /\ \A q \in Profile : op.caught[q] = None
  <2>1. op.kind \in {"reload", "power", "refresh"} /\ op.pc \notin {"restore", "commit"}
    BY <1>1 DEF Running, Waits
  <2> QED BY <2>1 DEF IInv, Stages
<1>4. Stages'
  BY <1>2, <1>3 DEF Stages, Waits, Writes
<1>5. Restoration'
  BY <1>2, <1>3 DEF Restoration
<1>6. Reread'
  <2>1. Reloaded' => Reloaded
    BY <1>2, <1>3 DEF Reloaded
  <2>2. op.target \in Profile /\ p # "rate"
    BY <1>1 DEF Running, Waits
  <2> QED BY <1>2, <1>3, <2>1, <2>2, AbsentAssumption DEF IInv, Reread, Mice
<1> QED BY <1>2, <1>4, <1>5, <1>6

LEMMA PollSteps ==
    ASSUME IInv, PollGone \/ PollBack \/ ClockRuns
    PROVE  IInv'
<1>0. /\ op # Idle /\ op.pc \in {"gone", "back"}
      /\ UNCHANGED <<flash, live, alias, unsaved, meta, at, evidence, excused>>
  BY DEF PollGone, PollBack, ClockRuns, firmware
<1>1. Preserved
  BY <1>0, IdleKeeps
<1>2. op \in Running /\ op.pc \in Waits
  BY <1>0, RunningFields DEF Waits
<1>3. /\ meta' \in Metadata /\ at' \in [Mice -> Port \cup {None}] /\ locator \in Port
      /\ last \in {None, "done", "mismatch", "failed", "unrestored", "died"}
  BY <1>0 DEF IInv, TypeOK
<1>4. op = [op EXCEPT !.pc = op.pc, !.expired = op.expired] /\ op.expired \in BOOLEAN
  BY <1>2 DEF Running
<1>5. CASE End("failed") /\ locator' = locator
  BY <1>0, <1>1, <1>3, <1>5, Ended, RestOfInvariant DEF End
<1>6. CASE Stay /\ locator' = locator
  <2>1. op' = [op EXCEPT !.pc = op.pc, !.expired = op.expired] /\ last' = last
    BY <1>4, <1>6 DEF Stay
  <2>2. op' \in Running /\ Stages' /\ Restoration' /\ Reread'
    BY <1>0, <1>2, <1>4, <1>6, <2>1, WaitResult
  <2> QED BY <1>0, <1>1, <1>3, <1>6, <2>1, <2>2, RestOfInvariant
<1>7. CASE ClockRuns
  <2>1. /\ op' = [op EXCEPT !.expired = TRUE] /\ last' = None /\ locator' = locator
    BY <1>7 DEF ClockRuns, Go
  <2>2. op' = [op EXCEPT !.pc = op.pc, !.expired = TRUE]
    BY <1>2, <2>1 DEF Running
  <2>3. op' \in Running /\ Stages' /\ Restoration' /\ Reread'
    BY <1>0, <1>2, <2>1, <2>2, WaitResult
  <2> QED BY <1>0, <1>1, <1>3, <2>1, <2>3, RestOfInvariant
<1>8. CASE PollGone /\ locator \notin Listed
  <2>1. /\ op' = [op EXCEPT !.pc = "back", !.expired = FALSE] /\ last' = None
        /\ locator' = locator /\ op.pc = "gone"
    BY <1>8 DEF PollGone, Go
  <2>2. at["own"] # locator
    BY <1>3, <1>8, AbsentAssumption DEF Listed, Mice
  <2>3. op' \in Running /\ Stages' /\ Restoration' /\ Reread'
    BY <1>0, <1>2, <2>1, <2>2, WaitResult DEF Waits
  <2> QED BY <1>0, <1>1, <1>3, <2>1, <2>3, RestOfInvariant
<1>9. CASE PollBack /\ Reappeared # {}
  <2>1. /\ op' = [op EXCEPT !.pc = "reopen"] /\ last' = None /\ locator' \in Reappeared
        /\ op.pc = "back"
    BY <1>9 DEF PollBack, UpdateLocator, Go
  <2>2. Reappeared \subseteq Port
    <3>1. Listed \subseteq Port /\ Authenticated \subseteq Port
      BY <1>0 DEF Listed, Authenticated, Mice, IInv, TypeOK
    <3>2. LegacyRebind \subseteq Port
      BY <1>3, <3>1 DEF LegacyRebind
    <3> QED BY <3>1, <3>2 DEF Reappeared
  <2>3. op' = [op EXCEPT !.pc = "reopen", !.expired = op.expired]
    BY <1>2, <2>1 DEF Running
  <2>4. op' \in Running /\ Stages' /\ Restoration' /\ Reread'
    BY <1>0, <1>2, <1>4, <2>1, <2>3, WaitResult DEF Waits
  <2> QED BY <1>0, <1>1, <1>3, <2>1, <2>2, <2>4, RestOfInvariant
<1>10. \/ End("failed") /\ locator' = locator
       \/ Stay /\ locator' = locator
       \/ ClockRuns
       \/ PollGone /\ locator \notin Listed
       \/ PollBack /\ Reappeared # {}
  BY DEF PollGone, PollBack
<1> QED BY <1>5, <1>6, <1>7, <1>8, <1>9, <1>10

LEMMA ReopenStep == IInv /\ Reopen => IInv'
<1> SUFFICES ASSUME IInv, Reopen PROVE IInv'
  OBVIOUS
<1>0. /\ op # Idle /\ op.pc = "reopen"
      /\ UNCHANGED <<flash, live, alias, unsaved, meta, at, locator, evidence, excused>>
  BY DEF Reopen, firmware
<1>1. Preserved
  BY <1>0, IdleKeeps
<1>2. op \in Running /\ op.target \in Profile
  BY <1>0, RunningFields
<1>3. /\ meta' \in Metadata /\ at' \in [Mice -> Port \cup {None}] /\ locator' \in Port
  BY <1>0 DEF IInv, TypeOK
<1>4. CASE End("failed")
  BY <1>0, <1>1, <1>3, <1>4, Ended, RestOfInvariant DEF End
<1>5. ASSUME NEW mouse \in Mice, at[mouse] = locator,
             Go([op EXCEPT !.pc = "image", !.session = mouse, !.raced = @ \/ mouse = "other"])
      PROVE  IInv'
  <2>1. op.raced \in BOOLEAN /\ (op.raced \/ mouse = "other") \in BOOLEAN
    BY <1>2 DEF Running
  <2>2. /\ op' \in Running /\ op'.pc = "image" /\ op'.kind = op.kind
        /\ op'.target = op.target /\ op'.original = op.original /\ op'.first = op.first
        /\ op'.caught = op.caught /\ op'.session = mouse /\ op'.failed = op.failed
        /\ op'.moved = op.moved /\ op'.raced = (op.raced \/ mouse = "other") /\ last' = None
    BY <1>2, <1>5, <2>1 DEF Go, Running
  <2>3. /\ op.kind = "power" /\ op.first # None /\ ~op.failed
        /\ \A q \in Profile : op.caught[q] = None
    <3>1. op.kind \in {"reload", "power", "refresh"}
      BY <1>2 DEF Running
    <3> QED BY <1>0, <3>1 DEF IInv, Stages, Waits
  <2>4. Stages'
    BY <1>0, <1>5, <2>2, <2>3 DEF Stages, Waits, Writes
  <2>5. Restoration'
    BY <2>2, <2>3 DEF Restoration
  <2>6. Reread'
    <3>1. Reloaded
      BY <1>0, <2>3 DEF Reloaded
    <3> QED BY <1>0, <1>2, <2>1, <2>2, <2>3, <3>1 DEF IInv, Reread
  <2> QED BY <1>0, <1>1, <1>3, <2>2, <2>4, <2>5, <2>6, RestOfInvariant
<1> QED BY <1>4, <1>5 DEF Reopen

LEMMA StopStep == IInv /\ OperationStops => IInv'
<1> SUFFICES ASSUME IInv, OperationStops PROVE IInv'
  OBVIOUS
<1>1. /\ op' = Idle /\ last' \in {"failed", "died"}
      /\ UNCHANGED <<flash, live, alias, unsaved, meta, at, locator, evidence, excused>>
  BY DEF OperationStops, End, firmware
<1>2. Preserved
  BY <1>1, IdleKeeps
<1>3. /\ meta' \in Metadata /\ at' \in [Mice -> Port \cup {None}] /\ locator' \in Port
  BY <1>1 DEF IInv, TypeOK
<1> QED BY <1>1, <1>2, <1>3, Ended, RestOfInvariant
\* What has been read a second time, has been read after the reload.
LEMMA CaughtIsReloaded ==
    ASSUME IInv, op # Idle, op.kind # "refresh", op.caught[op.target] # None
    PROVE  Reloaded
<1>1. op.kind \in {"reload", "power"} /\ op.target \in Profile
  BY RunningFields
<1>2. op.pc \in {"restore", "commit"} /\ ~op.failed
  BY <1>1 DEF IInv, Stages
<1>3. op.kind = "power" => op.pc = "commit" /\ op.first # None
  BY <1>2 DEF IInv, Stages, Writes
<1> QED BY <1>1, <1>2, <1>3 DEF Reloaded

LEMMA CommitStep == IInv /\ Commit => IInv'
<1> SUFFICES ASSUME IInv, Commit PROVE IInv'
  OBVIOUS
<1>0. /\ op # Idle /\ op.pc = "commit" /\ op' = Idle /\ last' \in {"done", "mismatch"}
      /\ UNCHANGED <<flash, live, alias, unsaved, meta, at, locator>>
      /\ evidence' = [q \in Profile |-> Reconciled(q)]
      /\ excused' = IF op.moved \/ op.raced THEN excused \cup {op.target}
                    ELSE excused \ {op.target}
  BY DEF Commit, End, firmware
<1>1. /\ op \in Running /\ op.target \in Profile
      /\ op.caught \in [Profile -> {None} \cup Record]
      /\ op.kind \in {"reload", "power", "refresh"}
      /\ op.moved \in BOOLEAN /\ op.raced \in BOOLEAN
  BY <1>0, RunningFields
<1>2. /\ op.caught[op.target] # None
      /\ op.kind # "refresh" => \A q \in Profile \ {op.target} : op.caught[q] = None
  BY <1>0 DEF IInv, Stages
<1>3. op.kind # "refresh" /\ ~op.moved /\ ~op.raced =>
          op.caught[op.target] = flash[op.target] /\ ~unsaved
  BY <1>0, <1>2, CaughtIsReloaded DEF IInv, Reread
\* The evidence of each profile: left alone, without a claim, or marked.
<1>4. ASSUME NEW q \in Profile
      PROVE  /\ evidence'[q] \in Resource
             /\ Claims(evidence'[q]) =>
                  \/ evidence'[q] = evidence[q] /\ q # op.target
                  \/ /\ q = op.target /\ op.kind # "refresh"
                     /\ evidence'[q].desired.value = op.caught[q]
  <2>1. evidence[q] \in Resource /\ evidence'[q] = Reconciled(q)
    BY <1>0 DEF IInv, TypeOK
  <2> DEFINE new == ReconcileObservation(evidence[q], op.caught[q], 0)
  <2>2. CASE op.caught[q] = None
    BY <1>2, <2>1, <2>2 DEF Reconciled
  <2>3. CASE op.caught[q] # None
    <3>1. op.caught[q] \in Record
      BY <1>1, <2>3
    <3>2. new \in Resource /\ ~Claims(new) /\ new.observed.value = op.caught[q]
      BY <2>1, <3>1, ReconcileEvidence
    <3>3. CASE op.kind # "refresh" /\ Survived
      <4>1. evidence'[q] = MarkOrInvalidate(new, Claimed[op.kind], 0)
        BY <2>1, <2>3, <3>3 DEF Reconciled
      <4>2. Claimed[op.kind] \in ClaimKind
        BY <1>1, <3>3 DEF Claimed, ClaimKind
      <4>3. q = op.target
        BY <1>2, <2>3, <3>3
      <4> HIDE DEF new
      <4>4. /\ MarkOrInvalidate(new, Claimed[op.kind], 0) \in Resource
            /\ Claims(MarkOrInvalidate(new, Claimed[op.kind], 0)) =>
                  MarkOrInvalidate(new, Claimed[op.kind], 0).desired.value = op.caught[q]
        BY <3>1, <3>2, <4>2, MarkEvidence
      <4> QED BY <3>3, <4>1, <4>3, <4>4
    <3>4. CASE ~(op.kind # "refresh" /\ Survived)
      <4>1. evidence'[q] = new
        BY <2>1, <2>3, <3>4 DEF Reconciled
      <4> QED BY <3>2, <4>1
    <3> QED BY <3>3, <3>4
  <2> QED BY <2>2, <2>3
<1>5. evidence' \in [Profile -> Resource] /\ excused' \subseteq Profile
  <2>1. evidence' = [q \in Profile |-> evidence'[q]]
    BY <1>0
  <2> QED BY <1>0, <1>1, <1>4, <2>1 DEF IInv, TypeOK
<1>6. TypeOK'
  BY <1>0, <1>5 DEF IInv, TypeOK
<1>7. ASSUME NEW q \in Profile, q \notin excused', Claims(evidence'[q])
      PROVE  /\ flash[q] = evidence'[q].desired.value
             /\ q = alias => live = flash[alias]
  <2>1. CASE evidence'[q] = evidence[q] /\ q # op.target
    <3>1. q \notin excused
      BY <1>0, <1>7, <2>1
    <3> QED BY <1>7, <2>1, <3>1 DEF IInv, ClaimsAreSaved, Loaded
  <2>2. CASE /\ q = op.target /\ op.kind # "refresh"
             /\ evidence'[q].desired.value = op.caught[q]
    <3>1. ~op.moved /\ ~op.raced
      BY <1>0, <1>7, <2>2
    <3>2. op.caught[op.target] = flash[op.target] /\ ~unsaved
      BY <1>3, <2>2, <3>1
    <3> QED BY <2>2, <3>2 DEF IInv, Loaded
  <2> QED BY <1>4, <1>7, <2>1, <2>2
<1>8. Loaded'
  <2>1. alias \in Profile /\ (~unsaved => live = flash[alias])
    BY DEF IInv, TypeOK, Loaded
  <2> QED BY <1>0, <1>7, <2>1 DEF Loaded
<1>9. ClaimsAreSaved'
  BY <1>0, <1>7 DEF ClaimsAreSaved
<1> QED BY <1>0, <1>6, <1>8, <1>9, Ended DEF IInv

-----------------------------------------------------------------------------
(* The environment. *)

LEMMA DeferredSaveStep == IInv /\ DeferredSave => IInv'
<1> SUFFICES ASSUME IInv, DeferredSave PROVE IInv'
  OBVIOUS
<1>0. /\ unsaved /\ flash' = [flash EXCEPT ![alias] = live] /\ unsaved' = FALSE
      /\ UNCHANGED <<live, alias, meta, at, locator, evidence, op, last, excused>>
  BY DEF DeferredSave
<1>1. /\ flash \in [Profile -> Record] /\ alias \in Profile /\ live \in Record
      /\ alias \notin excused /\ Claims(evidence[alias]) => live = flash[alias]
  BY DEF IInv, TypeOK, Loaded
<1>2. Preserved
  BY <1>0, <1>1 DEF Preserved
<1>3. Stages' /\ Restoration'
  BY <1>0 DEF IInv, Stages, Restoration, Alternate
<1>4. Reread'
  <2>1. Reloaded' = Reloaded
    BY <1>0 DEF Reloaded
  <2> QED BY <1>0, <2>1, CaughtIsReloaded DEF IInv, Reread
<1>5. /\ meta' \in Metadata /\ at' \in [Mice -> Port \cup {None}] /\ locator' \in Port
      /\ op' \in {Idle} \cup Running
      /\ last' \in {None, "done", "mismatch", "failed", "unrestored", "died"}
  BY <1>0 DEF IInv, TypeOK
<1> QED BY <1>0, <1>2, <1>3, <1>4, <1>5, RestOfInvariant

\* Another operation, which finds the lock free; a waiting check is then raced.
LEMMA OtherResult ==
    ASSUME IInv, Other
    PROVE  /\ op' \in {Idle} \cup Running /\ Stages' /\ Restoration' /\ Reread'
           /\ UNCHANGED <<at, locator, last, excused>>
<1>0. /\ op = Idle \/ (op # Idle /\ op.pc \in Waits)
      /\ op' = IF op = Idle THEN op ELSE [op EXCEPT !.raced = TRUE]
      /\ UNCHANGED <<at, locator, last, excused>>
  BY DEF Other, Unlocked, Waiting, Waits
<1>1. CASE op = Idle
  BY <1>0, <1>1, Ended
<1>2. CASE op # Idle
  <2>1. op \in Running
    BY <1>2, RunningFields
  <2>2. /\ op' \in Running /\ op'.pc = op.pc /\ op'.kind = op.kind
        /\ op'.target = op.target /\ op'.original = op.original /\ op'.first = op.first
        /\ op'.caught = op.caught /\ op'.session = op.session /\ op'.failed = op.failed
        /\ op'.moved = op.moved /\ op'.raced = TRUE
    BY <1>0, <1>2, <2>1 DEF Running
  <2>3. /\ op.kind = "power" /\ op.first # None /\ op.session = None /\ ~op.failed
        /\ \A q \in Profile : op.caught[q] = None
    <3>1. op.kind \in {"reload", "power", "refresh"} /\ op.pc \notin {"restore", "commit"}
      BY <1>0, <1>2, <2>1 DEF Running, Waits
    <3> QED BY <1>0, <1>2, <3>1 DEF IInv, Stages
  <2>4. Stages'
    BY <1>0, <1>2, <2>2, <2>3 DEF Stages, Waits, Writes
  <2>5. Restoration'
    BY <2>2, <2>3 DEF Restoration
  <2>6. Reread'
    BY <1>0, <1>2, <2>1, <2>2, <2>3 DEF Reread, Waits, Running
  <2> QED BY <1>0, <2>2, <2>4, <2>5, <2>6
<1> QED BY <1>1, <1>2

LEMMA SetMetadataStep ==
    ASSUME IInv, NEW to \in Metadata, SetMetadata(to)
    PROVE  IInv'
<1>1. /\ op' \in {Idle} \cup Running /\ Stages' /\ Restoration' /\ Reread'
      /\ UNCHANGED <<at, locator, last, excused, evidence>>
  BY OtherResult DEF SetMetadata
<1>2. Preserved /\ meta' \in Metadata
  BY ReachKeeps DEF SetMetadata
<1>3. /\ at' \in [Mice -> Port \cup {None}] /\ locator' \in Port
      /\ last' \in {None, "done", "mismatch", "failed", "unrestored", "died"}
  BY <1>1 DEF IInv, TypeOK
<1> QED BY <1>1, <1>2, <1>3, RestOfInvariant

LEMMA ChangeResult ==
    ASSUME IInv, NEW q \in Profile, NEW rec \in Record, Change(q, rec)
    PROVE  /\ flash' \in [Profile -> Record] /\ live' = rec /\ alias' = q /\ unsaved' = TRUE
           /\ alias = q => flash' = flash
           /\ \A p \in Profile \ excused : Claims(evidence[p]) => flash'[p] = flash[p]
<1>1. /\ live' = rec /\ alias' = q /\ unsaved' = TRUE
      /\ IF alias = q THEN flash' = flash ELSE flash' \in Settled
  BY DEF Change
<1> QED BY <1>1, SettledResult DEF IInv, TypeOK

LEMMA WriteProfileStep ==
    ASSUME IInv, NEW q \in Profile, NEW rec \in Kept, NEW readback \in BOOLEAN,
           WriteProfile(q, rec, readback)
    PROVE  IInv'
<1>0. rec \in Record
  BY RecordsAssumption
<1>1. /\ op' \in {Idle} \cup Running /\ Stages' /\ Restoration' /\ Reread'
      /\ UNCHANGED <<at, locator, last, excused, meta>>
  BY OtherResult DEF WriteProfile
<1>2. /\ flash' \in [Profile -> Record] /\ live' = rec /\ alias' = q /\ unsaved' = TRUE
      /\ \A p \in Profile \ excused : Claims(evidence[p]) => flash'[p] = flash[p]
  BY <1>0, ChangeResult DEF WriteProfile
<1> DEFINE new == IF readback THEN RecordReadbackWrite(evidence[q], rec, rec, 0)
                  ELSE RecordAckWrite(evidence[q], rec, 0)
<1>3. evidence' = [evidence EXCEPT ![q] = new]
  BY DEF WriteProfile
<1>4. evidence[q] \in Resource
  BY DEF IInv, TypeOK
<1>5. new \in Resource /\ ~Claims(new)
  <2>1. CASE readback
    BY <1>0, <1>4, <2>1, WriteEvidence
  <2>2. CASE ~readback
    BY <1>0, <1>4, <2>2, WriteEvidence
  <2> QED BY <2>1, <2>2
<1> HIDE DEF new
<1>6. /\ evidence' \in [Profile -> Resource] /\ ~Claims(evidence'[q])
      /\ \A p \in Profile \ {q} : evidence'[p] = evidence[p]
  BY <1>3, <1>5 DEF IInv, TypeOK
<1>7. TypeOK'
  BY <1>0, <1>1, <1>2, <1>6 DEF IInv, TypeOK
<1>8. Loaded'
  BY <1>2, <1>6 DEF Loaded
<1>9. ClaimsAreSaved'
  BY <1>1, <1>2, <1>6 DEF IInv, ClaimsAreSaved
<1> QED BY <1>1, <1>7, <1>8, <1>9 DEF IInv

\* The user changes something on the mouse; what runs is told by its history.
LEMMA TouchResult ==
    ASSUME IInv, Touch
    PROVE  /\ op' \in {Idle} \cup Running /\ Restoration' /\ Reread' /\ Stages'
           /\ UNCHANGED <<at, locator, last, evidence>>
<1>0. /\ op' = IF op = Idle THEN op ELSE [op EXCEPT !.moved = TRUE]
      /\ UNCHANGED <<at, locator, last, evidence>>
  BY DEF Touch
<1>1. CASE op = Idle
  BY <1>0, <1>1, Ended
<1>2. CASE op # Idle
  <2>1. op \in Running
    BY <1>2, RunningFields
  <2>2. /\ op' \in Running /\ op'.pc = op.pc /\ op'.kind = op.kind
        /\ op'.target = op.target /\ op'.original = op.original /\ op'.first = op.first
        /\ op'.caught = op.caught /\ op'.session = op.session /\ op'.failed = op.failed
        /\ op'.moved = TRUE /\ op'.seen = op.seen
    BY <1>0, <1>2, <2>1 DEF Running
  <2>3. Stages'
    BY <1>0, <1>2, <2>2 DEF IInv, Stages, Alternate
  <2>4. Restoration' /\ Reread'
    BY <2>2 DEF Restoration, Reread
  <2> QED BY <1>0, <2>2, <2>3, <2>4
<1> QED BY <1>1, <1>2
LEMMA TouchMouseStep ==
    ASSUME IInv, NEW i \in Image, TouchMouse(i)
    PROVE  IInv'
<1> DEFINE rec == [live EXCEPT !.image = i]
<1>1. /\ op' \in {Idle} \cup Running /\ Stages' /\ Restoration' /\ Reread'
      /\ UNCHANGED <<at, locator, last, evidence, meta>>
      /\ excused' = excused \cup {alias} /\ alias \in Profile
  BY TouchResult DEF TouchMouse, IInv, TypeOK
<1>2. rec \in Record /\ Change(alias, rec)
  BY DEF TouchMouse, IInv, TypeOK, Record
<1> HIDE DEF rec
<1>3. /\ flash' = flash /\ live' = rec /\ alias' = alias /\ unsaved' = TRUE
  BY <1>1, <1>2, ChangeResult
<1>4. TypeOK'
  BY <1>1, <1>2, <1>3 DEF IInv, TypeOK
<1>5. Loaded' /\ ClaimsAreSaved'
  BY <1>1, <1>3 DEF IInv, Loaded, ClaimsAreSaved
<1> QED BY <1>1, <1>4, <1>5 DEF IInv

LEMMA SwitchProfileStep ==
    ASSUME IInv, NEW q \in Profile, SwitchProfile(q)
    PROVE  IInv'
<1> DEFINE m == [meta EXCEPT !.current = q]
<1>1. /\ op' \in {Idle} \cup Running /\ Stages' /\ Restoration' /\ Reread'
      /\ UNCHANGED <<at, locator, last, evidence, excused>> /\ q <= meta.maximum /\ Reach(m)
  BY TouchResult DEF SwitchProfile
<1>2. m \in Metadata
  BY <1>1 DEF IInv, TypeOK, Metadata
<1> HIDE DEF m
<1>3. Preserved /\ meta' \in Metadata
  BY <1>1, <1>2, ReachKeeps
<1>4. /\ at' \in [Mice -> Port \cup {None}] /\ locator' \in Port
      /\ last' \in {None, "done", "mismatch", "failed", "unrestored", "died"}
  BY <1>1 DEF IInv, TypeOK
<1> QED BY <1>1, <1>3, <1>4, RestOfInvariant

\* Power is cut: the mouse loads what is saved, and its session is gone.
LEMMA UnplugStep ==
    ASSUME IInv, NEW mouse \in Mice, Unplug(mouse)
    PROVE  IInv'
<1>0. /\ at' = [at EXCEPT ![mouse] = None]
      /\ IF mouse = "own" THEN Load(meta.current) ELSE UNCHANGED <<flash, live, alias, unsaved>>
      /\ op' = IF op # Idle /\ op.session = mouse THEN [op EXCEPT !.session = None] ELSE op
      /\ UNCHANGED <<meta, locator, evidence, last, excused>>
  BY DEF Unplug
<1>1. meta.current \in Profile
  BY DEF IInv, TypeOK, Metadata
<1>2. Preserved /\ (mouse = "own" => ~unsaved')
  <2>1. CASE mouse = "own"
    BY <1>0, <1>1, <2>1, LoadKeeps, LoadResult
  <2>2. CASE mouse # "own"
    BY <1>0, <2>2, IdleKeeps
  <2> QED BY <2>1, <2>2
<1>3. /\ at' \in [Mice -> Port \cup {None}] /\ at'[mouse] = None
      /\ \A other \in Mice \ {mouse} : at'[other] = at[other]
  BY <1>0 DEF IInv, TypeOK
<1>4. /\ meta' \in Metadata /\ locator' \in Port
      /\ last' \in {None, "done", "mismatch", "failed", "unrestored", "died"}
  BY <1>0 DEF IInv, TypeOK
<1> SUFFICES op' \in {Idle} \cup Running /\ Stages' /\ Restoration' /\ Reread'
  BY <1>0, <1>2, <1>3, <1>4, RestOfInvariant
<1>5. CASE op = Idle
  BY <1>0, <1>5, Ended
<1>6. CASE op # Idle
  <2>1. op \in Running /\ op.session \in Mice \cup {None} /\ op.target \in Profile
    BY <1>6, RunningFields
  <2>2. /\ op' \in Running /\ op'.pc = op.pc /\ op'.kind = op.kind
        /\ op'.target = op.target /\ op'.original = op.original /\ op'.first = op.first
        /\ op'.caught = op.caught /\ op'.failed = op.failed /\ op'.seen = op.seen
        /\ op'.moved = op.moved /\ op'.raced = op.raced
        /\ op'.session = IF op.session = mouse THEN None ELSE op.session
    BY <1>0, <1>6, <2>1 DEF Running
  <2>3. None \notin Mice
    BY AbsentAssumption
  <2>4. op'.session # None => op'.session \in Mice \ {mouse} /\ op'.session = op.session
    BY <2>1, <2>2
  <2>5. op'.session = "other" => op.session = "other"
    BY <2>2, <2>3 DEF Mice
  <2>6. Stages'
    <3>1. Alternate(op.original, op.target)' = Alternate(op.original, op.target)
      BY <2>2 DEF Alternate
    <3>2. op'.session # None => at'[op'.session] = locator'
      BY <1>0, <1>3, <1>6, <2>4 DEF IInv, Stages
    <3>3. op.session = None => op'.session = None
      BY <2>2
    <3> QED BY <1>6, <2>2, <2>5, <3>1, <3>2, <3>3 DEF IInv, Stages
  <2>7. Restoration'
    BY <1>0, <1>6, <2>2 DEF IInv, Restoration
  <2>8. Reread'
    <3>1. ~op.moved /\ ~op.raced /\ Reloaded' => ~unsaved'
      <4> SUFFICES ASSUME ~op.moved, ~op.raced, Reloaded' PROVE ~unsaved'
        OBVIOUS
      <4>1. CASE mouse = "own"
        BY <1>2, <4>1
      <4>2. CASE mouse # "own"
        <5>1. at'["own"] = at["own"]
          BY <1>3, <4>2 DEF Mice
        <5>2. Reloaded
          BY <1>0, <2>2, <5>1 DEF Reloaded
        <5> QED BY <1>0, <1>6, <4>2, <5>2 DEF IInv, Reread
      <4> QED BY <4>1, <4>2
    <3>2. op.pc = "rate" /\ op'.session = "own" => UNCHANGED <<live, alias>>
      BY <1>0, <2>2, <2>3 DEF Mice
    <3>3. op'.session = "own" => op.session = "own"
      BY <2>2, <2>3 DEF Mice
    <3>4. /\ ~op.moved /\ ~op.raced /\ op.kind # "refresh" /\ op.caught[op.target] # None
          => op.caught[op.target] = flash'[op.target]
      BY <1>2, <1>6, CaughtIsReloaded DEF IInv, Reread, Preserved
    <3> QED BY <1>6, <2>2, <2>5, <3>1, <3>2, <3>3, <3>4 DEF IInv, Reread
  <2> QED BY <2>2, <2>6, <2>7, <2>8
<1> QED BY <1>5, <1>6

LEMMA PlugStep ==
    ASSUME IInv, NEW mouse \in Mice, NEW port \in Port, Plug(mouse, port)
    PROVE  IInv'
<1>0. /\ at[mouse] = None /\ at' = [at EXCEPT ![mouse] = port]
      /\ UNCHANGED <<flash, live, alias, unsaved, meta, locator, evidence, op, last, excused>>
  BY DEF Plug, firmware
<1>1. Preserved
  BY <1>0, IdleKeeps
<1>2. /\ at' \in [Mice -> Port \cup {None}]
      /\ \A other \in Mice \ {mouse} : at'[other] = at[other]
  BY <1>0 DEF IInv, TypeOK
<1>3. /\ meta' \in Metadata /\ locator \in Port /\ op' \in {Idle} \cup Running
      /\ last' \in {None, "done", "mismatch", "failed", "unrestored", "died"}
  BY <1>0 DEF IInv, TypeOK
<1>4. locator # None
  BY <1>3, AbsentAssumption
<1>5. Stages'
  <2>1. op # Idle /\ op.session # None => at'[op.session] = locator
    <3> SUFFICES ASSUME op # Idle, op.session # None PROVE at'[op.session] = locator
      OBVIOUS
    <3>1. at[op.session] = locator /\ op.session \in Mice
      BY RunningFields DEF IInv, Stages
    <3> QED BY <1>0, <1>2, <1>4, <3>1
  <2> QED BY <1>0, <2>1 DEF IInv, Stages, Alternate
<1>6. Restoration'
  BY <1>0 DEF IInv, Restoration
<1>7. Reread'
  <2>1. Reloaded' => Reloaded
    <3>1. at'["own"] # locator => at["own"] # locator
      BY <1>0, <1>2, <1>4 DEF Mice
    <3> QED BY <1>0, <3>1 DEF Reloaded
  <2> QED BY <1>0, <2>1 DEF IInv, Reread
<1> QED BY <1>0, <1>1, <1>2, <1>3, <1>5, <1>6, <1>7, RestOfInvariant

-----------------------------------------------------------------------------
(* The invariant, and what follows from it. *)

LEMMA StepInvariant == IInv /\ [Next]_vars => IInv'
<1> SUFFICES ASSUME IInv, [Next]_vars PROVE IInv'
  OBVIOUS
<1>1. CASE UNCHANGED vars
  <2>1. UNCHANGED <<flash, live, alias, unsaved, meta, at, locator, evidence, op, last, excused>>
    BY <1>1 DEF vars, firmware
  <2>2. Stages' /\ Restoration'
    BY <2>1 DEF IInv, Stages, Restoration, Alternate
  <2>3. Reread'
    BY <2>1 DEF IInv, Reread, Reloaded
  <2>4. TypeOK' /\ Loaded' /\ ClaimsAreSaved'
    BY <2>1 DEF IInv, TypeOK, Loaded, ClaimsAreSaved
  <2> QED BY <2>2, <2>3, <2>4 DEF IInv
<1>2. CASE OwnStep
  BY <1>2, ReadImageStep, ReadRateStep, WriteMetadataStep, FailingSteps, PollSteps,
     ReopenStep, CommitStep DEF OwnStep
<1>3. CASE Environment
  BY <1>3, DeferredSaveStep, StopStep, WriteProfileStep, SwitchProfileStep, SetMetadataStep,
     TouchMouseStep, UnplugStep, PlugStep DEF Environment
<1> QED BY <1>1, <1>2, <1>3, BeginSteps, PollSteps DEF Next

LEMMA Invariance == Spec => []IInv
BY InitInvariant, StepInvariant, PTL DEF Spec

\* The model's variables keep their types.
THEOREM VerificationTypes == Spec => []TypeOK
<1>1. IInv => TypeOK
  BY DEF IInv
<1> QED BY <1>1, Invariance, PTL

\* What a check claims to survive is what the flash holds
\* (verify_profile_reload, verify_power_cycle).
THEOREM ClaimsSurvive == Spec => []ClaimsAreSaved
<1>1. IInv => ClaimsAreSaved
  BY DEF IInv
<1> QED BY <1>1, Invariance, PTL
\* Only a reload check that has not left its first read yet fails without a
\* restoration.
LEMMA FailEnds ==
    ASSUME IInv, op # Idle, Fail, op' = Idle, op.kind # "power"
    PROVE  op.kind = "reload" /\ op.first = None
<1>1. op \in Running
  BY RunningFields
<1>2. [op EXCEPT !.pc = "restore", !.failed = TRUE] # Idle
  BY <1>1 DEF Running, Idle
<1>3. ~(op.kind = "refresh" \/ (op.kind = "reload" /\ op.first # None))
  BY <1>2 DEF Fail, Go
<1> QED BY <1>1, <1>3 DEF Running

\* The metadata as it is when an operation ends without a complaint about it.
LEMMA RestoredStep ==
    ASSUME IInv, [Next]_vars, op # Idle, op' = Idle, op.kind # "power",
           last' \in {"done", "mismatch", "failed"}, ~op.moved
    PROVE  meta' = op.original
<1>0. op \in Running /\ op.kind \in {"reload", "refresh"} /\ op.pc \notin Waits
  BY RunningFields DEF IInv, Stages
<1>1. CASE ReadImage
  <2>1. Fail
    <3>2. CASE Expected
      <4>1. PICK i \in LiveImage, agrees \in SameMaximum :
                 Go([op EXCEPT !.pc = "rate", !.seen = [image |-> i, rate |-> None],
                               !.agrees = agrees])
        BY <1>1, <3>2 DEF ReadImage
      <4>2. op'.pc = "rate"
        BY <1>0, <4>1 DEF Go, Running
      <4> QED BY <4>2 DEF Idle
    <3>3. CASE ~Expected
      BY <1>1, <3>3 DEF ReadImage
    <3> QED BY <3>2, <3>3
  <2>2. op.kind = "reload" /\ op.first = None /\ meta' = meta
    BY <1>1, <2>1, FailEnds DEF ReadImage
  <2> QED BY <2>2 DEF IInv, Restoration
<1>2. CASE ReadRate
  <2>1. PICK r \in LiveRate : op' = AfterRead([image |-> op.seen.image, rate |-> r])
    BY <1>2 DEF ReadRate, Go
  <2>2. op'.pc \in {"activate", "restore", "away"}
    BY <1>0, <2>1 DEF AfterRead, Running
  <2> QED BY <2>2 DEF Idle
<1>3. CASE WriteMetadata
  <2>0. op.pc \in Writes
    BY <1>3 DEF WriteMetadata, Writes
  <2>1. PICK m \in Steps(Wish) :
        /\ Reach(m)
        /\ \/ /\ m = Wish
              /\ CASE op.pc = "away" -> Go([op EXCEPT !.pc = "activate"])
                   [] op.pc \in {"expand", "activate"} -> Go([op EXCEPT !.pc = "image"])
                   [] op.pc = "restore" /\ op.failed -> End("failed")
                   [] op.pc = "restore" /\ ~op.failed ->
                          Go([op EXCEPT !.pc = "commit"])
           \/ IF op.pc = "restore" THEN End("unrestored") ELSE Fail
    BY <1>3 DEF WriteMetadata
  <2>2. CASE m = Wish /\ op.pc = "restore"
    <3>1. meta' = op.original
      BY <2>0, <2>1, <2>2, WishType DEF Reach
    <3> QED BY <3>1
  <2>3. CASE m = Wish /\ op.pc # "restore" /\ ~Fail
    <3>1. op'.pc \in {"activate", "image"}
      BY <1>0, <2>0, <2>1, <2>3 DEF Go, Running, Writes
    <3> QED BY <3>1 DEF Idle
  <2>4. CASE op.pc = "restore" /\ End("unrestored")
    BY <2>4 DEF End
  <2>5. CASE op.pc # "restore" /\ Fail
    <3>1. op.kind = "reload" /\ op.first = None
      BY <2>5, FailEnds
    <3>2. op.pc \in {"image", "rate"}
      BY <3>1 DEF IInv, Stages
    <3> QED BY <2>0, <3>2 DEF Writes
  <2> QED BY <2>1, <2>2, <2>3, <2>4, <2>5
<1>4. CASE ReadFails \/ WriteHasNoSession
  <2>1. Fail /\ meta' = meta
    BY <1>4 DEF ReadFails, WriteHasNoSession, End, firmware
  <2>2. op.kind = "reload" /\ op.first = None
    BY <2>1, FailEnds
  <2> QED BY <2>1, <2>2 DEF IInv, Restoration
<1>5. CASE Commit \/ OperationStops
  <2>1. op.pc = "commit" /\ meta' = meta
    BY <1>5 DEF Commit, OperationStops, End, firmware
  <2> QED BY <2>1 DEF IInv, Restoration
<1>6. CASE PollGone \/ PollBack \/ Reopen \/ ClockRuns
  <2>1. op.pc \in Waits
    BY <1>6 DEF PollGone, PollBack, Reopen, ClockRuns, Waits
  <2> QED BY <1>0, <2>1
<1>7. CASE BeginRefresh \/ (\E q \in Profile : BeginReload(q) \/ BeginPowerCycle(q))
  BY <1>7 DEF BeginRefresh, BeginReload, BeginPowerCycle, Begin
<1>8. ASSUME \/ op' = op
             \/ op' = [op EXCEPT !.raced = TRUE]
             \/ op' = [op EXCEPT !.moved = TRUE]
             \/ op' = [op EXCEPT !.session = None]
      PROVE  FALSE
  <2>1. op'.pc = op.pc
    BY <1>0, <1>8 DEF Running
  <2> QED BY <1>0, <2>1 DEF Running, Idle
<1>9. CASE UNCHANGED vars
  BY <1>8, <1>9 DEF vars
<1>10. CASE Environment
  <2>1. CASE OperationStops
    BY <1>5, <2>1
  <2>2. CASE DeferredSave
    BY <1>8, <2>2 DEF DeferredSave
  <2>3. CASE \E q \in Profile : \E rec \in Kept, readback \in BOOLEAN : WriteProfile(q, rec, readback)
    BY <1>8, <2>3 DEF WriteProfile, Other
  <2>4. CASE \E q \in Profile : SwitchProfile(q)
    BY <1>8, <2>4 DEF SwitchProfile, Touch
  <2>5. CASE \E to \in Metadata : SetMetadata(to)
    BY <1>8, <2>5 DEF SetMetadata, Other
  <2>6. CASE \E i \in Image : TouchMouse(i)
    BY <1>8, <2>6 DEF TouchMouse, Touch
  <2>7. CASE \E mouse \in Mice : Unplug(mouse)
    BY <1>8, <2>7 DEF Unplug
  <2>8. CASE \E mouse \in Mice, port \in Port : Plug(mouse, port)
    BY <1>8, <2>8 DEF Plug
  <2> QED
    BY <1>10, <2>1, <2>2, <2>3, <2>4, <2>5, <2>6, <2>7, <2>8 DEF Environment
<1> QED
  BY <1>1, <1>2, <1>3, <1>4, <1>5, <1>6, <1>7, <1>9, <1>10 DEF Next, OwnStep

\* A reload check or a refresh that says nothing of its restoration has made
\* it, whichever of its steps failed (verify_profile_reload,
\* refresh_all_profiles).
THEOREM MetadataIsRestored == Spec => MetadataRestored
<1> DEFINE Restored ==
        op # Idle /\ op' = Idle /\ op.kind # "power" /\ last' \in {"done", "mismatch", "failed"}
          /\ ~op.moved => meta' = op.original
<1>1. IInv /\ [Next]_vars => [Restored]_vars
  BY RestoredStep
<1> HIDE DEF Restored
<1>2. Spec => [][Restored]_vars
  BY Invariance, <1>1, PTL DEF Spec
<1> QED BY <1>2 DEF MetadataRestored, Restored
=============================================================================
