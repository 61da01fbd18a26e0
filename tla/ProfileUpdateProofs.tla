------------------------- MODULE ProfileUpdateProofs -------------------------
(***************************************************************************)
(* The operation lock makes each update and each read of a profile one     *)
(* step as far as the evidence and the mouse are concerned, for any number *)
(* of processes, sections, fields, values and requests.                    *)
(***************************************************************************)
EXTENDS ProfileUpdate, WellFoundedInduction, TLAPS

Outside == {"idle", "waiting"}

\* Evidence that claims its value was applied to the mouse.
Applied(resource) ==
    /\ resource.desired # None
    /\ resource.desired.application \in {"Acknowledged", "ReadbackVerified"}

\* Only the holder of the operation lock is inside an operation; the others
\* have nothing to commit.
Exclusive(p) == IF pc[p] \in Outside THEN wrote[p] = NoDelta ELSE oplock = p

\* What an operation is about to commit is what the mouse holds, except for
\* the sections known to have changed meanwhile.
Uncommitted(p) ==
    /\ \A s \in Section \ stale : wrote[p][s] \in {None, hw[s]}
    /\ pc[p] = "observe" => \A s \in Section : wrote[p][s] # None

\* A baseline belongs to the next section, and a live one is its value now.
Baseline(p) ==
    base[p] # None =>
        /\ pc[p] = "writing" /\ Todo(p) # {}
        /\ policy[p].baseline = "Live" /\ ~moved[p] => base[p] = hw[NextSection(p)]

IInv ==
    /\ TypeOK
    /\ EvidenceIsTrue
    /\ \A p \in Proc : Exclusive(p) /\ Uncommitted(p) /\ Baseline(p)

-----------------------------------------------------------------------------
\* A non-empty set of naturals has a least element, the base of the order in
\* which the sections of an update are written.
LEMMA Least ==
    ASSUME NEW S \in SUBSET Nat, S # {}
    PROVE  \E n \in S : \A m \in S : n <= m
<1> DEFINE R == {ss \in Nat \X Nat : ss[1] < ss[2]}
<1>1. IsWellFoundedOn(R, Nat)
  BY NatLessThanWellFounded DEF OpToRel
<1>2. \A x, y \in Nat : y < x => <<y, x>> \in R
  OBVIOUS
<1> HIDE DEF R
<1>3. PICK x \in S : \A y \in S : <<y, x>> \notin R
  BY <1>1, WFMin
<1>4. ASSUME NEW y \in S PROVE x <= y
  <2>1. x \in Nat /\ y \in Nat /\ ~(y < x)
    BY <1>2, <1>3
  <2> QED BY <2>1
<1> QED BY <1>4

\* While a section is left, the next one is among those left.
LEMMA NextIsTodo ==
    ASSUME NEW p \in Proc, Todo(p) # {}
    PROVE  NextSection(p) \in Todo(p)
<1> DEFINE left == {i \in 1..Len(Sections) : Sections[i] \in Todo(p)}
           first(i) == /\ Sections[i] \in Todo(p)
                       /\ \A j \in 1..(i - 1) : Sections[j] \notin Todo(p)
<1>1. left \in SUBSET Nat /\ left # {}
  BY DEF Todo, Section
<1>2. PICK n \in left : \A m \in left : n <= m
  BY <1>1, Least
<1>3. n \in 1..Len(Sections) /\ \A j \in 1..(n - 1) : j \in 1..Len(Sections) /\ ~(n <= j)
  BY <1>2, SectionsAssumption
<1>4. \A j \in 1..(n - 1) : Sections[j] \notin Todo(p)
  BY <1>2, <1>3
<1>5. \E i \in 1..Len(Sections) : first(i)
  BY <1>2, <1>3, <1>4
<1>6. first(CHOOSE i \in 1..Len(Sections) : first(i))
  BY <1>5
<1> QED BY <1>6 DEF NextSection

LEMMA TodoSections ==
    ASSUME TypeOK, NEW p \in Proc, NEW s \in Todo(p)
    PROVE  s \in Section /\ delta[p][s] \in Delta
BY DEF Todo, TypeOK

\* A merge sets the fields the request names and keeps the others.
LEMMA MergeImage ==
    ASSUME NEW image \in Image, NEW d \in Delta
    PROVE  /\ Merge(image, d) \in Image
           /\ \A f \in Field \ DOMAIN d : Merge(image, d)[f] = image[f]
BY DeltaAssumption DEF Merge, Image

-----------------------------------------------------------------------------
(* What the mutators of the evidence leave behind in a section. *)

LEMMA WantedDesired ==
    ASSUME NEW v \in Image, NEW src \in Source, NEW app \in Application
    PROVE  Wanted(v, src, app, 0) \in Desired /\ Seen(v, 0) \in Observed
BY DEF Wanted, Seen, Desired, Observed

LEMMA WriteRecords ==
    ASSUME NEW rs \in Resource, NEW v \in Image
    PROVE  /\ RecordAckWrite(rs, v, 0) \in Resource
           /\ RecordReadbackWrite(rs, v, v, 0) \in Resource
           /\ RecordAckWrite(rs, v, 0).desired.value = v
           /\ RecordReadbackWrite(rs, v, v, 0).desired.value = v
<1>1. /\ Wanted(v, "UserWrite", "Acknowledged", 0) \in Desired
      /\ Wanted(v, "UserWrite", "ReadbackVerified", 0) \in Desired
      /\ Seen(v, 0) \in Observed
  BY WantedDesired DEF Source, Application
<1>2. Wanted(v, "UserWrite", "Acknowledged", 0).value = v
  BY DEF Wanted
<1>3. Wanted(v, "UserWrite", "ReadbackVerified", 0).value = v
  BY DEF Wanted
<1>4. /\ RecordAckWrite(rs, v, 0) \in Resource
      /\ RecordAckWrite(rs, v, 0).desired = Wanted(v, "UserWrite", "Acknowledged", 0)
  BY <1>1 DEF RecordAckWrite, Resource
<1>5. /\ RecordReadbackWrite(rs, v, v, 0) \in Resource
      /\ RecordReadbackWrite(rs, v, v, 0).desired = Wanted(v, "UserWrite", "ReadbackVerified", 0)
  BY <1>1 DEF RecordReadbackWrite, Resource
<1> QED BY <1>2, <1>3, <1>4, <1>5

\* A read leaves a claim of application only on the value it read.
LEMMA ReadRecords ==
    ASSUME NEW rs \in Resource, NEW v \in Image
    PROVE  /\ ReconcileObservation(rs, v, 0) \in Resource
           /\ Applied(ReconcileObservation(rs, v, 0))
                 => ReconcileObservation(rs, v, 0).desired.value = v
<1> DEFINE new == ReconcileObservation(rs, v, 0)
<1>1. Wanted(v, "CapturedBaseline", "ReadbackVerified", 0) \in Desired /\ Seen(v, 0) \in Observed
  BY WantedDesired DEF Source, Application
<1>2. CASE rs.desired = None
  <2>1. new = [desired  |-> Wanted(v, "CapturedBaseline", "ReadbackVerified", 0),
               observed |-> Seen(v, 0)]
    BY <1>2 DEF ReconcileObservation
  <2>2. new \in Resource /\ new.desired.value = v
    BY <1>1, <2>1 DEF Resource, Wanted
  <2> QED BY <2>2
<1>3. CASE rs.desired # None
  <2> DEFINE matches == rs.desired.value = v /\ 0 >= rs.desired.updated_at
             d == [rs.desired EXCEPT
                      !.application = IF matches THEN "ReadbackVerified" ELSE "Mismatch",
                      !.persistence = Unknown]
  <2>1. new = [desired |-> d, observed |-> Seen(v, 0)]
    BY <1>3 DEF ReconcileObservation
  <2>2. rs.desired \in Desired
    BY <1>3 DEF Resource
  <2>3. /\ d \in Desired /\ d.value = rs.desired.value
        /\ d.application = IF matches THEN "ReadbackVerified" ELSE "Mismatch"
    BY <2>2 DEF Desired, Application
  <2>4. rs.desired.value = v \/ d.application = "Mismatch"
    BY <2>3
  <2> HIDE DEF d, matches
  <2>5. new \in Resource /\ new.desired = d
    BY <1>1, <2>1, <2>3 DEF Resource
  <2> HIDE DEF new
  <2>6. Applied(new) => new.desired.value = v
    BY <2>3, <2>4, <2>5 DEF Applied
  <2> QED BY <2>5, <2>6 DEF new
<1> QED BY <1>2, <1>3

-----------------------------------------------------------------------------
LEMMA NoDeltaType == NoDelta \in [Section -> {None} \cup Delta]
BY DEF NoDelta

LEMMA NothingWritten ==
    NoDelta \in [Section -> {None} \cup Image] /\ \A s \in Section : NoDelta[s] = None
BY DEF NoDelta

LEMMA PolicyType == DefaultPolicy \in Policy
<1>1. PICK b \in Baselines : TRUE
  BY BaselinesAssumption
<1>2. [baseline |-> b, readback |-> TRUE] \in Policy
  BY DEF Policy
<1> QED BY <1>2 DEF DefaultPolicy

LEMMA InvInit == Init => IInv
<1> SUFFICES ASSUME Init PROVE IInv
  OBVIOUS
<1>1. PICK v \in Val : TRUE
  BY ValAssumption
<1>2. [f \in Field |-> v] \in Image
  BY DEF Image
<1>3. (CHOOSE i \in Image : TRUE) \in Image
  BY <1>2
<1>4. hw \in [Section -> Image]
  BY <1>3 DEF Init
<1>5. ev \in [Section -> Resource] /\ \A s \in Section : ev[s].desired = None
  BY DEF Init, Empty, Resource
<1>6. TypeOK
  BY <1>4, <1>5, NoDeltaType, NothingWritten, PolicyType DEF Init, TypeOK
<1>7. EvidenceIsTrue
  BY <1>5 DEF EvidenceIsTrue
<1>8. ASSUME NEW p \in Proc PROVE Exclusive(p) /\ Uncommitted(p) /\ Baseline(p)
  BY NothingWritten DEF Init, Exclusive, Outside, Uncommitted, Baseline
<1> QED BY <1>6, <1>7, <1>8 DEF IInv

LEMMA ReturnType ==
    ASSUME TypeOK, NEW p \in Proc, Return(p)
    PROVE  /\ pc' \in [Proc -> {"idle", "waiting", "writing", "commit", "reading", "observe"}]
           /\ oplock' \in Proc \cup {None}
           /\ delta' \in [Proc -> [Section -> {None} \cup Delta]]
           /\ policy' \in [Proc -> Policy]
           /\ base' \in [Proc -> {None} \cup Image]
           /\ wrote' \in [Proc -> [Section -> {None} \cup Image]]
BY NoDeltaType, NothingWritten, PolicyType DEF TypeOK, Return, Goto

\* A step of one process leaves every other one as it was: the other is outside
\* any operation, or it holds the lock and the step touches nothing it relies on.
LEMMA OthersKeep ==
    ASSUME IInv, NEW p \in Proc, NEW q \in Proc \ {p},
           pc'[q] = pc[q] /\ delta'[q] = delta[q] /\ policy'[q] = policy[q],
           base'[q] = base[q] /\ wrote'[q] = wrote[q] /\ moved'[q] = moved[q],
           oplock = q => oplock' = q,
           pc[p] \in Outside => UNCHANGED <<hw, stale>>
    PROVE  Exclusive(q)' /\ Uncommitted(q)' /\ Baseline(q)'
<1>0. Exclusive(p) /\ Exclusive(q) /\ Uncommitted(q) /\ Baseline(q)
  BY DEF IInv
<1>1. Exclusive(q)'
  BY <1>0 DEF Exclusive
<1>2. CASE pc[q] \in Outside
  <2>1. wrote'[q] = NoDelta /\ base'[q] = None /\ pc'[q] # "observe"
    BY <1>0, <1>2 DEF Exclusive, Baseline, Outside
  <2> QED BY <1>1, <2>1, NothingWritten DEF Uncommitted, Baseline
<1>3. CASE pc[q] \notin Outside
  <2>1. UNCHANGED <<hw, stale>>
    BY <1>0, <1>3 DEF Exclusive
  <2>2. Todo(q)' = Todo(q)
    BY DEF Todo
  <2>3. NextSection(q)' = NextSection(q)
    BY <2>2 DEF NextSection
  <2>4. Baseline(q)'
    BY <1>0, <2>1, <2>2, <2>3 DEF Baseline
  <2> QED BY <1>0, <1>1, <2>1, <2>4 DEF Uncommitted
<1> QED BY <1>2, <1>3

\* An operation that is over leaves nothing of its own behind.
LEMMA ReturnKeeps ==
    ASSUME IInv, NEW p \in Proc, Return(p), moved' = moved,
           pc[p] \in Outside => UNCHANGED <<hw, stale>>
    PROVE  \A q \in Proc : Exclusive(q)' /\ Uncommitted(q)' /\ Baseline(q)'
<1>1. pc'[p] = "idle" /\ wrote'[p] = NoDelta /\ base'[p] = None
  BY DEF Return, Goto, IInv, TypeOK
<1>2. Exclusive(p)' /\ Uncommitted(p)' /\ Baseline(p)'
  BY <1>1, NothingWritten DEF Exclusive, Outside, Uncommitted, Baseline
<1>3. ASSUME NEW q \in Proc \ {p} PROVE Exclusive(q)' /\ Uncommitted(q)' /\ Baseline(q)'
  <2>1. /\ pc'[q] = pc[q] /\ delta'[q] = delta[q] /\ policy'[q] = policy[q]
        /\ base'[q] = base[q] /\ wrote'[q] = wrote[q] /\ moved'[q] = moved[q]
        /\ oplock = q => oplock' = q
    BY DEF Return, Goto, IInv, TypeOK
  <2> QED BY <2>1, OthersKeep
<1> QED BY <1>2, <1>3

\* A write sends the mouse an image, to a section the request names.
LEMMA WriteType ==
    ASSUME IInv, NEW p \in Proc, base[p] # None
    PROVE  /\ NextSection(p) \in Todo(p) /\ NextSection(p) \in Section
           /\ delta[p][NextSection(p)] \in Delta /\ base[p] \in Image
           /\ Merge(base[p], delta[p][NextSection(p)]) \in Image
<1>1. TypeOK /\ Todo(p) # {}
  BY DEF IInv, Baseline
<1>2. NextSection(p) \in Todo(p)
  BY <1>1, NextIsTodo
<1>3. NextSection(p) \in Section /\ delta[p][NextSection(p)] \in Delta
  BY <1>1, <1>2, TodoSections
<1>4. base[p] \in Image
  BY <1>1 DEF TypeOK
<1> QED BY <1>2, <1>3, <1>4, MergeImage

\* What a commit leaves as evidence.
LEMMA CommitUpdateRecords ==
    ASSUME TypeOK, NEW p \in Proc, CommitUpdate(p)
    PROVE  /\ ev' \in [Section -> Resource]
           /\ \A s \in Section : IF wrote[p][s] = None THEN ev'[s] = ev[s]
                                 ELSE ev'[s].desired.value = wrote[p][s]
<1> DEFINE new(s) == IF wrote[p][s] = None THEN ev[s]
                     ELSE IF policy[p].readback
                          THEN RecordReadbackWrite(ev[s], wrote[p][s], wrote[p][s], 0)
                          ELSE RecordAckWrite(ev[s], wrote[p][s], 0)
<1>1. ev' = [s \in Section |-> new(s)]
  BY DEF CommitUpdate
<1>2. ASSUME NEW s \in Section
      PROVE  /\ new(s) \in Resource
             /\ wrote[p][s] # None => new(s).desired.value = wrote[p][s]
             /\ wrote[p][s] = None => new(s) = ev[s]
  <2>1. ev[s] \in Resource /\ wrote[p][s] \in {None} \cup Image
    BY DEF TypeOK
  <2> QED BY <2>1, WriteRecords
<1> HIDE DEF new
<1> QED BY <1>1, <1>2

LEMMA CommitReadRecords ==
    ASSUME IInv, NEW p \in Proc, CommitRead(p)
    PROVE  /\ ev' \in [Section -> Resource]
           /\ \A s \in Section : Applied(ev'[s]) => ev'[s].desired.value = wrote[p][s]
<1> DEFINE new(s) == ReconcileObservation(ev[s], wrote[p][s], 0)
<1>1. ev' = [s \in Section |-> new(s)]
  BY DEF CommitRead
<1>2. ASSUME NEW s \in Section
      PROVE  new(s) \in Resource /\ (Applied(new(s)) => new(s).desired.value = wrote[p][s])
  <2>1. ev[s] \in Resource /\ wrote[p][s] \in Image
    BY DEF IInv, TypeOK, Uncommitted, CommitRead
  <2> QED BY <2>1, ReadRecords
<1> HIDE DEF new
<1> QED BY <1>1, <1>2

-----------------------------------------------------------------------------
LEMMA TypeNext == IInv /\ [Next]_vars => TypeOK'
<1> SUFFICES ASSUME IInv, [Next]_vars PROVE TypeOK'
  OBVIOUS
<1>t. TypeOK
  BY DEF IInv
<1> USE <1>t DEF TypeOK
<1>1. ASSUME NEW p \in Proc, NEW d \in [Section -> {None} \cup Delta], NEW q \in Policy,
             BeginUpdate(p, d, q)
      PROVE  TypeOK'
  BY <1>1 DEF BeginUpdate, Goto, mouse
<1>2. ASSUME NEW p \in Proc, BeginRead(p) PROVE TypeOK'
  BY <1>2 DEF BeginRead, Goto, mouse, local
<1>3. ASSUME NEW p \in Proc, AcquireOperationLock(p) PROVE TypeOK'
  BY <1>3 DEF AcquireOperationLock, Goto, mouse, local
<1>4. ASSUME NEW p \in Proc, OperationBusy(p) \/ OperationFails(p) \/ Interrupted(p)
      PROVE  TypeOK'
  BY <1>4, ReturnType DEF OperationBusy, OperationFails, Interrupted, mouse
<1>5. ASSUME NEW p \in Proc, ResolveBaseline(p) PROVE TypeOK'
  <2> DEFINE s == NextSection(p)
  <2>1. s \in Section
    BY <1>5, NextIsTodo, TodoSections DEF ResolveBaseline
  <2>2. hw[s] \in Image /\ draft[p][s] \in {None} \cup Image
    BY <2>1
  <2>3. StoredBaseline(s) \in {None} \cup Image
    <3>1. ev[s] \in Resource
      BY <2>1
    <3> QED BY <3>1 DEF StoredBaseline, Resource, Desired, Observed
  <2>4. policy[p].baseline \in {"Live", "Stored", "Draft"}
    BY BaselinesAssumption DEF Policy
  <2> HIDE DEF s
  <2>5. base' \in [Proc -> {None} \cup Image]
    BY <1>5, <2>2, <2>3, <2>4 DEF ResolveBaseline, s
  <2> QED BY <1>5, <2>5 DEF ResolveBaseline
<1>6. ASSUME NEW p \in Proc, WriteSection(p) PROVE TypeOK'
  BY <1>6, WriteType DEF WriteSection, Goto
<1>7. ASSUME NEW p \in Proc, WriteFails(p) PROVE TypeOK'
  <2>1. hw' \in [Section -> Image] /\ stale' \in SUBSET Section
    BY <1>7, WriteType DEF WriteFails
  <2> QED BY <1>7, <2>1, ReturnType DEF WriteFails
<1>8. ASSUME NEW p \in Proc, CommitUpdate(p) PROVE TypeOK'
  <2>1. ev' \in [Section -> Resource]
    BY <1>8, CommitUpdateRecords
  <2> QED BY <1>8, <2>1, ReturnType DEF CommitUpdate
<1>9. ASSUME NEW p \in Proc, ReadProfile(p) PROVE TypeOK'
  <2>1. hw \in [Section -> {None} \cup Image]
    OBVIOUS
  <2> QED BY <1>9, <2>1 DEF ReadProfile, Goto, mouse
<1>10. ASSUME NEW p \in Proc, CommitRead(p) PROVE TypeOK'
  <2>1. ev' \in [Section -> Resource]
    BY <1>10, CommitReadRecords
  <2> QED BY <1>10, <2>1, ReturnType DEF CommitRead
<1>11. ASSUME NEW s \in Section, NEW v \in Image, TouchMouse(s, v) PROVE TypeOK'
  BY <1>11 DEF TouchMouse, local
<1>12. CASE UNCHANGED vars
  BY <1>12 DEF vars, mouse, local
<1> QED
  BY <1>1, <1>2, <1>3, <1>4, <1>5, <1>6, <1>7, <1>8, <1>9, <1>10, <1>11, <1>12
     DEF Next, Step

\* No step leaves a section whose evidence claims another image than the mouse
\* holds, unless the section is known to have changed.
LEMMA NextEvidence == IInv /\ [Next]_vars => EvidenceIsTrue'
<1> SUFFICES ASSUME IInv, [Next]_vars PROVE EvidenceIsTrue'
  OBVIOUS
<1>t. TypeOK /\ EvidenceIsTrue /\ \A p \in Proc : Uncommitted(p)
  BY DEF IInv
<1>0. ASSUME UNCHANGED <<hw, stale, ev>> PROVE EvidenceIsTrue'
  BY <1>0, <1>t DEF EvidenceIsTrue
<1>1. ASSUME NEW s \in Section, NEW v \in Image, hw' = [hw EXCEPT ![s] = v],
             stale' = stale \cup {s}, ev' = ev
      PROVE  EvidenceIsTrue'
  BY <1>1, <1>t DEF EvidenceIsTrue, TypeOK
<1>2. ASSUME NEW p \in Proc,
             \/ \E d \in [Section -> {None} \cup Delta], q \in Policy : BeginUpdate(p, d, q)
             \/ BeginRead(p) \/ AcquireOperationLock(p) \/ OperationBusy(p)
             \/ ResolveBaseline(p) \/ ReadProfile(p) \/ OperationFails(p) \/ Interrupted(p)
      PROVE  EvidenceIsTrue'
  BY <1>0, <1>2 DEF BeginUpdate, BeginRead, AcquireOperationLock, OperationBusy,
     ResolveBaseline, ReadProfile, OperationFails, Interrupted, mouse
<1>3. ASSUME NEW p \in Proc, WriteSection(p) PROVE EvidenceIsTrue'
  BY <1>1, <1>3, WriteType DEF WriteSection
<1>4. ASSUME NEW p \in Proc, WriteFails(p) PROVE EvidenceIsTrue'
  BY <1>1, <1>4, WriteType DEF WriteFails
<1>5. ASSUME NEW p \in Proc, CommitUpdate(p), NEW s \in Section \ stale', Applied(ev'[s])
      PROVE  ev'[s].desired.value = hw'[s]
  <2>1. hw' = hw /\ hw[s] # None /\ (s \in stale => wrote[p][s] = hw[s])
    BY <1>5, <1>t, AbsentAssumption DEF CommitUpdate, TypeOK
  <2>2. CASE wrote[p][s] = None
    <3>1. ev'[s] = ev[s] /\ s \notin stale
      BY <1>5, <1>t, <2>1, <2>2, CommitUpdateRecords
    <3> QED BY <1>5, <1>t, <2>1, <3>1 DEF EvidenceIsTrue, Applied
  <2>3. CASE wrote[p][s] # None
    <3>1. ev'[s].desired.value = wrote[p][s]
      BY <1>5, <1>t, <2>3, CommitUpdateRecords
    <3>2. wrote[p][s] = hw[s]
      BY <1>t, <2>1, <2>3 DEF Uncommitted
    <3> QED BY <2>1, <3>1, <3>2
  <2> QED BY <2>2, <2>3
<1>6. ASSUME NEW p \in Proc, CommitRead(p), NEW s \in Section \ stale', Applied(ev'[s])
      PROVE  ev'[s].desired.value = hw'[s]
  <2>1. hw' = hw /\ (s \in stale => wrote[p][s] = hw[s]) /\ wrote[p][s] # None
    BY <1>6, <1>t DEF CommitRead, Uncommitted
  <2>2. wrote[p][s] = hw[s]
    BY <1>t, <2>1 DEF Uncommitted
  <2>3. ev'[s].desired.value = wrote[p][s]
    BY <1>6, CommitReadRecords
  <2> QED BY <2>1, <2>2, <2>3
<1>7. ASSUME NEW s \in Section, NEW v \in Image, TouchMouse(s, v) PROVE EvidenceIsTrue'
  BY <1>1, <1>7 DEF TouchMouse
<1>8. CASE UNCHANGED vars
  BY <1>0, <1>8 DEF vars, mouse
<1>9. ASSUME NEW p \in Proc, CommitUpdate(p) \/ CommitRead(p) PROVE EvidenceIsTrue'
  BY <1>5, <1>6, <1>9 DEF EvidenceIsTrue, Applied
<1> QED BY <1>2, <1>3, <1>4, <1>7, <1>8, <1>9 DEF Next, Step

\* The lock keeps every operation to itself, and what it holds in memory true.
LEMMA NextOperations ==
    IInv /\ [Next]_vars => \A q \in Proc : Exclusive(q)' /\ Uncommitted(q)' /\ Baseline(q)'
<1> DEFINE Keeps(q) == Exclusive(q)' /\ Uncommitted(q)' /\ Baseline(q)'
<1> SUFFICES ASSUME IInv, [Next]_vars PROVE \A q \in Proc : Keeps(q)
  OBVIOUS
<1>t. TypeOK /\ \A p \in Proc : Exclusive(p) /\ Uncommitted(p) /\ Baseline(p)
  BY DEF IInv
<1> HIDE DEF Keeps
<1>0. ASSUME NEW p \in Proc, Keeps(p), oplock' = oplock \/ (oplock = None /\ oplock' = p),
             pc[p] \in Outside => UNCHANGED <<hw, stale>>,
             \A q \in Proc \ {p} :
                /\ pc'[q] = pc[q] /\ delta'[q] = delta[q] /\ policy'[q] = policy[q]
                /\ base'[q] = base[q] /\ wrote'[q] = wrote[q] /\ moved'[q] = moved[q]
      PROVE  \A q \in Proc : Keeps(q)
  <2>1. ASSUME NEW q \in Proc \ {p} PROVE Keeps(q)
    <3>1. oplock = q => oplock' = q
      BY <1>0, AbsentAssumption
    <3> QED BY <1>0, <3>1, OthersKeep DEF Keeps
  <2> QED BY <1>0, <2>1
<1>1. ASSUME NEW p \in Proc, NEW d \in [Section -> {None} \cup Delta], NEW q \in Policy,
             BeginUpdate(p, d, q)
      PROVE  \A r \in Proc : Keeps(r)
  <2>1. Keeps(p)
    BY <1>1, <1>t, NothingWritten
       DEF BeginUpdate, Goto, mouse, Keeps, Exclusive, Uncommitted, Baseline, Outside, TypeOK
  <2> QED BY <1>0, <1>1, <1>t, <2>1 DEF BeginUpdate, Goto, mouse, TypeOK
<1>2. ASSUME NEW p \in Proc, BeginRead(p) PROVE \A q \in Proc : Keeps(q)
  <2>1. Keeps(p)
    BY <1>2, <1>t, NothingWritten
       DEF BeginRead, Goto, mouse, local, Keeps, Exclusive, Uncommitted, Baseline, Outside, TypeOK
  <2> QED BY <1>0, <1>2, <1>t, <2>1 DEF BeginRead, Goto, mouse, local, TypeOK
<1>3. ASSUME NEW p \in Proc, AcquireOperationLock(p) PROVE \A q \in Proc : Keeps(q)
  <2>1. Keeps(p)
    BY <1>3, <1>t, NothingWritten
       DEF AcquireOperationLock, Goto, mouse, local, Keeps, Exclusive, Uncommitted, Baseline,
           Outside, TypeOK
  <2> QED BY <1>0, <1>3, <1>t, <2>1 DEF AcquireOperationLock, Goto, mouse, local, TypeOK
<1>4. ASSUME NEW p \in Proc,
             \/ OperationBusy(p) \/ OperationFails(p) \/ Interrupted(p)
             \/ WriteFails(p) \/ CommitUpdate(p) \/ CommitRead(p)
      PROVE  \A q \in Proc : Keeps(q)
  <2>1. Return(p) /\ moved' = moved /\ (pc[p] \in Outside => UNCHANGED <<hw, stale>>)
    BY <1>4 DEF OperationBusy, OperationFails, Interrupted, WriteFails, CommitUpdate,
       CommitRead, mouse, Outside
  <2> QED BY <2>1, ReturnKeeps DEF Keeps
<1>5. ASSUME NEW p \in Proc, ResolveBaseline(p) PROVE \A q \in Proc : Keeps(q)
  <2> DEFINE s == NextSection(p)
  <2>1. /\ pc' = pc /\ pc[p] = "writing" /\ oplock' = oplock /\ UNCHANGED <<hw, stale>>
        /\ wrote' = wrote /\ delta' = delta /\ policy' = policy /\ Todo(p) # {}
        /\ policy[p].baseline = "Live" => base'[p] = hw[s]
    BY <1>5, <1>t DEF ResolveBaseline, TypeOK
  <2>2. Todo(p)' = Todo(p)
    BY <2>1 DEF Todo
  <2>3. NextSection(p)' = s
    BY <2>2 DEF NextSection
  <2> HIDE DEF s
  <2>4. Baseline(p)'
    BY <2>1, <2>2, <2>3 DEF Baseline
  <2>5. Keeps(p)
    BY <1>t, <2>1, <2>4 DEF Keeps, Exclusive, Uncommitted, Outside
  <2> QED BY <1>0, <1>5, <1>t, <2>1, <2>5 DEF ResolveBaseline, TypeOK
<1>6. ASSUME NEW p \in Proc, WriteSection(p) PROVE \A q \in Proc : Keeps(q)
  <2> DEFINE s == NextSection(p)
             v == Merge(base[p], delta[p][s])
  <2>1. s \in Section /\ v \in Image
    BY <1>6, WriteType DEF WriteSection
  <2>2. /\ pc[p] = "writing" /\ pc'[p] \in {"writing", "commit"} /\ oplock' = oplock
        /\ hw' = [hw EXCEPT ![s] = v] /\ wrote' = [wrote EXCEPT ![p][s] = v]
        /\ stale' = stale \cup {s} /\ base'[p] = None
    BY <1>6, <1>t DEF WriteSection, Goto, TypeOK
  <2> HIDE DEF s, v
  <2>3. Uncommitted(p)'
    BY <1>t, <2>1, <2>2 DEF Uncommitted, TypeOK
  <2>4. Keeps(p)
    BY <1>t, <2>2, <2>3 DEF Keeps, Exclusive, Baseline, Outside
  <2> QED BY <1>0, <1>6, <1>t, <2>2, <2>4 DEF WriteSection, Goto, TypeOK, Outside
<1>7. ASSUME NEW p \in Proc, ReadProfile(p) PROVE \A q \in Proc : Keeps(q)
  <2>1. /\ pc[p] = "reading" /\ pc'[p] = "observe" /\ wrote'[p] = hw /\ UNCHANGED <<hw, stale>>
        /\ oplock' = oplock /\ base' = base /\ delta' = delta /\ policy' = policy
    BY <1>7, <1>t DEF ReadProfile, Goto, mouse, TypeOK
  <2>2. base[p] = None
    BY <1>t, <2>1 DEF Baseline
  <2>3. Exclusive(p)' /\ Baseline(p)'
    BY <1>t, <2>1, <2>2 DEF Exclusive, Baseline, Outside
  <2>4. Uncommitted(p)'
    BY <1>t, <2>1, AbsentAssumption DEF Uncommitted, TypeOK
  <2>5. Keeps(p)
    BY <2>3, <2>4 DEF Keeps
  <2> QED BY <1>0, <1>7, <1>t, <2>1, <2>5 DEF ReadProfile, Goto, mouse, TypeOK
<1>8. ASSUME NEW s \in Section, NEW v \in Image, TouchMouse(s, v), NEW q \in Proc
      PROVE  Keeps(q)
  <2>1. moved'[q] = TRUE /\ UNCHANGED <<pc, oplock, wrote, base, delta, policy>>
    BY <1>8 DEF TouchMouse, local
  <2>2. hw' = [hw EXCEPT ![s] = v] /\ stale' = stale \cup {s}
    BY <1>8 DEF TouchMouse
  <2>3. Todo(q)' = Todo(q)
    BY <2>1 DEF Todo
  <2> QED BY <1>t, <2>1, <2>2, <2>3 DEF Keeps, Exclusive, Uncommitted, Baseline, TypeOK
<1>9. ASSUME UNCHANGED vars, NEW q \in Proc PROVE Keeps(q)
  <2>1. Todo(q)' = Todo(q)
    BY <1>9 DEF Todo, vars, local
  <2>2. NextSection(q)' = NextSection(q)
    BY <2>1 DEF NextSection
  <2> QED
    BY <1>9, <1>t, <2>1, <2>2
       DEF Keeps, Exclusive, Uncommitted, Baseline, vars, mouse, local
<1> QED
  BY <1>1, <1>2, <1>3, <1>4, <1>5, <1>6, <1>7, <1>8, <1>9 DEF Next, Step

-----------------------------------------------------------------------------
\* The operation lock keeps every operation to itself in every reachable state.
THEOREM Invariance == Spec => []IInv
<1>1. IInv /\ [Next]_vars => IInv'
  BY TypeNext, NextEvidence, NextOperations DEF IInv
<1> QED BY InvInit, <1>1, PTL DEF Spec

\* Evidence that claims a section was applied names what the mouse holds, unless
\* the section was changed since the evidence was committed: the guard from
\* open_locked to the commit leaves no interleaving of two updates, or of an
\* update and a read, that records the one and leaves the image of the other.
THEOREM EvidenceNamesTheMouse == Spec => []EvidenceIsTrue
<1>1. IInv => EvidenceIsTrue
  BY DEF IInv
<1> QED BY Invariance, <1>1, PTL

\* An update on a live baseline changes no field of a section that its request
\* does not name: whatever the other processes do, no update of theirs is lost.
THEOREM NoUpdateIsLost == Spec => LiveWriteKeepsRest
<1> DEFINE Kept == \A p \in Proc, s \in Section :
                      (WriteSection(p) /\ s = NextSection(p)
                          /\ policy[p].baseline = "Live" /\ ~moved[p])
                      => \A f \in Field \ DOMAIN delta[p][s] : hw'[s][f] = hw[s][f]
<1>1. IInv => Kept
  <2> SUFFICES ASSUME IInv, NEW p \in Proc, WriteSection(p),
                      policy[p].baseline = "Live", ~moved[p],
                      NEW f \in Field \ DOMAIN delta[p][NextSection(p)]
               PROVE  hw'[NextSection(p)][f] = hw[NextSection(p)][f]
    OBVIOUS
  <2>1. base[p] # None /\ TypeOK /\ Baseline(p)
    BY DEF WriteSection, IInv
  <2>2. /\ NextSection(p) \in Section
        /\ delta[p][NextSection(p)] \in Delta /\ base[p] \in Image
    BY <2>1, WriteType
  <2>3. base[p] = hw[NextSection(p)]
    BY <2>1 DEF Baseline
  <2>4. hw'[NextSection(p)] = Merge(base[p], delta[p][NextSection(p)])
    BY <2>1, <2>2 DEF WriteSection, TypeOK
  <2> QED BY <2>2, <2>3, <2>4, MergeImage
<1>2. IInv /\ [Next]_vars => [Kept]_vars
  BY <1>1
<1> HIDE DEF Kept
<1>3. Spec => [][Kept]_vars
  BY Invariance, <1>2, PTL DEF Spec
<1> QED BY <1>3 DEF Kept, LiveWriteKeepsRest

=============================================================================
