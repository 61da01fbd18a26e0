------------------------ MODULE IdentityCeremonyProofs ------------------------
(***************************************************************************)
(* No token reaches a second mouse, but by a call that stamps a mouse the  *)
(* user exchanged for the one captured: for any number of processes, mice, *)
(* profiles and ceremonies, and whichever calls fail.  As long as one      *)
(* process runs the ceremonies, besides, every device of a persistent      *)
(* installation is stamped, but those of such a call, every stamp is       *)
(* recorded and every ceremony resumed.                                    *)
(***************************************************************************)
EXTENDS IdentityCeremony, FiniteSetTheorems, WellFoundedInduction, TLAPS

Subjects == IF st.journal = None THEN <<>> ELSE st.journal.subjects

DevicesOK(s) ==
    /\ s = [mode |-> s.mode, devices |-> s.devices, ble |-> s.ble, next |-> s.next,
            journal |-> s.journal]
    /\ DOMAIN s.devices \subseteq Nat /\ s.next \in Nat
    /\ \A d \in DOMAIN s.devices : s.devices[d] \in Token \cup {None}
StateOK(s) == DevicesOK(s) /\ s.journal \in Journal \cup {None}

\* What each call of the ceremony carries from one step to the next.
AtWork == {"write", "progress", "advance"}
Stampers == {"mint", "open"} \cup AtWork
WorkOK(work) ==
    /\ work = [pc |-> work.pc, unit |-> work.unit, token |-> work.token,
               pending |-> work.pending, phase |-> work.phase, second |-> work.second]
    /\ work.unit \in Unit /\ work.token \in Token /\ work.pending \in SUBSET Profile
JobOK(p) ==
    /\ job[p].pc = "begin" => job[p].phase \in Phases
    /\ job[p].pc = "capture" => job[p].subject \in Subject
    /\ job[p].pc = "mint" => job[p].token \in Token
    /\ job[p].pc \in AtWork => WorkOK(job[p])
    /\ job[p].pc \in {"write", "progress"} => job[p].pending # {}
    /\ job[p].pc = "progress" => Cardinality(job[p].pending) # 1

CeremonyType ==
    /\ mark \in [Unit -> [Profile -> Token \cup {None}]]
    /\ port \in Unit \cup {None}
    /\ job = [p \in Proc |-> job[p]]
    /\ used \in SUBSET Token
    /\ StateOK(st)
    /\ \A p \in Proc : JobOK(p)

Stamping == st.journal # None /\ st.journal.stage = "Stamping"

\* A token that a mouse carries, or that a journal or a call intends for it.
Marked(t, u) == \E q \in Profile : mark[u][q] = t
Reserved(t, u) ==
    \E i \in DOMAIN Subjects : Subjects[i].who = u /\ Subjects[i].token = t
Carried(p, t, u) ==
    \/ job[p].pc = "capture" /\ job[p].subject.who = u /\ job[p].subject.token = t
    \/ job[p].pc \in {"write", "progress"} /\ job[p].unit = u /\ job[p].token = t
Bound(t, u) == Marked(t, u) \/ Reserved(t, u) \/ \E p \in Proc : Carried(p, t, u)

\* Every token that no call strayed with has one mouse, and a minted one none
\* before its commit.
OneMouse ==
    /\ \A t \in Token \ strayed, u, v \in Unit : Bound(t, u) /\ Bound(t, v) => u = v
    /\ \A t \in Token, u \in Unit : Bound(t, u) => t \in used
Minted ==
    /\ \A p \in Proc, t \in Token :
          job[p].pc = "mint" /\ job[p].token = t
             => t \in used /\ \A u \in Unit : ~Bound(t, u)
    /\ \A p, r \in Proc :
          job[p].pc = "mint" /\ job[r].pc = "mint" /\ job[p].token = job[r].token => p = r

IInv ==
    /\ CeremonyType /\ OneMouse /\ Minted
-----------------------------------------------------------------------------
(* What a step does to the journal: the subjects stay the mice and tokens they *)
(* are, or all of them are gone.                                               *)

Kept ==
    /\ Len(Subjects') = Len(Subjects)
    /\ \A i \in 1..Len(Subjects) : /\ Subjects[i].who = Subjects'[i].who
                                   /\ Subjects[i].token = Subjects'[i].token
Cleared == Subjects' = <<>>

LEMMA SubjectsType ==
    ASSUME StateOK(st)
    PROVE  Subjects \in Seq(Subject)
BY DEF StateOK, Subjects, Journal

LEMMA Unmoved ==
    ASSUME StateOK(st), UNCHANGED st
    PROVE  Kept /\ StateOK(st)'
BY SubjectsType DEF Kept, Subjects, StateOK

\* The processes that are not taking the step keep their calls.
LEMMA OtherJobs ==
    ASSUME NEW p \in Proc, NEW x, job = [r \in Proc |-> job[r]], Become(p, x),
           \A r \in Proc : JobOK(r)
    PROVE  /\ job' = [r \in Proc |-> job'[r]] /\ job'[p] = x
           /\ \A r \in Proc : r # p => job'[r] = job[r]
           /\ \A r \in Proc : r # p => JobOK(r)'
<1>1. /\ job' = [r \in Proc |-> job'[r]] /\ job'[p] = x
      /\ \A r \in Proc : r # p => job'[r] = job[r]
  BY DEF Become
<1>2. \A r \in Proc : r # p => JobOK(r)'
  BY <1>1 DEF JobOK
<1> QED BY <1>1, <1>2

\* A token that a step strays with, of those that some mouse is bound to.
Loosed(t) == t \in strayed' /\ \E w \in Unit : Bound(t, w)

\* A step that gives no other token to a mouse it was not bound to, and mints none.
LEMMA Bonds ==
    ASSUME IInv, used \subseteq used', strayed \subseteq strayed',
           \A t \in Token, u \in Unit : Bound(t, u)' => Bound(t, u) \/ Loosed(t),
           \A r \in Proc : job'[r].pc = "mint" => job[r].pc = "mint" /\ job'[r].token = job[r].token
    PROVE  OneMouse' /\ Minted'
<1>1. OneMouse'
  <2>1. ASSUME NEW t \in Token, t \notin strayed', NEW u \in Unit, NEW v \in Unit,
               Bound(t, u)', Bound(t, v)'
        PROVE  u = v
    BY <2>1 DEF IInv, OneMouse, Loosed
  <2>2. ASSUME NEW t \in Token, NEW u \in Unit, Bound(t, u)' PROVE t \in used'
    BY <2>2 DEF IInv, OneMouse, Loosed
  <2> QED BY <2>1, <2>2 DEF OneMouse
<1>2. Minted'
  <2>1. ASSUME NEW r \in Proc, NEW t \in Token, job'[r].pc = "mint", job'[r].token = t
        PROVE  t \in used' /\ \A u \in Unit : ~Bound(t, u)'
    BY <2>1 DEF IInv, Minted, Loosed
  <2>2. ASSUME NEW r \in Proc, NEW q \in Proc, job'[r].pc = "mint", job'[q].pc = "mint",
               job'[r].token = job'[q].token
        PROVE  r = q
    BY <2>2 DEF IInv, Minted
  <2> QED BY <2>1, <2>2 DEF Minted
<1> QED BY <1>1, <1>2
-----------------------------------------------------------------------------
(* The transactions. *)

LEMMA NewDevices ==
    ASSUME NEW s, NEW mode, NEW ble, NEW next \in Nat, NEW devices,
           DOMAIN devices \subseteq Nat,
           \A d \in DOMAIN devices : devices[d] \in Token \cup {None},
           s = [mode |-> mode, devices |-> devices, ble |-> ble, next |-> next, journal |-> None]
    PROVE  StateOK(s) /\ s.journal = None
<1>1. /\ s.mode = mode /\ s.devices = devices /\ s.ble = ble /\ s.next = next
      /\ s.journal = None
  OBVIOUS
<1> QED BY <1>1 DEF StateOK, DevicesOK

LEMMA AddedDevice ==
    ASSUME NEW s, DevicesOK(s), s.journal = None, NEW t \in Token \cup {None}
    PROVE  StateOK(AddDevice(s, t)) /\ AddDevice(s, t).journal = None
<1> DEFINE f == [d \in DOMAIN s.devices \cup {s.next} |-> IF d = s.next THEN t ELSE s.devices[d]]
           next == s.next + 1
<1>1. DOMAIN f \subseteq Nat /\ \A d \in DOMAIN f : f[d] \in Token \cup {None}
  BY DEF DevicesOK
<1>2. next \in Nat
  BY DEF DevicesOK
<1>3. AddDevice(s, t) = [s EXCEPT !.devices = f, !.next = next]
  BY DEF AddDevice
<1> HIDE DEF f, next
<1>4. AddDevice(s, t) =
         [mode |-> s.mode, devices |-> f, ble |-> s.ble, next |-> next, journal |-> None]
  BY <1>3 DEF DevicesOK
<1> QED BY <1>1, <1>2, <1>4, NewDevices

LEMMA EnrolledDevices ==
    ASSUME NEW s, DevicesOK(s), s.journal = None, NEW subjects \in Seq(Subject)
    PROVE  /\ StateOK(FinalizeInitialEnrollment(s, subjects))
           /\ FinalizeInitialEnrollment(s, subjects).journal = None
<1> DEFINE f == [d \in s.next..(s.next + Len(subjects) - 1) |-> subjects[d - s.next + 1].token]
           next == s.next + Len(subjects)
           r == FinalizeInitialEnrollment(s, subjects)
<1>1. DOMAIN f \subseteq Nat /\ next \in Nat
  BY DEF DevicesOK
<1>2. ASSUME NEW d \in DOMAIN f PROVE f[d] \in Token \cup {None}
  <2>1. subjects[d - s.next + 1] \in Subject
    BY DEF DevicesOK
  <2> QED BY <2>1 DEF Subject
<1>3. r = [s EXCEPT !.mode = "Persistent", !.ble = None, !.devices = f, !.next = next]
  BY DEF FinalizeInitialEnrollment
<1> HIDE DEF f, next, r
<1>4. r = [mode |-> "Persistent", devices |-> f, ble |-> None, next |-> next, journal |-> None]
  BY <1>3 DEF DevicesOK
<1>5. StateOK(r) /\ r.journal = None
  BY <1>1, <1>2, <1>4, NewDevices
<1> QED BY <1>5 DEF r

LEMMA FirstSubject ==
    ASSUME NEW subjects \in Seq(Subject), subjects # <<>>
    PROVE  subjects[1].token \in Token \cup {None}
<1>1. subjects[1] \in Subject
  OBVIOUS
<1> QED BY <1>1 DEF Subject

\* finalize_ceremony leaves no journal, and devices with the subjects' tokens.
LEMMA FinalizedState ==
    ASSUME NEW s, DevicesOK(s), s.journal.phase \in Phases,
           s.journal.phase # "BleAssociation" => s.journal.subjects \in Seq(Subject),
           s.journal.phase # "InitialEnrollment" => s.journal.subjects # <<>>
    PROVE  StateOK(FinalizeCeremony(s)) /\ FinalizeCeremony(s).journal = None
<1> DEFINE j == s.journal
           subject == j.subjects[1]
           cleared == [s EXCEPT !.journal = None]
<1>1. DevicesOK(cleared) /\ cleared.journal = None /\ cleared.devices = s.devices
  BY DEF DevicesOK
<1>2. CASE j.phase = "InitialEnrollment"
  BY <1>1, <1>2, EnrolledDevices DEF FinalizeCeremony
<1>3. CASE j.phase \in {"AddMouse", "ForeignAdoption"}
  <2>1. subject.token \in Token \cup {None}
    BY <1>3, FirstSubject
  <2> QED BY <1>1, <1>3, <2>1, AddedDevice DEF FinalizeCeremony
<1>4. CASE j.phase = "Restore"
  <2>1. subject.token \in Token \cup {None}
    BY <1>4, FirstSubject
  <2> DEFINE f == [s.devices EXCEPT ![subject.device] = subject.token]
             b == IF s.ble = subject.device THEN None ELSE s.ble
  <2>2. DOMAIN f \subseteq Nat /\ \A d \in DOMAIN f : f[d] \in Token \cup {None}
    BY <2>1 DEF DevicesOK
  <2>3. FinalizeCeremony(s) = [cleared EXCEPT !.devices = f, !.ble = b]
    BY <1>4 DEF FinalizeCeremony, DevicesOK
  <2> HIDE DEF f, b
  <2>4. FinalizeCeremony(s) =
           [mode |-> s.mode, devices |-> f, ble |-> b, next |-> s.next, journal |-> None]
    BY <2>3 DEF DevicesOK
  <2> QED BY <2>2, <2>4 DEF StateOK, DevicesOK
<1>5. CASE j.phase = "BleAssociation"
  BY <1>1, <1>5 DEF FinalizeCeremony, StateOK, DevicesOK
<1> QED BY <1>2, <1>3, <1>4, <1>5, PhasesAssumption

\* A commit either keeps the state or makes it the one it proposes.
LEMMA Commits ==
    ASSUME NEW p \in Proc, NEW s, NEW next, Commit(p, s, next)
    PROVE  \/ st' = s /\ Become(p, next)
           \/ UNCHANGED st /\ Become(p, Idle)
BY DEF Commit

\* A state whose journal is gone.
LEMMA ClearedState ==
    ASSUME st'.journal = None
    PROVE  Cleared
BY DEF Cleared, Subjects

\* The progress of the last subject, and the stage that may go with it.
LEMMA StampedState ==
    ASSUME StateOK(st), ~LostSubject, NEW qs \in SUBSET Profile, NEW s,
           NEW stage \in {st.journal.stage, "AwaitingCapture", "Finalizing"},
           s = [st EXCEPT !.journal.subjects[Len(st.journal.subjects)] = MarkStamped(@, qs),
                          !.journal.stage = stage]
    PROVE  /\ StateOK(s) /\ s.journal \in Journal
           /\ s.journal.subjects # <<>>
           /\ st' = s => Kept \/ Cleared
<1> DEFINE j == st.journal
           n == Len(j.subjects)
           new == [j.subjects EXCEPT ![n] = MarkStamped(@, qs)]
<1>1. j \in Journal /\ j.subjects \in Seq(Subject) /\ j.subjects # <<>> /\ n \in 1..n
  BY DEF StateOK, LostSubject, Journal
<1>2. \A subject \in Subject : /\ MarkStamped(subject, qs) \in Subject
                              /\ MarkStamped(subject, qs).who = subject.who
                              /\ MarkStamped(subject, qs).token = subject.token
  BY DEF MarkStamped, Subject
<1>3. /\ new \in Seq(Subject) /\ Len(new) = n
      /\ \A i \in 1..n : new[i].who = j.subjects[i].who /\ new[i].token = j.subjects[i].token
  BY <1>1, <1>2
<1>4. s = [st EXCEPT !.journal = [j EXCEPT !.subjects = new, !.stage = stage]]
  BY DEF StateOK, DevicesOK
<1>5. stage \in {"AwaitingCapture", "Stamping", "Finalizing"}
  BY <1>1 DEF Journal
<1>6. [j EXCEPT !.subjects = new, !.stage = stage] \in Journal
  BY <1>1, <1>3, <1>5 DEF Journal
<1> HIDE DEF new
<1>7. s.journal = [j EXCEPT !.subjects = new, !.stage = stage]
  BY <1>4 DEF StateOK, DevicesOK
<1>8. s.journal.subjects = new /\ s.journal.stage = stage /\ s.journal.phase = j.phase
  BY ZenonT(40), <1>1, <1>7 DEF Journal
<1>9. StateOK(s)
  BY <1>4, <1>6 DEF StateOK, DevicesOK
<1>10. ASSUME st' = s PROVE Kept \/ Cleared
  <2>1. st.journal # None /\ Subjects = j.subjects
    BY DEF LostSubject, Subjects
  <2>2. CASE st'.journal = None
    BY <2>2, ClearedState
  <2>3. CASE st'.journal # None
    <3>1. Subjects' = new
      BY <1>8, <1>10, <2>3 DEF Subjects
    <3> QED BY <1>3, <2>1, <3>1 DEF Kept
  <2> QED BY <2>2, <2>3
<1> QED BY <1>1, <1>3, <1>6, <1>7, <1>8, <1>9, <1>10
-----------------------------------------------------------------------------
(* The steps of a call that mints no token. *)

\* The invariant depends on the call of the process that takes the step, on the
\* journal it leaves and on the marks it writes.
LEMMA Steady ==
    ASSUME IInv, NEW p \in Proc, NEW x, Become(p, x), UNCHANGED <<port, used>>,
           strayed \subseteq strayed',
           mark' \in [Unit -> [Profile -> Token \cup {None}]],
           StateOK(st)', JobOK(p)', x.pc # "mint",
           \A t \in Token, u \in Unit :
              Marked(t, u)' \/ Reserved(t, u)' \/ Carried(p, t, u)' => Bound(t, u) \/ Loosed(t)
    PROVE  IInv'
<1>1. /\ job' = [r \in Proc |-> job'[r]] /\ job'[p] = x
      /\ \A r \in Proc : r # p => job'[r] = job[r]
      /\ \A r \in Proc : r # p => JobOK(r)'
  BY OtherJobs DEF IInv, CeremonyType
<1>2. CeremonyType'
  BY <1>1 DEF IInv, CeremonyType
<1>3. ASSUME NEW t \in Token, NEW u \in Unit, Bound(t, u)' PROVE Bound(t, u) \/ Loosed(t)
  <2>1. ASSUME NEW r \in Proc, Carried(r, t, u)' PROVE Bound(t, u) \/ Loosed(t)
    <3>1. CASE r = p
      BY <2>1, <3>1
    <3>2. CASE r # p
      <4>1. Carried(r, t, u)
        BY <1>1, <2>1, <3>2 DEF Carried
      <4> QED BY <4>1 DEF Bound
    <3> QED BY <3>1, <3>2
  <2> QED BY <1>3, <2>1 DEF Bound
<1>4. OneMouse' /\ Minted'
  BY <1>1, <1>3, Bonds
<1> QED BY <1>2, <1>4 DEF IInv

\* The subjects reserve the tokens they reserved.
LEMMA KeptReserves ==
    ASSUME IInv, StateOK(st)', Kept \/ Cleared, NEW t, NEW u, Reserved(t, u)'
    PROVE  Reserved(t, u)
<1>1. Subjects \in Seq(Subject) /\ Subjects' \in Seq(Subject)
  BY SubjectsType DEF IInv, CeremonyType, StateOK, Subjects, Journal
<1>2. PICK i \in DOMAIN Subjects' : Subjects'[i].who = u /\ Subjects'[i].token = t
  BY DEF Reserved
<1>3. Kept /\ i \in 1..Len(Subjects)
  BY <1>1, <1>2 DEF Kept, Cleared
<1> QED BY <1>1, <1>2, <1>3 DEF Kept, Reserved

\* A step that touches neither the mice nor the journal's subjects.
LEMMA QuietStep ==
    ASSUME IInv, NEW p \in Proc, NEW x, Become(p, x), UNCHANGED <<mark, port, used>>,
           strayed \subseteq strayed',
           StateOK(st)', Kept \/ Cleared, JobOK(p)', x.pc # "mint",
           \A t \in Token, u \in Unit : Carried(p, t, u)' => Bound(t, u) \/ Loosed(t)
    PROVE  IInv'
<1>1. mark' \in [Unit -> [Profile -> Token \cup {None}]]
  BY DEF IInv, CeremonyType
<1>2. ASSUME NEW t \in Token, NEW u \in Unit,
             Marked(t, u)' \/ Reserved(t, u)' \/ Carried(p, t, u)'
      PROVE  Bound(t, u) \/ Loosed(t)
  <2>1. CASE Marked(t, u)'
    BY <2>1 DEF Marked, Bound
  <2>2. CASE Reserved(t, u)'
    BY <2>2, KeptReserves DEF Bound
  <2> QED BY <1>2, <2>1, <2>2
<1> QED BY <1>1, <1>2, Steady

\* The same for a call that has nothing to stamp next.
LEMMA IdleStep ==
    ASSUME IInv, NEW p \in Proc, NEW x, Become(p, x), UNCHANGED <<mark, port, used>>,
           strayed \subseteq strayed', StateOK(st)', Kept \/ Cleared,
           x.pc = "begin" => x.phase \in Phases,
           x.pc \notin {"capture"} \cup Stampers
    PROVE  IInv'
<1>1. job'[p] = x
  BY OtherJobs DEF IInv, CeremonyType
<1>2. JobOK(p)' /\ x.pc # "mint" /\ x.pc # "capture" /\ x.pc \notin AtWork
  BY <1>1 DEF JobOK, Stampers, AtWork
<1>3. \A t \in Token, u \in Unit : ~Carried(p, t, u)'
  BY <1>1, <1>2 DEF Carried, AtWork
<1> QED BY <1>2, <1>3, QuietStep
-----------------------------------------------------------------------------
(* One lemma for each step of a ceremony. *)

LEMMA IdleNow ==
    /\ Idle.pc = "idle"
    /\ Idle.pc \notin {"begin", "capture"} \cup Stampers
BY DEF Idle, Stampers, AtWork

\* The checks of begin, finalize and cancel read the state only.
LEMMA ChecksKeep ==
    ASSUME IInv, NEW p \in Proc,
           \/ \E phase \in Phases : BeginCheck(p, phase)
           \/ FinalizeCheck(p) \/ CancelCheck(p) \/ CallFails(p)
    PROVE  IInv'
<1>1. Kept /\ StateOK(st)' /\ UNCHANGED <<mark, port, used, strayed>>
  BY Unmoved DEF IInv, CeremonyType, BeginCheck, FinalizeCheck, CancelCheck, CallFails
<1>2. ASSUME NEW phase \in Phases, BeginCheck(p, phase) PROVE IInv'
  <2> DEFINE x == [pc |-> "begin", phase |-> phase]
  <2>1. Become(p, x) /\ x.phase \in Phases /\ x.pc \notin {"capture"} \cup Stampers
    BY <1>2 DEF BeginCheck, Stampers, AtWork
  <2> HIDE DEF x
  <2> QED BY <1>1, <2>1, IdleStep
<1>3. CASE FinalizeCheck(p)
  <2> DEFINE x == [pc |-> "finalize"]
  <2>1. Become(p, x) /\ x.pc # "begin" /\ x.pc \notin {"capture"} \cup Stampers
    BY <1>3 DEF FinalizeCheck, Stampers, AtWork
  <2> HIDE DEF x
  <2> QED BY <1>1, <2>1, IdleStep
<1>4. CASE CancelCheck(p)
  <2> DEFINE x == [pc |-> "cancel"]
  <2>1. Become(p, x) /\ x.pc # "begin" /\ x.pc \notin {"capture"} \cup Stampers
    BY <1>4 DEF CancelCheck, Stampers, AtWork
  <2> HIDE DEF x
  <2> QED BY <1>1, <2>1, IdleStep
<1>5. CASE CallFails(p)
  BY <1>1, <1>5, IdleNow, IdleStep DEF CallFails
<1> QED BY <1>2, <1>3, <1>4, <1>5

\* A call that ends with a commit, of a state without a journal or of one whose
\* subjects are kept or gone.
LEMMA EndsWith ==
    ASSUME IInv, NEW p \in Proc, UNCHANGED <<mark, port, used, strayed>>,
           NEW s, StateOK(s), Commit(p, s, Idle), st' = s => Kept \/ Cleared
    PROVE  IInv'
<1>1. Become(p, Idle) /\ (st' = s \/ UNCHANGED st)
  BY DEF Commit
<1>2. StateOK(st)' /\ (Kept \/ Cleared)
  <2>1. CASE UNCHANGED st
    BY <2>1, Unmoved DEF IInv, CeremonyType
  <2>2. CASE st' = s
    BY <2>2 DEF StateOK, DevicesOK
  <2> QED BY <1>1, <2>1, <2>2
<1> QED BY <1>1, <1>2, IdleNow, IdleStep

LEMMA EndsUnmoved ==
    ASSUME IInv, NEW p \in Proc, Become(p, Idle), UNCHANGED <<mark, port, used, st>>,
           strayed \subseteq strayed'
    PROVE  IInv'
<1>1. Kept /\ StateOK(st)'
  BY Unmoved DEF IInv, CeremonyType
<1> QED BY <1>1, IdleNow, IdleStep

LEMMA BeginCommitKeeps ==
    ASSUME IInv, NEW p \in Proc, BeginCommit(p)
    PROVE  IInv'
<1> DEFINE j == [phase |-> job[p].phase, stage |-> "AwaitingCapture", subjects |-> <<>>]
           s == [st EXCEPT !.journal = j]
<1>1. j \in Journal /\ j.subjects = <<>>
  BY DEF BeginCommit, IInv, CeremonyType, JobOK, Journal
<1>2. Commit(p, s, Idle) /\ UNCHANGED <<mark, port, used, strayed>>
  BY DEF BeginCommit
<1> HIDE DEF j
<1>3. StateOK(s) /\ s.journal = j
  BY <1>1 DEF IInv, CeremonyType, StateOK, DevicesOK
<1>4. st' = s => Cleared
  BY <1>1, <1>3 DEF Cleared, Subjects
<1> HIDE DEF s
<1> QED BY <1>2, <1>3, <1>4, EndsWith

LEMMA CancelCommitKeeps ==
    ASSUME IInv, NEW p \in Proc, CancelCommit(p)
    PROVE  IInv'
<1> DEFINE s == [st EXCEPT !.journal = None]
<1>1. StateOK(s) /\ s.journal = None
  BY DEF IInv, CeremonyType, StateOK, DevicesOK
<1>2. Commit(p, s, Idle) /\ UNCHANGED <<mark, port, used, strayed>>
  BY DEF CancelCommit
<1> HIDE DEF s
<1> QED BY <1>1, <1>2, ClearedState, EndsWith

LEMMA FinalizeCommitKeeps ==
    ASSUME IInv, NEW p \in Proc, FinalizeCommit(p)
    PROVE  IInv'
<1>1. CASE st.journal = None \/ Unfinalizable(st.journal)
  BY <1>1, EndsUnmoved DEF FinalizeCommit
<1>2. CASE ~(st.journal = None \/ Unfinalizable(st.journal))
  <2> DEFINE s == FinalizeCeremony(st)
  <2>1. StateOK(s) /\ s.journal = None
    BY <1>2, FinalizedState DEF IInv, CeremonyType, StateOK, Journal, Unfinalizable
  <2>2. Commit(p, s, Idle) /\ UNCHANGED <<mark, port, used, strayed>>
    BY <1>2 DEF FinalizeCommit
  <2> HIDE DEF s
  <2> QED BY <2>1, <2>2, ClearedState, EndsWith
<1> QED BY <1>1, <1>2

\* The subject of a Bluetooth association goes with its journal.
LEMMA AssociateKeeps ==
    ASSUME IInv, NEW p \in Proc, NEW d \in DOMAIN st.devices, Associate(p, d)
    PROVE  IInv'
<1> DEFINE subject == [who |-> None, device |-> d, old |-> None, token |-> None, done |-> {}]
           j == [st.journal EXCEPT !.subjects = <<subject>>, !.stage = "Finalizing"]
           s == [st EXCEPT !.journal.subjects = <<subject>>, !.journal.stage = "Finalizing"]
<1>1. st.journal \in Journal /\ st.journal.phase = "BleAssociation"
  BY DEF Associate, IInv, CeremonyType, StateOK
<1>2. j.phase = "BleAssociation" /\ j.subjects = <<subject>>
  BY <1>1 DEF Journal
<1>3. s = [st EXCEPT !.journal = j]
  BY DEF IInv, CeremonyType, StateOK, DevicesOK
<1>4. Commit(p, FinalizeCeremony(s), Idle) /\ UNCHANGED <<mark, port, used, strayed>>
  BY DEF Associate
<1> HIDE DEF j, s
<1>5. DevicesOK(s) /\ s.journal = j
  BY <1>3 DEF IInv, CeremonyType, StateOK, DevicesOK
<1>6. "BleAssociation" \in Phases
  BY <1>1 DEF Journal
<1>7. StateOK(FinalizeCeremony(s)) /\ FinalizeCeremony(s).journal = None
  BY SMTT(30), <1>2, <1>5, <1>6, FinalizedState
<1> QED BY <1>4, <1>7, ClearedState, EndsWith
-----------------------------------------------------------------------------
(* ceremony_stamp. *)

\* A non-empty set of profiles has a first one.
LEMMA FirstProfile ==
    ASSUME NEW S \in SUBSET Profile, S # {}
    PROVE  Min(S) \in S
<1> DEFINE R == {ss \in Nat \X Nat : ss[1] < ss[2]}
<1>0. S \subseteq Nat
  BY ProfilesAssumption DEF Profile
<1>1. IsWellFoundedOn(R, Nat)
  BY NatLessThanWellFounded DEF OpToRel
<1>2. \A x, y \in Nat : y < x => <<y, x>> \in R
  OBVIOUS
<1> HIDE DEF R
<1>3. PICK x \in S : \A y \in S : <<y, x>> \notin R
  BY <1>0, <1>1, WFMin
<1>4. ASSUME NEW y \in S PROVE x <= y
  <2>1. x \in Nat /\ y \in Nat /\ ~(y < x)
    BY <1>0, <1>2, <1>3
  <2> QED BY <2>1
<1> QED BY <1>4 DEF Min

LEMMA AdvanceCeremonyKeeps ==
    ASSUME IInv, NEW p \in Proc, AdvanceCeremony(p)
    PROVE  IInv'
<1>0. StateOK(st) /\ job[p].pending \in SUBSET Profile /\ UNCHANGED <<mark, port, used, strayed>>
  BY DEF IInv, CeremonyType, AdvanceCeremony, JobOK, AtWork, WorkOK
<1>1. CASE LostSubject
  BY <1>0, <1>1, EndsUnmoved DEF AdvanceCeremony
<1>2. ASSUME ~LostSubject, NEW stage \in {"AwaitingCapture", "Finalizing"}, NEW s,
             s = [st EXCEPT !.journal.subjects[Len(st.journal.subjects)]
                                = MarkStamped(@, job[p].pending),
                            !.journal.stage = stage],
             Commit(p, s, Idle)
      PROVE  IInv'
  <2>1. StateOK(s) /\ (st' = s => Kept \/ Cleared)
    BY <1>0, <1>2, StampedState
  <2> QED BY <1>0, <1>2, <2>1, EndsWith
<1>3. ASSUME ~LostSubject, NEW s,
             s = [st EXCEPT !.journal.subjects[Len(st.journal.subjects)]
                                = MarkStamped(@, job[p].pending),
                            !.journal.stage = "Finalizing"],
             Commit(p, FinalizeCeremony(s), Idle)
      PROVE  IInv'
  <2>1. StateOK(s) /\ s.journal \in Journal /\ s.journal.subjects # <<>>
    BY <1>0, <1>3, StampedState
  <2>2. StateOK(FinalizeCeremony(s)) /\ FinalizeCeremony(s).journal = None
    BY <2>1, FinalizedState DEF StateOK, Journal
  <2> QED BY <1>0, <1>3, <2>2, ClearedState, EndsWith
<1>4. CASE ~LostSubject
  <2>1. Commit(p, AdvancedState(p), Idle)
    BY <1>4 DEF AdvanceCeremony
  <2>2. CASE job[p].second
    <3>1. PICK s : s = AdvancedState(p)
      OBVIOUS
    <3>2. s = [st EXCEPT !.journal.subjects[Len(st.journal.subjects)]
                                = MarkStamped(@, job[p].pending),
                            !.journal.stage = "AwaitingCapture"]
      BY <2>2, <3>1 DEF AdvancedState
    <3> QED BY <1>2, <1>4, <2>1, <3>1, <3>2
  <2>3. CASE ~job[p].second /\ job[p].phase = "InitialEnrollment"
    <3>1. PICK s : s = AdvancedState(p)
      OBVIOUS
    <3>2. s = [st EXCEPT !.journal.subjects[Len(st.journal.subjects)]
                                = MarkStamped(@, job[p].pending),
                            !.journal.stage = "Finalizing"]
      BY <2>3, <3>1 DEF AdvancedState
    <3> QED BY <1>2, <1>4, <2>1, <3>1, <3>2
  <2>4. CASE ~job[p].second /\ job[p].phase # "InitialEnrollment"
    <3>1. PICK s : s = [st EXCEPT !.journal.subjects[Len(st.journal.subjects)]
                                = MarkStamped(@, job[p].pending),
                            !.journal.stage = "Finalizing"]
      OBVIOUS
    <3>2. AdvancedState(p) = FinalizeCeremony(s)
      BY <2>4, <3>1 DEF AdvancedState
    <3> QED BY <1>3, <1>4, <2>1, <3>1, <3>2
  <2> QED BY <2>2, <2>3, <2>4
<1> QED BY <1>1, <1>4

LEMMA PersistProgressKeeps ==
    ASSUME IInv, NEW p \in Proc, PersistProgress(p)
    PROVE  IInv'
<1> DEFINE q == Min(job[p].pending)
           x == [job[p] EXCEPT !.pc = "write", !.pending = @ \ {q}]
<1>1. /\ StateOK(st) /\ WorkOK(job[p]) /\ job[p].pc = "progress"
      /\ job[p].pending # {} /\ Cardinality(job[p].pending) # 1
      /\ UNCHANGED <<mark, port, used, strayed>>
  BY DEF IInv, CeremonyType, PersistProgress, JobOK, AtWork
<1>2. q \in job[p].pending /\ job[p].pending \in SUBSET Profile
  BY <1>1, FirstProfile DEF WorkOK
<1>3. job[p].pending \ {q} # {}
  <2>1. job[p].pending \ {q} = {} => job[p].pending = {q}
    BY <1>2
  <2> QED BY <1>1, <2>1, FS_Singleton
<1>4. CASE LostSubject
  BY <1>1, <1>4, EndsUnmoved DEF PersistProgress
<1>5. CASE ~LostSubject
  <2>1. PICK s : s = ProgressState(q)
    OBVIOUS
  <2>2. Commit(p, s, x)
    BY <1>1, <1>5, <2>1 DEF PersistProgress
  <2>3. s = [st EXCEPT !.journal.subjects[Len(st.journal.subjects)] = MarkStamped(@, {q}),
                       !.journal.stage = st.journal.stage]
    BY <1>1, <1>5, <2>1 DEF ProgressState, StateOK, DevicesOK, Journal, LostSubject
  <2>4. {q} \in SUBSET Profile
    BY <1>2
  <2>5. StateOK(s) /\ (st' = s => Kept \/ Cleared)
    BY <1>1, <1>5, <2>3, <2>4, StampedState
  <2>6. /\ WorkOK(x) /\ x.pc = "write" /\ x.pending = job[p].pending \ {q}
        /\ x.unit = job[p].unit /\ x.token = job[p].token
    <3> HIDE DEF q
    <3>1. PICK w : w = job[p]
      OBVIOUS
    <3>2. x = [w EXCEPT !.pc = "write", !.pending = @ \ {q}]
      BY <3>1
    <3>3. w = [pc |-> w.pc, unit |-> w.unit, token |-> w.token,
               pending |-> w.pending, phase |-> w.phase, second |-> w.second]
      BY <1>1, <3>1 DEF WorkOK
    <3> HIDE DEF x
    <3>4. PICK y : y = [w EXCEPT !.pc = "write"]
      OBVIOUS
    <3>5. y = [pc |-> "write", unit |-> w.unit, token |-> w.token,
               pending |-> w.pending, phase |-> w.phase, second |-> w.second]
      BY <3>3, <3>4
    <3>6. x = [y EXCEPT !.pending = w.pending \ {q}]
      BY <3>2, <3>4
    <3>7. x = [pc |-> "write", unit |-> w.unit, token |-> w.token,
               pending |-> w.pending \ {q}, phase |-> w.phase, second |-> w.second]
      BY <3>5, <3>6
    <3> HIDE DEF x
    <3> QED BY <1>1, <1>2, <3>1, <3>7 DEF WorkOK
  <2> HIDE DEF q, x
  <2>7. CASE UNCHANGED st /\ Become(p, Idle)
    BY <1>1, <2>7, EndsUnmoved
  <2>8. CASE st' = s /\ Become(p, x)
    <3>1. job'[p] = x
      BY <2>8, OtherJobs DEF IInv, CeremonyType
    <3>2. JobOK(p)'
      BY <1>3, <2>6, <3>1 DEF JobOK, AtWork
    <3>3. StateOK(st)' /\ (Kept \/ Cleared)
      BY <2>5, <2>8 DEF StateOK, DevicesOK
    <3>4. x.pc # "mint"
      BY <2>6
    <3>5. \A t \in Token, u \in Unit : Carried(p, t, u)' => Bound(t, u)
      BY <1>1, <2>6, <3>1 DEF Carried, Bound
    <3> QED BY <1>1, <2>8, <3>2, <3>3, <3>4, <3>5, QuietStep
  <2> QED BY <2>2, <2>7, <2>8, Commits
<1> QED BY <1>4, <1>5

LEMMA StampProfileKeeps ==
    ASSUME IInv, NEW p \in Proc, StampProfile(p)
    PROVE  IInv'
<1> DEFINE q == Min(job[p].pending)
           pc == IF Cardinality(job[p].pending) = 1 THEN "advance" ELSE "progress"
           x == [job[p] EXCEPT !.pc = pc]
<1>1. /\ StateOK(st) /\ WorkOK(job[p]) /\ job[p].pc = "write" /\ job[p].unit = port
      /\ job[p].pending # {} /\ UNCHANGED <<st, port, used, strayed>>
      /\ port \in Unit /\ mark \in [Unit -> [Profile -> Token \cup {None}]]
  BY DEF IInv, CeremonyType, StampProfile, JobOK, AtWork, WorkOK
<1>2. mark' = [mark EXCEPT ![port] = [mark[port] EXCEPT ![q] = job[p].token]]
  BY <1>1 DEF StampProfile
<1>3. Become(p, x) \/ Become(p, Idle)
  BY DEF StampProfile
<1>4. Kept /\ StateOK(st)'
  BY <1>1, Unmoved
<1>5. q \in Profile /\ job[p].token \in Token
  BY <1>1, FirstProfile DEF WorkOK
<1> HIDE DEF q
<1>6. mark' \in [Unit -> [Profile -> Token \cup {None}]]
  BY <1>1, <1>2, <1>5
<1>7. ASSUME NEW t \in Token, NEW u \in Unit, Marked(t, u)' PROVE Bound(t, u)
  <2>1. PICK r \in Profile : mark'[u][r] = t
    BY <1>7 DEF Marked
  <2>2. mark[u][r] = t \/ (u = port /\ t = job[p].token)
    BY <1>1, <1>2, <1>5, <2>1
  <2>3. CASE mark[u][r] = t
    BY <2>3 DEF Marked, Bound
  <2>4. CASE u = port /\ t = job[p].token
    BY <1>1, <2>4 DEF Carried, Bound
  <2> QED BY <2>2, <2>3, <2>4
<1>8. \A t \in Token, u \in Unit : Reserved(t, u)' => Bound(t, u)
  BY <1>4, KeptReserves DEF Bound
<1>9. CASE Become(p, Idle)
  <2>1. job'[p] = Idle
    BY <1>9, OtherJobs DEF IInv, CeremonyType
  <2>2. JobOK(p)' /\ \A t \in Token, u \in Unit : ~Carried(p, t, u)'
    BY <2>1 DEF JobOK, Carried, Idle, AtWork
  <2>3. Idle.pc # "mint"
    BY DEF Idle
  <2> QED BY <1>1, <1>4, <1>6, <1>7, <1>8, <1>9, <2>2, <2>3, Steady
<1>10. CASE Become(p, x)
  <2>1. /\ pc \in {"advance", "progress"}
        /\ pc = "progress" => Cardinality(job[p].pending) # 1
    OBVIOUS
  <2> HIDE DEF pc
  <2>2. x = [pc |-> pc, unit |-> job[p].unit, token |-> job[p].token,
             pending |-> job[p].pending, phase |-> job[p].phase, second |-> job[p].second]
    BY <1>1 DEF WorkOK
  <2> HIDE DEF x
  <2>3. /\ WorkOK(x) /\ x.pc = pc /\ x.pending = job[p].pending
        /\ x.unit = port /\ x.token = job[p].token
    BY <1>1, <2>2 DEF WorkOK
  <2>4. job'[p] = x
    BY <1>10, OtherJobs DEF IInv, CeremonyType
  <2>5. JobOK(p)'
    BY <1>1, <2>1, <2>3, <2>4 DEF JobOK, AtWork
  <2>6. x.pc # "mint"
    BY <2>1, <2>3
  <2>7. \A t \in Token, u \in Unit : Carried(p, t, u)' => Bound(t, u)
    BY <1>1, <2>1, <2>3, <2>4 DEF Carried, Bound
  <2> QED BY <1>1, <1>4, <1>6, <1>7, <1>8, <1>10, <2>3, <2>5, <2>6, <2>7, Steady
<1> QED BY <1>3, <1>9, <1>10

\* The mouse that is opened is the last one captured, or the step strays with the
\* token that is reserved for that one.
LEMMA OpenSubjectKeeps ==
    ASSUME IInv, NEW p \in Proc, OpenSubject(p)
    PROVE  IInv'
<1> DEFINE j == st.journal
           pending == Profile \ Last(j.subjects).done
           x == [pc |-> IF pending = {} THEN "advance" ELSE "write",
                 unit |-> port, token |-> Last(j.subjects).token,
                 pending |-> pending, phase |-> job[p].phase,
                 second |-> job[p].phase = "InitialEnrollment" /\ Len(j.subjects) = 1]
<1>1. /\ StateOK(st) /\ job[p].pc = "open" /\ port \in Unit \cup {None}
      /\ UNCHANGED <<st, mark, port, used>> /\ Strays /\ strayed \subseteq strayed'
  BY DEF IInv, CeremonyType, OpenSubject, Strays
<1>2. Kept /\ StateOK(st)'
  BY <1>1, Unmoved
<1>3. \/ Become(p, Idle) \/ Become(p, [pc |-> "panic"])
      \/ /\ j # None /\ port # None /\ j.subjects # <<>> /\ Last(j.subjects).token # None
         /\ Become(p, x)
  BY DEF OpenSubject
<1>4. CASE Become(p, Idle)
  BY <1>1, <1>4, EndsUnmoved
<1>5. CASE Become(p, [pc |-> "panic"])
  <2> DEFINE y == [pc |-> "panic"]
  <2>1. Become(p, y) /\ y.pc # "begin" /\ y.pc \notin {"capture"} \cup Stampers
    BY <1>5 DEF Stampers, AtWork
  <2> HIDE DEF y
  <2> QED BY <1>1, <1>2, <2>1, IdleStep
<1>6. CASE /\ j # None /\ port # None /\ j.subjects # <<>> /\ Last(j.subjects).token # None
           /\ Become(p, x)
  <2>1. Subjects = j.subjects /\ Subjects \in Seq(Subject) /\ Subjects # <<>>
    BY <1>1, <1>6, SubjectsType DEF Subjects
  <2>2. Last(Subjects) \in Subject /\ Len(Subjects) \in DOMAIN Subjects
    BY <2>1 DEF Last
  <2>3. Last(Subjects).token \in Token /\ Last(Subjects).who \in Unit /\ port \in Unit
    BY <1>1, <1>6, <2>1, <2>2 DEF Subject
  <2>4. /\ x.unit = port /\ x.token = Last(Subjects).token /\ x.pending = pending
        /\ x.pc = IF pending = {} THEN "advance" ELSE "write"
        /\ x = [pc |-> x.pc, unit |-> x.unit, token |-> x.token,
                pending |-> x.pending, phase |-> x.phase, second |-> x.second]
    BY <2>1
  <2>5. pending \in SUBSET Profile /\ (pending # {} => ~FullyStamped(Last(Subjects)))
    BY <2>1 DEF FullyStamped
  <2> HIDE DEF x, pending
  <2>6. WorkOK(x) /\ x.pc \in {"advance", "write"} /\ (x.pc = "write" => x.pending # {})
    BY <2>3, <2>4, <2>5 DEF WorkOK
  <2>7. job'[p] = x
    BY <1>6, OtherJobs DEF IInv, CeremonyType
  <2>8. JobOK(p)'
    BY <2>6, <2>7 DEF JobOK, AtWork
  <2>9. Reserved(Last(Subjects).token, Last(Subjects).who)
    BY <2>2, <2>3 DEF Reserved, Last
  <2>10. ~FullyStamped(Last(Subjects)) /\ port # Last(Subjects).who
            => Last(Subjects).token \in strayed'
    BY <1>1, <1>6, <2>1 DEF Strays, Exchanged, LostSubject
  <2>11. ASSUME NEW t \in Token, NEW u \in Unit, Carried(p, t, u)'
         PROVE  Bound(t, u) \/ Loosed(t)
    <3>1. t = Last(Subjects).token /\ u = port /\ x.pc = "write"
      BY <2>4, <2>6, <2>7, <2>11 DEF Carried
    <3>2. ~FullyStamped(Last(Subjects))
      BY <2>4, <2>5, <3>1
    <3>3. Bound(t, Last(Subjects).who)
      BY <2>9, <3>1 DEF Bound
    <3> QED BY <2>3, <2>10, <3>1, <3>2, <3>3 DEF Loosed
  <2>12. x.pc # "mint"
    BY <2>6
  <2> QED BY <1>1, <1>2, <1>6, <2>8, <2>11, <2>12, QuietStep
<1> QED BY <1>3, <1>4, <1>5, <1>6

\* A fresh token is bound to no mouse.
LEMMA MintKeeps ==
    ASSUME IInv, NEW p \in Proc, NEW t \in Token, FreshToken(t),
           NEW phase, Become(p, [pc |-> "mint", phase |-> phase, token |-> t]),
           UNCHANGED <<mark, port, st, strayed>>
    PROVE  IInv'
<1> DEFINE x == [pc |-> "mint", phase |-> phase, token |-> t]
<1>1. x.pc = "mint" /\ x.token = t
  OBVIOUS
<1>2. /\ Become(p, x) /\ StateOK(st) /\ used \in SUBSET Token
      /\ t \notin used /\ used' = used \cup {t}
  BY DEF IInv, CeremonyType, FreshToken
<1> HIDE DEF x
<1>3. /\ job' = [r \in Proc |-> job'[r]] /\ job'[p] = x
      /\ \A r \in Proc : r # p => job'[r] = job[r]
      /\ \A r \in Proc : r # p => JobOK(r)'
  BY <1>2, OtherJobs DEF IInv, CeremonyType
<1>4. JobOK(p)'
  BY <1>1, <1>3 DEF JobOK, AtWork
<1>5. Kept /\ StateOK(st)'
  BY <1>2, Unmoved
<1>6. CeremonyType'
  BY <1>2, <1>3, <1>4, <1>5 DEF IInv, CeremonyType
<1>8. ASSUME NEW s \in Token, NEW u \in Unit, Bound(s, u)' PROVE Bound(s, u)
  <2>1. ASSUME NEW r \in Proc, Carried(r, s, u)' PROVE Carried(r, s, u)
    BY <1>1, <1>3, <2>1 DEF Carried
  <2>2. Reserved(s, u)' => Reserved(s, u)
    BY <1>5, KeptReserves
  <2>3. Marked(s, u)' => Marked(s, u)
    BY DEF Marked
  <2> QED BY <1>8, <2>1, <2>2, <2>3 DEF Bound
<1>9. OneMouse'
  BY <1>2, <1>8 DEF IInv, OneMouse
<1>10. \A u \in Unit : ~Bound(t, u)
  BY <1>2 DEF IInv, OneMouse
<1>11. ASSUME NEW r \in Proc, NEW s \in Token, job'[r].pc = "mint" /\ job'[r].token = s
       PROVE  s \in used' /\ \A u \in Unit : ~Bound(s, u)'
  BY <1>1, <1>2, <1>3, <1>8, <1>10, <1>11 DEF IInv, Minted
<1>12. \A r \in Proc : r # p /\ job[r].pc = "mint" => job[r].token \in used
  <2>1. ASSUME NEW r \in Proc, job[r].pc = "mint" PROVE job[r].token \in used
    <3>1. PICK s \in Token : job[r].token = s
      BY <2>1 DEF IInv, CeremonyType, JobOK
    <3> QED BY <2>1, <3>1 DEF IInv, Minted
  <2> QED BY <2>1
<1>13. ASSUME NEW r \in Proc, NEW q \in Proc,
              job'[r].pc = "mint", job'[q].pc = "mint", job'[r].token = job'[q].token
       PROVE  r = q
  BY <1>1, <1>2, <1>3, <1>12, <1>13 DEF IInv, Minted
<1>14. Minted'
  BY <1>11, <1>13 DEF Minted
<1> QED BY <1>6, <1>9, <1>14 DEF IInv

LEMMA StampKeeps ==
    ASSUME IInv, NEW p \in Proc, Stamp(p)
    PROVE  IInv'
<1>1. UNCHANGED <<mark, port, st, strayed>> /\ StateOK(st)
  BY DEF Stamp, IInv, CeremonyType
<1>2. ASSUME NEW t \in Token, FreshToken(t),
             Become(p, [pc |-> "mint", phase |-> st.journal.phase, token |-> t])
      PROVE  IInv'
  BY <1>1, <1>2, MintKeeps
<1>3. CASE Become(p, [pc |-> "open", phase |-> st.journal.phase]) /\ UNCHANGED used
  <2> DEFINE x == [pc |-> "open", phase |-> st.journal.phase]
  <2>1. Become(p, x) /\ x.pc = "open"
    BY <1>3
  <2> HIDE DEF x
  <2>2. job'[p] = x
    BY <2>1, OtherJobs DEF IInv, CeremonyType
  <2>3. JobOK(p)' /\ \A t \in Token, u \in Unit : ~Carried(p, t, u)'
    BY <2>1, <2>2 DEF JobOK, Carried, AtWork
  <2>4. x.pc # "mint"
    BY <2>1
  <2>5. Kept /\ StateOK(st)'
    BY <1>1, Unmoved
  <2> QED BY <1>1, <1>3, <2>1, <2>3, <2>4, <2>5, QuietStep
<1> QED BY <1>2, <1>3 DEF Stamp

\* The minted token goes to the last subject.
LEMMA MintCommitKeeps ==
    ASSUME IInv, NEW p \in Proc, MintCommit(p)
    PROVE  IInv'
<1> DEFINE j == st.journal
           n == Len(j.subjects)
           new == [j.subjects EXCEPT ![n] = [@ EXCEPT !.token = job[p].token]]
           s == [st EXCEPT !.journal = [j EXCEPT !.subjects = new]]
           x == [pc |-> "open", phase |-> job[p].phase]
<1>1. /\ StateOK(st) /\ job[p].pc = "mint" /\ job[p].token \in Token
      /\ UNCHANGED <<mark, port, used, strayed>>
  BY DEF IInv, CeremonyType, MintCommit, JobOK
<1>2. CASE LostSubject
  BY <1>1, <1>2, EndsUnmoved DEF MintCommit
<1>3. CASE ~LostSubject
  <2>1. Commit(p, s, x)
    BY <1>1, <1>3 DEF MintCommit, StateOK, DevicesOK, LostSubject, Journal
  <2>2. /\ j # None /\ Subjects = j.subjects /\ j \in Journal
        /\ j.subjects \in Seq(Subject) /\ n \in 1..n /\ n \in Nat
    BY <1>1, <1>3 DEF LostSubject, Subjects, StateOK, Journal
  <2>3. \A subject \in Subject :
           LET r == [subject EXCEPT !.token = job[p].token]
           IN  r \in Subject /\ r.who = subject.who /\ r.token = job[p].token
    BY <1>1 DEF Subject
  <2>4. /\ new \in Seq(Subject) /\ Len(new) = n
        /\ \A i \in 1..n : new[i].who = j.subjects[i].who
        /\ \A i \in 1..n : i # n => new[i].token = j.subjects[i].token
        /\ new[n].token = job[p].token
    BY <2>2, <2>3
  <2> HIDE DEF new
  <2>5. [j EXCEPT !.subjects = new] \in Journal
    BY <2>2, <2>4 DEF Journal
  <2>6. StateOK(s) /\ s.journal = [j EXCEPT !.subjects = new]
    BY <1>1, <2>5 DEF StateOK, DevicesOK
  <2>7. s.journal.subjects = new /\ s.journal.stage = j.stage
    BY <2>2, <2>6 DEF Journal
  <2> HIDE DEF s
  <2>8. x.pc = "open"
    OBVIOUS
  <2> HIDE DEF x
  <2>9. CASE UNCHANGED st /\ Become(p, Idle)
    BY <1>1, <2>9, EndsUnmoved
  <2>10. CASE st' = s /\ Become(p, x)
    <3>1. /\ job' = [r \in Proc |-> job'[r]] /\ job'[p] = x
          /\ \A r \in Proc : r # p => job'[r] = job[r]
          /\ \A r \in Proc : r # p => JobOK(r)'
      BY <2>10, OtherJobs DEF IInv, CeremonyType
    <3>2. JobOK(p)'
      BY <2>8, <3>1 DEF JobOK, AtWork
    <3>3. StateOK(st)'
      BY <2>6, <2>10 DEF StateOK, DevicesOK
    <3>4. CeremonyType'
      BY <1>1, <3>1, <3>2, <3>3 DEF IInv, CeremonyType
    <3>5. Cleared \/ Subjects' = new
      BY <2>7, <2>10 DEF Cleared, Subjects
    <3>8. ASSUME NEW t \in Token, NEW u \in Unit, Bound(t, u)', t # job[p].token
          PROVE  Bound(t, u)
      <4>1. ASSUME NEW r \in Proc, Carried(r, t, u)' PROVE Carried(r, t, u)
        BY <2>8, <3>1, <4>1 DEF Carried
      <4>2. Reserved(t, u)' => Reserved(t, u)
        BY <2>2, <2>4, <3>5, <3>8 DEF Reserved, Cleared
      <4>3. Marked(t, u)' => Marked(t, u)
        BY <1>1 DEF Marked
      <4> QED BY <3>8, <4>1, <4>2, <4>3 DEF Bound
    <3>9. ASSUME NEW t \in Token, t = job[p].token, NEW u \in Unit, Bound(t, u)'
          PROVE  u = j.subjects[n].who
      <4>1. ~Bound(t, u)
        BY <1>1, <3>9 DEF IInv, Minted
      <4>2. ASSUME NEW r \in Proc, Carried(r, t, u)' PROVE FALSE
        BY <2>8, <3>1, <4>1, <4>2 DEF Carried, Bound
      <4>3. ~Marked(t, u)'
        BY <1>1, <4>1 DEF Marked, Bound
      <4>4. Reserved(t, u)'
        BY <3>9, <4>2, <4>3 DEF Bound
      <4>5. PICK i \in 1..n : new[i].who = u /\ new[i].token = t
        BY <2>4, <3>5, <4>4 DEF Reserved, Cleared
      <4>6. i # n => Reserved(t, u)
        BY <2>2, <2>4, <4>5 DEF Reserved
      <4> QED BY <2>4, <4>1, <4>5, <4>6 DEF Bound
    <3>10. ASSUME NEW t \in Token \ strayed, NEW u \in Unit, NEW v \in Unit,
                  Bound(t, u)', Bound(t, v)'
           PROVE  u = v
      <4>1. CASE t = job[p].token
        BY <3>9, <3>10, <4>1
      <4>2. CASE t # job[p].token
        BY <3>8, <3>10, <4>2 DEF IInv, OneMouse
      <4> QED BY <4>1, <4>2
    <3>11. job[p].token \in used
      BY <1>1 DEF IInv, Minted
    <3>12. ASSUME NEW t \in Token, NEW u \in Unit, Bound(t, u)' PROVE t \in used'
      BY <1>1, <3>8, <3>11, <3>12 DEF IInv, OneMouse
    <3>13. ASSUME NEW r \in Proc, job'[r].pc = "mint"
           PROVE  /\ job[r].pc = "mint" /\ job'[r].token = job[r].token
                  /\ job[r].token # job[p].token
      BY <1>1, <2>8, <3>1, <3>13 DEF IInv, Minted
    <3>14. ASSUME NEW r \in Proc, NEW t \in Token, job'[r].pc = "mint", job'[r].token = t
           PROVE  t \in used' /\ \A u \in Unit : ~Bound(t, u)'
      BY <1>1, <3>8, <3>13, <3>14 DEF IInv, Minted
    <3>15. \A r, q \in Proc : job'[r].pc = "mint" /\ job'[q].pc = "mint"
                                /\ job'[r].token = job'[q].token => r = q
      BY <3>13 DEF IInv, Minted
    <3> QED BY <1>1, <3>4, <3>10, <3>12, <3>14, <3>15 DEF IInv, OneMouse, Minted
  <2> QED BY <2>1, <2>9, <2>10, Commits
<1> QED BY <1>2, <1>3
-----------------------------------------------------------------------------
(* ceremony_reconnected. *)

\* A captured token is one the captured mouse carries.
LEMMA CapturedKeeps ==
    ASSUME IInv, NEW p \in Proc, NEW phase, port # None,
           NEW target \in Nat \cup {None}, NEW old \in Token \cup {None},
           NEW token \in Token \cup {None}, token # None => Marked(token, port),
           Become(p, [pc |-> "capture", phase |-> phase,
                      subject |-> CapturedSubject(target, old, token)]),
           UNCHANGED <<st, mark, port, used, strayed>>
    PROVE  IInv'
<1> DEFINE subject == CapturedSubject(target, old, token)
           x == [pc |-> "capture", phase |-> phase, subject |-> subject]
<1>1. x.pc = "capture" /\ x.subject = subject /\ Become(p, x)
  OBVIOUS
<1>2. port \in Unit /\ StateOK(st)
  BY DEF IInv, CeremonyType
<1>3. subject \in Subject /\ subject.who = port /\ subject.token = token
  <2>1. PICK done \in SUBSET Profile :
           subject = [who |-> port, device |-> target, old |-> old, token |-> token, done |-> done]
    BY DEF CapturedSubject
  <2> QED BY <1>2, <2>1 DEF Subject
<1> HIDE DEF x, subject
<1>4. job'[p] = x
  BY <1>1, OtherJobs DEF IInv, CeremonyType
<1>5. JobOK(p)'
  BY <1>1, <1>3, <1>4 DEF JobOK, AtWork
<1>6. \A t \in Token, u \in Unit : Carried(p, t, u)' => Bound(t, u)
  BY <1>1, <1>3, <1>4, NoneAssumption DEF Carried, Bound
<1>7. x.pc # "mint"
  BY <1>1
<1>8. Kept /\ StateOK(st)'
  BY <1>2, Unmoved
<1> QED BY <1>1, <1>5, <1>6, <1>7, <1>8, QuietStep

LEMMA CaptureKeeps ==
    ASSUME IInv, NEW p \in Proc, NEW q \in Profile, NEW d \in DOMAIN st.devices \cup {None},
           Capture(p, q, d)
    PROVE  IInv'
<1> DEFINE phase == st.journal.phase
           seen == mark[port][q]
           Captured(old, token) ==
              Become(p, [pc |-> "capture", phase |-> phase,
                         subject |-> CapturedSubject(d, old, token)])
<1>1. /\ UNCHANGED <<st, mark, port, used, strayed>> /\ port # None /\ port \in Unit
      /\ StateOK(st) /\ st.journal \in Journal /\ phase \in Phases
      /\ d \in Nat \cup {None}
      /\ seen \in Token \cup {None} /\ (seen # None => Marked(seen, port))
  BY DEF Capture, IInv, CeremonyType, StateOK, DevicesOK, Journal, Marked
<1>2. \/ seen # None /\ Captured(None, seen)
      \/ d \in DOMAIN st.devices /\ Captured(st.devices[d], None)
      \/ Captured(None, None)
      \/ Become(p, [pc |-> "panic"])
  BY <1>1, PhasesAssumption DEF Capture
<1>3. CASE seen # None /\ Captured(None, seen)
  BY <1>1, <1>3, CapturedKeeps
<1>4. CASE d \in DOMAIN st.devices /\ Captured(st.devices[d], None)
  <2>1. st.devices[d] \in Token \cup {None}
    BY <1>1, <1>4 DEF StateOK, DevicesOK
  <2> QED BY <1>1, <1>4, <2>1, CapturedKeeps
<1>5. CASE Captured(None, None)
  BY <1>1, <1>5, CapturedKeeps
<1>6. CASE Become(p, [pc |-> "panic"])
  <2> DEFINE y == [pc |-> "panic"]
  <2>1. Become(p, y) /\ y.pc # "begin" /\ y.pc \notin {"capture"} \cup Stampers
    BY <1>6 DEF Stampers, AtWork
  <2> HIDE DEF y
  <2>2. Kept /\ StateOK(st)'
    BY <1>1, Unmoved
  <2> QED BY <1>1, <2>1, <2>2, IdleStep
<1> QED BY <1>2, <1>3, <1>4, <1>5, <1>6

\* The captured mouse becomes the last subject.
LEMMA CaptureCommitKeeps ==
    ASSUME IInv, NEW p \in Proc, CaptureCommit(p)
    PROVE  IInv'
<1> DEFINE j == st.journal
           subject == job[p].subject
           new == Append(j.subjects, subject)
           at(stage) == [st EXCEPT !.journal = [j EXCEPT !.subjects = new, !.stage = stage]]
<1>1. /\ StateOK(st) /\ job[p].pc = "capture" /\ UNCHANGED <<mark, port, used, strayed>>
      /\ subject \in Subject
      /\ mark \in [Unit -> [Profile -> Token \cup {None}]]
  BY DEF IInv, CeremonyType, CaptureCommit, JobOK
<1>2. CASE Become(p, Idle) /\ UNCHANGED st
  BY <1>1, <1>2, EndsUnmoved
<1>3. CASE j # None /\ \/ Commit(p, FinalizeCeremony(at("Finalizing")), Idle)
                       \/ Commit(p, at("Stamping"), Idle)
  <2>1. /\ j \in Journal /\ Subjects = j.subjects /\ j.subjects \in Seq(Subject)
        /\ j.phase \in Phases
    BY <1>1, <1>3 DEF StateOK, Journal, Subjects
  <2>2. /\ new \in Seq(Subject) /\ new # <<>> /\ Len(new) = Len(j.subjects) + 1
        /\ Last(new) = subject
        /\ \A i \in 1..Len(new) : new[i] = subject \/ (i \in 1..Len(j.subjects) /\ new[i] = j.subjects[i])
    BY <1>1, <2>1 DEF Last
  <2> HIDE DEF new
  <2>3. ASSUME NEW stage \in {"Stamping", "Finalizing"}, NEW s, s = at(stage)
        PROVE  /\ StateOK(s) /\ s.journal \in Journal
               /\ s.journal.subjects = new /\ s.journal.phase = j.phase
    <3>1. PICK k : k = [j EXCEPT !.subjects = new, !.stage = stage]
      OBVIOUS
    <3>2. k \in Journal /\ k.subjects = new /\ k.phase = j.phase
      BY <2>1, <2>2, <3>1 DEF Journal
    <3>3. s = [st EXCEPT !.journal = k]
      BY <2>3, <3>1
    <3>4. StateOK(s) /\ s.journal = k
      BY <1>1, <3>2, <3>3 DEF StateOK, DevicesOK
    <3> QED BY <3>2, <3>4
  <2>4. CASE Commit(p, FinalizeCeremony(at("Finalizing")), Idle)
    <3>1. PICK s : s = at("Finalizing")
      OBVIOUS
    <3>2. Commit(p, FinalizeCeremony(s), Idle)
      BY <2>4, <3>1
    <3>3. StateOK(s) /\ s.journal.subjects = new /\ s.journal.phase = j.phase
      BY <2>3, <3>1
    <3>4. StateOK(FinalizeCeremony(s)) /\ FinalizeCeremony(s).journal = None
      BY <2>1, <2>2, <3>3, FinalizedState DEF StateOK
    <3> QED BY <1>1, <3>2, <3>4, ClearedState, EndsWith
  <2>5. CASE Commit(p, at("Stamping"), Idle)
    <3>1. PICK s : s = at("Stamping")
      OBVIOUS
    <3>2. StateOK(s) /\ s.journal.subjects = new
      BY <2>3, <3>1
    <3>3. \/ st' = s /\ Become(p, Idle)
          \/ UNCHANGED st /\ Become(p, Idle)
      BY <2>5, <3>1, Commits
    <3>4. CASE st' = s /\ Become(p, Idle)
      <4>1. StateOK(st)' /\ (Cleared \/ Subjects' = new)
        BY <3>2, <3>4 DEF StateOK, DevicesOK, Cleared, Subjects
      <4>3. job'[p] = Idle
        BY <3>4, OtherJobs DEF IInv, CeremonyType
      <4>4. JobOK(p)' /\ \A t \in Token, u \in Unit : ~Carried(p, t, u)'
        BY <4>3 DEF JobOK, Carried, Idle, AtWork
      <4>5. Idle.pc # "mint"
        BY DEF Idle
      <4>6. ASSUME NEW t \in Token, NEW u \in Unit, Reserved(t, u)' PROVE Bound(t, u)
        <5>1. Subjects' = new
          BY <4>1, <4>6 DEF Reserved, Cleared
        <5>2. PICK i \in 1..Len(new) : new[i].who = u /\ new[i].token = t
          BY <2>2, <4>6, <5>1 DEF Reserved
        <5>3. CASE new[i] = subject
          BY <1>1, <5>2, <5>3 DEF Carried, Bound
        <5>4. CASE i \in 1..Len(j.subjects) /\ new[i] = j.subjects[i]
          BY <2>1, <5>2, <5>4 DEF Reserved, Bound
        <5> QED BY <2>2, <5>2, <5>3, <5>4
      <4>7. \A t \in Token, u \in Unit : Marked(t, u)' => Bound(t, u)
        BY <1>1 DEF Marked, Bound
      <4>8. mark' \in [Unit -> [Profile -> Token \cup {None}]]
        BY <1>1
      <4> QED BY <1>1, <3>4, <4>1, <4>4, <4>5, <4>6, <4>7, <4>8, Steady
    <3> QED BY <1>2, <3>3, <3>4
  <2> QED BY <1>3, <2>4, <2>5
<1>4. StateOK(st) /\ j # None => \A stage :
         [st EXCEPT !.journal.subjects = Append(@, subject), !.journal.stage = stage] = at(stage)
  BY DEF StateOK, DevicesOK
<1> QED BY <1>1, <1>2, <1>3, <1>4 DEF CaptureCommit

-----------------------------------------------------------------------------
(* What others do. *)

LEMMA OthersKeep ==
    ASSUME IInv, UNCHANGED <<job, used, strayed>>, StateOK(st)', port' \in Unit \cup {None},
           mark' \in [Unit -> [Profile -> Token \cup {None}]], Kept,
           \A t \in Token, u \in Unit : Marked(t, u)' => Marked(t, u)
    PROVE  IInv'
<1>1. CeremonyType'
  <2>1. \A p \in Proc : JobOK(p)'
    BY DEF IInv, CeremonyType, JobOK
  <2> QED BY <2>1 DEF IInv, CeremonyType
<1>2. ASSUME NEW t \in Token, NEW u \in Unit, Bound(t, u)' PROVE Bound(t, u)
  <2>1. Reserved(t, u)' => Reserved(t, u)
    BY KeptReserves
  <2>2. \A p \in Proc : Carried(p, t, u)' => Carried(p, t, u)
    BY DEF Carried
  <2> QED BY <1>2, <2>1, <2>2 DEF Bound
<1>3. OneMouse' /\ Minted'
  BY <1>2, Bonds
<1> QED BY <1>1, <1>3 DEF IInv

LEMMA ForgetDeviceKeeps ==
    ASSUME IInv, NEW d \in DOMAIN st.devices, ForgetDevice(d)
    PROVE  IInv'
<1> DEFINE f == [e \in DOMAIN st.devices \ {d} |-> st.devices[e]]
           ble == IF st.ble = d THEN None ELSE st.ble
<1>1. UNCHANGED <<mark, port, job, used, strayed>> /\ StateOK(st)
  BY DEF ForgetDevice, IInv, CeremonyType
<1>2. DOMAIN f \subseteq Nat /\ \A e \in DOMAIN f : f[e] \in Token \cup {None}
  BY <1>1 DEF StateOK, DevicesOK
<1>3. st' = [st EXCEPT !.devices = f, !.ble = ble]
  BY DEF ForgetDevice
<1> HIDE DEF f, ble
<1>4. st' = [mode |-> st.mode, devices |-> f, ble |-> ble, next |-> st.next,
             journal |-> st.journal]
  BY <1>1, <1>3 DEF StateOK, DevicesOK
<1>5. /\ st'.mode = st.mode /\ st'.devices = f /\ st'.ble = ble /\ st'.next = st.next
      /\ st'.journal = st.journal
  BY <1>4
<1>6. StateOK(st)'
  BY <1>1, <1>2, <1>4, <1>5 DEF StateOK, DevicesOK
<1>7. Subjects' = Subjects
  BY <1>5 DEF Subjects
<1>8. Kept
  BY <1>7 DEF Kept
<1>9. /\ mark' \in [Unit -> [Profile -> Token \cup {None}]]
      /\ port' \in Unit \cup {None}
      /\ \A t \in Token, u \in Unit : Marked(t, u)' => Marked(t, u)
  BY <1>1 DEF IInv, CeremonyType, Marked
<1> QED BY <1>1, <1>6, <1>8, <1>9, OthersKeep

LEMMA PlugKeeps ==
    ASSUME IInv, NEW u \in Unit \cup {None}, Plug(u)
    PROVE  IInv'
<1>1. UNCHANGED <<mark, st, job, used, strayed>> /\ port' = u /\ StateOK(st)
  BY DEF Plug, IInv, CeremonyType
<1>2. Kept /\ StateOK(st)'
  BY <1>1, Unmoved
<1>3. /\ mark' \in [Unit -> [Profile -> Token \cup {None}]]
      /\ \A t \in Token, v \in Unit : Marked(t, v)' => Marked(t, v)
  BY <1>1 DEF IInv, CeremonyType, Marked
<1> QED BY <1>1, <1>2, <1>3, OthersKeep

LEMMA LoseMarkKeeps ==
    ASSUME IInv, NEW u \in Unit, NEW q \in Profile, LoseMark(u, q)
    PROVE  IInv'
<1>1. /\ UNCHANGED <<port, st, job, used, strayed>> /\ StateOK(st) /\ port' \in Unit \cup {None}
      /\ mark \in [Unit -> [Profile -> Token \cup {None}]]
      /\ mark' = [mark EXCEPT ![u] = [mark[u] EXCEPT ![q] = None]]
  BY DEF LoseMark, IInv, CeremonyType
<1>2. Kept /\ StateOK(st)'
  BY <1>1, Unmoved
<1>3. mark' \in [Unit -> [Profile -> Token \cup {None}]]
  BY <1>1
<1>4. ASSUME NEW t \in Token, NEW v \in Unit, Marked(t, v)' PROVE Marked(t, v)
  <2>1. PICK r \in Profile : mark'[v][r] = t
    BY <1>4 DEF Marked
  <2>2. mark[v][r] = t
    BY <1>1, <2>1, NoneAssumption
  <2> QED BY <2>2 DEF Marked
<1> QED BY <1>1, <1>2, <1>3, <1>4, OthersKeep
-----------------------------------------------------------------------------
LEMMA InvInit == Init => IInv
<1> SUFFICES ASSUME Init PROVE IInv
  OBVIOUS
<1>1. PICK t \in Token, w \in Unit :
         \/ /\ mark = [v \in Unit |-> [q \in Profile |-> None]]
            /\ st = [mode |-> "Legacy", devices |-> [d \in {1} |-> None], ble |-> None,
                     next |-> 2, journal |-> None]
            /\ used = {}
         \/ /\ mark = [v \in Unit |-> [q \in Profile |-> IF v = w THEN t ELSE None]]
            /\ st = [mode |-> "Persistent", devices |-> [d \in {1} |-> t], ble |-> None,
                     next |-> 2, journal |-> None]
            /\ used = {t}
  BY DEF Init
<1>2. StateOK(st) /\ st.journal = None
  <2>1. ASSUME NEW x \in Token \cup {None}, NEW m,
               st = [mode |-> m, devices |-> [d \in {1} |-> x], ble |-> None,
                     next |-> 2, journal |-> None]
        PROVE  StateOK(st) /\ st.journal = None
    BY <2>1 DEF StateOK, DevicesOK
  <2> QED BY <1>1, <2>1
<1>3. PICK working \in SUBSET Proc :
         job = [p \in Proc |-> IF p \in working THEN Idle ELSE Absent]
  BY DEF Init
<1>4. job = [p \in Proc |-> job[p]] /\ \A p \in Proc : job[p].pc \in {"idle", "absent"}
  BY <1>3 DEF Idle, Absent
<1>5. CeremonyType
  BY <1>1, <1>2, <1>4 DEF Init, CeremonyType, JobOK, AtWork
<1>7. ASSUME NEW s \in Token, NEW u \in Unit, Bound(s, u) PROVE used = {t} /\ s = t /\ u = w
  <2>1. Subjects = <<>>
    BY <1>2 DEF Subjects
  <2>2. ~Reserved(s, u) /\ \A p \in Proc : ~Carried(p, s, u)
    BY <1>4, <2>1 DEF Reserved, Carried
  <2>3. PICK q \in Profile : mark[u][q] = s
    BY <1>7, <2>2 DEF Bound, Marked
  <2> QED BY <1>1, <2>3, NoneAssumption
<1>8. OneMouse /\ Minted
  BY <1>4, <1>7 DEF OneMouse, Minted
<1> QED BY <1>5, <1>8 DEF IInv

LEMMA NextInv ==
    ASSUME IInv, [Next]_vars
    PROVE  IInv'
<1>1. ASSUME NEW p \in Proc,
             \/ \E phase \in Phases : BeginCheck(p, phase)
             \/ FinalizeCheck(p) \/ CancelCheck(p) \/ CallFails(p)
      PROVE  IInv'
  BY <1>1, ChecksKeep
<1>2. ASSUME NEW p \in Proc,
             \/ BeginCommit(p) \/ CancelCommit(p) \/ FinalizeCommit(p)
             \/ \E d \in DOMAIN st.devices : Associate(p, d)
      PROVE  IInv'
  BY <1>2, BeginCommitKeeps, CancelCommitKeeps, FinalizeCommitKeeps, AssociateKeeps
<1>3. ASSUME NEW p \in Proc,
             \/ \E q \in Profile, d \in DOMAIN st.devices \cup {None} : Capture(p, q, d)
             \/ CaptureCommit(p)
      PROVE  IInv'
  BY <1>3, CaptureKeeps, CaptureCommitKeeps
<1>4. ASSUME NEW p \in Proc,
             \/ Stamp(p) \/ Adopt(p) \/ MintCommit(p) \/ OpenSubject(p)
             \/ StampProfile(p) \/ PersistProgress(p) \/ AdvanceCeremony(p)
      PROVE  IInv'
  BY <1>4, StampKeeps, MintCommitKeeps, OpenSubjectKeeps, StampProfileKeeps,
     PersistProgressKeeps, AdvanceCeremonyKeeps DEF Adopt
<1>5. CASE \/ \E d \in DOMAIN st.devices : ForgetDevice(d)
           \/ \E u \in Unit \cup {None} : Plug(u)
           \/ \E u \in Unit, q \in Profile : LoseMark(u, q)
  BY <1>5, ForgetDeviceKeeps, PlugKeeps, LoseMarkKeeps
<1>6. CASE UNCHANGED vars
  <2>1. /\ UNCHANGED <<mark, port, st, job, used, strayed>> /\ StateOK(st)
        /\ mark \in [Unit -> [Profile -> Token \cup {None}]] /\ port \in Unit \cup {None}
    BY <1>6 DEF vars, IInv, CeremonyType
  <2>2. Kept /\ StateOK(st)'
    BY <2>1, Unmoved
  <2>3. \A t \in Token, u \in Unit : Marked(t, u)' => Marked(t, u)
    BY <2>1 DEF Marked
  <2> QED BY <2>1, <2>2, <2>3, OthersKeep
<1> QED BY <1>1, <1>2, <1>3, <1>4, <1>5, <1>6 DEF Next

-----------------------------------------------------------------------------
\* Every token that a mouse carries, or that a journal or a running call intends
\* for it, is of one mouse, but those that a call strayed with.
THEOREM Invariance == Spec => []IInv
<1>1. IInv /\ [Next]_vars => IInv'
  BY NextInv
<1> QED BY InvInit, <1>1, PTL DEF Spec

\* ceremony_stamp writes no token into a second mouse, however many processes
\* begin, resume, cancel and finalize ceremonies between its steps, although it
\* reads the journal again and opens whichever mouse is at the port by then: but
\* for the token of a journal whose mouse the user exchanged for another.
THEOREM TokensStayUnique == Spec => []TokensNeverCopied
<1>1. IInv => TokensNeverCopied
  <2> SUFFICES ASSUME IInv, NEW u \in Unit, NEW v \in Unit, NEW q \in Profile, NEW r \in Profile,
                      u # v, mark[u][q] = mark[v][r]
               PROVE  mark[u][q] \in strayed \cup {None}
    BY DEF TokensNeverCopied
  <2>1. PICK t \in Token \cup {None} : t = mark[u][q]
    BY DEF IInv, CeremonyType
  <2>2. t \in Token => Bound(t, u) /\ Bound(t, v)
    BY <2>1 DEF Bound, Marked
  <2> QED BY <2>1, <2>2 DEF IInv, OneMouse
<1> QED BY Invariance, <1>1, PTL
-----------------------------------------------------------------------------
(* One process at a time: what the journal records is on the mice.           *)

\* The profiles that a subject has as stamped carry its token.
Stamped(subject) ==
    subject.token \in wiped \cup strayed \/ \A q \in subject.done : mark[subject.who][q] = subject.token

\* A mouse that is not wholly one device's, and a subject that it is not.
Unowned(u) == \E q \in Profile : mark[u][q] \notin Tokens(st)
Apart(subject, u) == subject.token \in wiped \cup strayed \/ subject.who # u

Held(subject) ==
    /\ Stamped(subject) /\ Unowned(subject.who)
    /\ \A i \in DOMAIN Subjects : Apart(Subjects[i], subject.who)

Whole(t) == \E u \in Unit : \A q \in Profile : mark[u][q] = t

Recorded ==
    /\ Valid(st)
    /\ \A t \in Tokens(st) \ (wiped \cup strayed) : Whole(t)
    /\ \A i \in DOMAIN Subjects : Stamped(Subjects[i])
    /\ Stamping =>
          /\ Unowned(Last(Subjects).who)
          /\ \A i \in DOMAIN Subjects : i # Len(Subjects) =>
                Finished(Subjects[i]) /\ Apart(Subjects[i], Last(Subjects).who)

\* A call stamps the last subject, or strays with its token and with every mark
\* that it can replace.
Accounted(work) ==
    \/ work.unit = Last(Subjects).who
    \/ work.token \in strayed /\ \A q \in Profile : mark[work.unit][q] \in strayed \cup {None}

\* What the call of the process goes by is still what the journal says.
Intends(p) ==
    /\ job[p].pc = "begin" => st.journal = None
    /\ job[p].pc = "capture" =>
          /\ Held(job[p].subject)
          /\ FullyStamped(job[p].subject) => job[p].phase = "ForeignAdoption"
    /\ job[p].pc \in Stampers => Stamping /\ job[p].phase = st.journal.phase
    /\ job[p].pc = "mint" => Last(Subjects).token = None
    /\ job[p].pc \in AtWork =>
          /\ job[p].token = Last(Subjects).token
          /\ job[p].pending = Profile \ Last(Subjects).done
          /\ job[p].second = (job[p].phase = "InitialEnrollment" /\ Len(Subjects) = 1)
          /\ Accounted(job[p])
    /\ job[p].pc \in {"progress", "advance"} =>
          job[p].token \in wiped \cup strayed \/ mark[job[p].unit][Min(job[p].pending)] = job[p].token
    /\ job[p].pc = "advance" => job[p].pending = {Min(job[p].pending)}
    /\ job[p].pc = "finalize" =>
          /\ st.journal # None
          /\ st.journal.phase = "InitialEnrollment" /\ st.journal.stage = "Finalizing"
    /\ job[p].pc = "cancel" => st.journal # None /\ ~Irreversible(st.journal)

Alone(p) == job[p] # Absent /\ \A r \in Proc : r # p => job[r] = Absent
OneInv == \A p \in Proc : Alone(p) => Recorded /\ Intends(p)

\* What a ceremony that has stamped a profile goes on to.
Resumes ==
    st.journal # None /\ Irreversible(st.journal) /\ st'.journal # st.journal =>
        \A i \in DOMAIN st.journal.subjects :
           LET subject == st.journal.subjects[i]
           IN  IF st'.journal = None THEN subject.token \in Tokens(st')
               ELSE /\ subject.done \subseteq st'.journal.subjects[i].done
                    /\ subject.token # None => st'.journal.subjects[i].token = subject.token

LEMMA Becomes ==
    ASSUME IInv, NEW p \in Proc, NEW x, Become(p, x)
    PROVE  job'[p] = x
BY OtherJobs DEF IInv, CeremonyType

LEMMA InJournal ==
    ASSUME IInv
    PROVE  /\ StateOK(st) /\ Subjects \in Seq(Subject)
           /\ \A i \in DOMAIN Subjects : Subjects[i] \in Subject
           /\ st.journal # None => st.journal \in Journal /\ Subjects = st.journal.subjects
<1>1. StateOK(st) /\ Subjects \in Seq(Subject)
  BY SubjectsType DEF IInv, CeremonyType
<1>2. \A i \in DOMAIN Subjects : Subjects[i] \in Subject
  BY <1>1
<1>3. st.journal # None => st.journal \in Journal /\ Subjects = st.journal.subjects
  BY <1>1 DEF StateOK, Subjects
<1> QED BY <1>1, <1>2, <1>3

\* What the gate says of the subject that is being stamped.
LEMMA LastSubject ==
    ASSUME IInv, Recorded, Stamping
    PROVE  /\ ~LostSubject /\ st.journal \in Journal /\ Subjects = st.journal.subjects
           /\ Len(Subjects) \in DOMAIN Subjects /\ Last(Subjects) = Subjects[Len(Subjects)]
           /\ Last(Subjects) \in Subject
           /\ Last(Subjects).done # Profile /\ st.journal.phase # "BleAssociation"
           /\ Last(Subjects).token \notin Tokens(st)
           /\ Last(Subjects).token = None => Last(Subjects).done = {}
<1>1. /\ st.journal \in Journal /\ Subjects = st.journal.subjects /\ Subjects \in Seq(Subject)
      /\ Valid(st) /\ st.journal # None /\ st.journal.stage = "Stamping"
  BY InJournal DEF Recorded, Stamping
<1>2. ValidJournal(st)
  BY <1>1 DEF Valid
<1>3. ValidStage(st.journal) /\ \A i \in DOMAIN st.journal.subjects : ValidSubject(st, st.journal.subjects[i])
  BY <1>2 DEF ValidJournal
<1>4. /\ st.journal.phase # "BleAssociation" /\ st.journal.subjects # <<>>
      /\ ~FullyStamped(Last(st.journal.subjects))
  BY <1>1, <1>3 DEF ValidStage
<1>5. /\ Len(Subjects) \in DOMAIN Subjects /\ Last(Subjects) = Subjects[Len(Subjects)]
      /\ Last(Subjects) \in Subject
  BY <1>1, <1>4 DEF Last
<1>6. ValidSubject(st, Last(Subjects))
  BY <1>1, <1>3, <1>5
<1> QED BY <1>1, <1>4, <1>5, <1>6 DEF ValidSubject, FullyStamped, LostSubject

\* A step that changes neither the state nor the marks.
LEMMA SameRecord ==
    ASSUME Recorded, UNCHANGED <<st, mark, wiped>>, strayed \subseteq strayed'
    PROVE  Recorded' /\ Resumes
<1>1. Subjects' = Subjects /\ Stamping' = Stamping /\ Tokens(st)' = Tokens(st) /\ Valid(st)' = Valid(st)
  BY DEF Subjects, Stamping
<1>2. \A t : Whole(t)' = Whole(t)
  BY DEF Whole
<1>3. \A u : Unowned(u)' = Unowned(u)
  BY <1>1 DEF Unowned
<1>4. \A subject : Stamped(subject) => Stamped(subject)'
  BY DEF Stamped
<1>5. \A subject, u : Apart(subject, u) => Apart(subject, u)'
  BY DEF Apart
<1>6. Recorded'
  BY <1>1, <1>2, <1>3, <1>4, <1>5 DEF Recorded
<1> QED BY <1>6 DEF Resumes

\* A call that ends, or has panicked, intends nothing.
LEMMA NothingIntended ==
    ASSUME NEW p \in Proc, job'[p].pc \in {"idle", "panic"}
    PROVE  Intends(p)'
BY DEF Intends, Stampers, AtWork

LEMMA Refused ==
    ASSUME IInv, Recorded, NEW p \in Proc, Become(p, Idle), UNCHANGED <<st, mark, wiped>>,
           strayed \subseteq strayed'
    PROVE  Recorded' /\ Intends(p)' /\ Resumes
<1>1. job'[p].pc = "idle"
  BY Becomes DEF Idle
<1> QED BY <1>1, SameRecord, NothingIntended

-----------------------------------------------------------------------------
(* Steps that commit nothing. *)

LEMMA ChecksRecord ==
    ASSUME IInv, Recorded, NEW p \in Proc,
           \/ \E phase \in Phases : BeginCheck(p, phase)
           \/ FinalizeCheck(p) \/ CancelCheck(p) \/ CallFails(p)
    PROVE  Recorded' /\ Intends(p)' /\ Resumes
<1>1. UNCHANGED <<st, mark, wiped, strayed>>
  BY DEF BeginCheck, FinalizeCheck, CancelCheck, CallFails
<1>2. ASSUME NEW phase \in Phases, BeginCheck(p, phase) PROVE Intends(p)'
  <2> DEFINE x == [pc |-> "begin", phase |-> phase]
  <2>1. Become(p, x) /\ st.journal = None /\ x.pc = "begin" /\ st' = st
    BY <1>2 DEF BeginCheck
  <2>2. job'[p].pc = "begin"
    BY <2>1, Becomes
  <2> QED BY <2>1, <2>2 DEF Intends, Stampers, AtWork
<1>3. CASE FinalizeCheck(p)
  <2>1. /\ job'[p].pc = "finalize" /\ st' = st /\ st.journal # None
        /\ st.journal.phase = "InitialEnrollment" /\ st.journal.stage = "Finalizing"
    BY <1>3, Becomes DEF FinalizeCheck
  <2>2. Intends(p)'
    BY <2>1 DEF Intends, Stampers, AtWork
  <2> QED BY <1>1, <2>2, SameRecord
<1>4. CASE CancelCheck(p)
  <2>1. job'[p].pc = "cancel" /\ st' = st /\ st.journal # None /\ ~Irreversible(st.journal)
    BY <1>4, Becomes DEF CancelCheck
  <2>2. Intends(p)'
    BY <2>1 DEF Intends, Stampers, AtWork
  <2> QED BY <1>1, <2>2, SameRecord
<1>5. CASE CallFails(p)
  BY <1>1, <1>5, Refused DEF CallFails
<1> QED BY <1>1, <1>2, <1>3, <1>4, <1>5, SameRecord

\* A captured mouse shows a profile that is no saved mouse's, and none that has
\* been stamped completely for this journal.
LEMMA CaptureRecords ==
    ASSUME IInv, Recorded, NEW p \in Proc, NEW current \in Profile,
           NEW target \in DOMAIN st.devices \cup {None}, Capture(p, current, target)
    PROVE  Recorded' /\ Intends(p)' /\ Resumes
<1> DEFINE j == st.journal
           seen == mark[port][current]
           x(old, token) == [pc |-> "capture", phase |-> j.phase,
                             subject |-> CapturedSubject(target, old, token)]
<1>1. /\ UNCHANGED <<st, mark, wiped, strayed>> /\ j # None /\ port # None
      /\ j.stage = "AwaitingCapture" /\ Len(j.subjects) < MaxSubjects(j.phase)
      /\ MayStamp(j.phase, seen)
  BY DEF Capture, AwaitsCapture
<1>2. Recorded' /\ Resumes
  BY <1>1, SameRecord
<1>3. /\ port \in Unit /\ StateOK(st) /\ Subjects = j.subjects /\ Subjects \in Seq(Subject)
      /\ j \in Journal /\ seen \in Token \cup {None}
      /\ \A i \in DOMAIN Subjects : Subjects[i] \in Subject
  BY <1>1, InJournal DEF IInv, CeremonyType
<1>4. \A i \in DOMAIN Subjects : Finished(Subjects[i])
  <2>1. ValidStage(j)
    BY <1>1 DEF Recorded, Valid, ValidJournal
  <2> QED BY <1>1, <1>3, <2>1 DEF ValidStage
<1>5. ASSUME NEW old, NEW token, Become(p, x(old, token)),
             token # None => seen = token /\ j.phase = "ForeignAdoption",
             token = None => seen = None
      PROVE  Intends(p)'
  <2> DEFINE subject == CapturedSubject(target, old, token)
  <2>1. job'[p] = x(old, token)
    BY <1>5, Becomes
  <2>2. job'[p].pc = "capture" /\ job'[p].subject = subject /\ job'[p].phase = j.phase
    BY <2>1
  <2>3. /\ subject.who = port /\ subject.token = token
        /\ subject.done = IF token = None THEN {} ELSE {q \in Profile : mark[port][q] = token}
    BY DEF CapturedSubject
  <2> HIDE DEF x, subject, j
  <2>4. Stamped(subject)
    BY <2>3 DEF Stamped
  <2>5. Unowned(port)
    <3>1. seen \notin Tokens(st)
      <4>1. CASE token = None
        BY <1>5, <4>1 DEF Tokens
      <4>2. CASE token # None
        BY <1>1, <1>5, <4>2 DEF MayStamp
      <4> QED BY <4>1, <4>2
    <3> QED BY <3>1 DEF Unowned
  <2>6. ASSUME NEW i \in DOMAIN Subjects PROVE Apart(Subjects[i], port)
    <3>1. Stamped(Subjects[i]) /\ Finished(Subjects[i])
      BY <1>4 DEF Recorded
    <3>2. CASE token = None
      BY <1>5, <3>1, <3>2 DEF Apart, Stamped, Finished, FullyStamped
    <3>3. CASE token # None
      <4>1. Len(j.subjects) < 1
        BY <1>1, <1>5, <3>3 DEF MaxSubjects
      <4> QED BY <1>3, <4>1
    <3> QED BY <3>2, <3>3
  <2>7. PICK s : s = subject
    OBVIOUS
  <2>8. Held(s)
    BY <2>3, <2>4, <2>5, <2>6, <2>7 DEF Held
  <2>9. Held(s)'
    <3>1. Subjects' = Subjects
      BY <1>1 DEF Subjects
    <3> QED BY <1>1, <2>8, <3>1 DEF Held, Stamped, Unowned, Apart
  <2>10. Held(job[p].subject)'
    <3>1. job'[p].subject = s
      BY <2>2, <2>7
    <3> QED BY <2>9, <3>1 DEF Held, Stamped, Unowned, Apart
  <2>11. FullyStamped(subject) => j.phase = "ForeignAdoption"
    <3>1. 1 \in Profile
      BY ProfilesAssumption DEF Profile
    <3> QED BY <1>5, <2>3, <3>1 DEF FullyStamped
  <2> QED BY <2>2, <2>10, <2>11 DEF FullyStamped, Intends, Stampers, AtWork
<1>6. \/ Become(p, [pc |-> "panic"])
      \/ seen # None /\ Become(p, x(None, seen)) /\ j.phase = "ForeignAdoption"
      \/ seen = None /\ \E old \in {None, st.devices[target]} : Become(p, x(old, None))
  <2>1. CASE j.phase = "ForeignAdoption"
    BY <2>1 DEF Capture
  <2>2. CASE j.phase = "Restore"
    BY <2>2 DEF Capture, MayStamp
  <2>3. CASE j.phase = "BleAssociation"
    BY <2>3 DEF Capture
  <2>4. CASE j.phase \notin {"ForeignAdoption", "Restore", "BleAssociation"}
    BY <2>4 DEF Capture, MayStamp
  <2> QED BY <2>1, <2>2, <2>3, <2>4
<1>7. CASE Become(p, [pc |-> "panic"])
  <2>1. job'[p].pc = "panic"
    BY <1>7, Becomes
  <2> QED BY <1>2, <2>1, NothingIntended
<1>8. CASE seen # None /\ Become(p, x(None, seen)) /\ j.phase = "ForeignAdoption"
  BY <1>2, <1>5, <1>8
<1>9. CASE seen = None /\ \E old \in {None, st.devices[target]} : Become(p, x(old, None))
  BY <1>2, <1>5, <1>9
<1> QED BY <1>6, <1>7, <1>8, <1>9

LEMMA StampRecords ==
    ASSUME IInv, Recorded, NEW p \in Proc, Stamp(p)
    PROVE  Recorded' /\ Intends(p)' /\ Resumes
<1>1. UNCHANGED <<st, mark, wiped, strayed>> /\ Stamping
  BY DEF Stamp, Stamping
<1>2. Recorded' /\ Resumes
  BY <1>1, SameRecord
<1>3. Subjects' = Subjects /\ Stamping' /\ Subjects = st.journal.subjects /\ st' = st
  BY <1>1, LastSubject DEF Subjects, Stamping
<1>4. ASSUME NEW t \in Token, Last(st.journal.subjects).token = None,
             Become(p, [pc |-> "mint", phase |-> st.journal.phase, token |-> t])
      PROVE  Intends(p)'
  <2>1. job'[p].pc = "mint" /\ job'[p].phase = st.journal.phase
    BY <1>4, Becomes
  <2> QED BY <1>3, <1>4, <2>1 DEF Intends, Stampers, AtWork
<1>5. ASSUME Become(p, [pc |-> "open", phase |-> st.journal.phase])
      PROVE  Intends(p)'
  <2>1. job'[p].pc = "open" /\ job'[p].phase = st.journal.phase
    BY <1>5, Becomes
  <2> QED BY <1>3, <2>1 DEF Intends, Stampers, AtWork
<1> QED BY <1>2, <1>4, <1>5 DEF Stamp

LEMMA OpenRecords ==
    ASSUME IInv, Recorded, NEW p \in Proc, Intends(p), OpenSubject(p)
    PROVE  Recorded' /\ Intends(p)' /\ Resumes
<1> DEFINE j == st.journal
           pending == Profile \ Last(j.subjects).done
           x == [pc |-> IF pending = {} THEN "advance" ELSE "write",
                 unit |-> port, token |-> Last(j.subjects).token,
                 pending |-> pending, phase |-> job[p].phase,
                 second |-> job[p].phase = "InitialEnrollment" /\ Len(j.subjects) = 1]
<1>1. /\ job[p].pc = "open" /\ UNCHANGED <<st, mark, wiped>> /\ Stamping
      /\ job[p].phase = st.journal.phase /\ Strays /\ strayed \subseteq strayed'
  BY DEF OpenSubject, Intends, Stampers, Strays
<1>2. Recorded' /\ Resumes
  BY <1>1, SameRecord
<1>3. Become(p, Idle) \/ Become(p, [pc |-> "panic"]) \/ (port # None /\ Become(p, x))
  BY DEF OpenSubject
<1>4. CASE Become(p, Idle)
  BY <1>1, <1>4, Refused
<1>5. CASE Become(p, [pc |-> "panic"])
  <2>1. job'[p].pc = "panic"
    BY <1>5, Becomes
  <2> QED BY <1>2, <2>1, NothingIntended
<1>6. CASE port # None /\ Become(p, x)
  <2>1. Subjects = j.subjects /\ ~LostSubject /\ Last(Subjects).done # Profile /\ Last(Subjects).done \in SUBSET Profile
    BY <1>1, LastSubject DEF Subject
  <2>2. pending # {}
    BY <2>1
  <2>3. /\ x.pc = "write" /\ x.token = Last(Subjects).token /\ x.phase = st.journal.phase
        /\ x.pending = Profile \ Last(Subjects).done
        /\ x.second = (st.journal.phase = "InitialEnrollment" /\ Len(Subjects) = 1)
        /\ x.unit = port
    BY <1>1, <2>1, <2>2
  <2> HIDE DEF x
  <2>4. job'[p] = x
    BY <1>6, Becomes
  <2>5. Subjects' = Subjects /\ Stamping' /\ st' = st
    BY <1>1 DEF Subjects, Stamping
  <2>6. port # Last(Subjects).who
           => Last(Subjects).token \in strayed' /\ \A q \in Profile : mark[port][q] \in strayed'
    BY <1>1, <1>6, <2>1 DEF Strays, Exchanged, FullyStamped
  <2>7. Accounted(job[p])'
    BY <1>1, <2>3, <2>4, <2>5, <2>6 DEF Accounted
  <2> QED BY <1>2, <2>3, <2>4, <2>5, <2>7 DEF Intends, Stampers, AtWork
<1> QED BY <1>3, <1>4, <1>5, <1>6

-----------------------------------------------------------------------------
(* ceremony_stamp. *)

\* A stamp replaces no mark of a saved mouse, nor of another subject, that the call
\* did not stray with.
LEMMA StampProfileRecords ==
    ASSUME IInv, Recorded, NEW p \in Proc, Intends(p), StampProfile(p)
    PROVE  Recorded' /\ Intends(p)' /\ Resumes
<1> DEFINE q == Min(job[p].pending)
           k == job[p].token
           pc == IF Cardinality(job[p].pending) = 1 THEN "advance" ELSE "progress"
           x == [job[p] EXCEPT !.pc = pc]
<1>1. /\ StateOK(st) /\ WorkOK(job[p]) /\ job[p].pc = "write" /\ job[p].unit = port
      /\ job[p].pending # {} /\ UNCHANGED <<st, wiped, strayed>>
      /\ port \in Unit /\ mark \in [Unit -> [Profile -> Token \cup {None}]]
  BY DEF IInv, CeremonyType, StampProfile, JobOK, AtWork, WorkOK
<1>2. mark' = [mark EXCEPT ![port] = [mark[port] EXCEPT ![q] = k]]
  BY <1>1 DEF StampProfile
<1>3. q \in job[p].pending /\ q \in Profile /\ k \in Token
  BY <1>1, FirstProfile DEF WorkOK
<1>4. /\ Stamping /\ job[p].phase = st.journal.phase /\ k = Last(Subjects).token
      /\ job[p].pending = Profile \ Last(Subjects).done
      /\ job[p].second = (job[p].phase = "InitialEnrollment" /\ Len(Subjects) = 1)
      /\ \/ port = Last(Subjects).who
         \/ k \in strayed /\ \A r \in Profile : mark[port][r] \in strayed \cup {None}
  BY <1>1 DEF Intends, AtWork, Stampers, Accounted
<1>5. /\ Last(Subjects).who \in Unit /\ k \notin Tokens(st) /\ Subjects \in Seq(Subject)
      /\ Len(Subjects) \in DOMAIN Subjects /\ Last(Subjects) = Subjects[Len(Subjects)]
      /\ \A i \in DOMAIN Subjects : Subjects[i] \in Subject
  <2>1. Last(Subjects) \in Subject
    BY <1>4, LastSubject
  <2>2. Last(Subjects).who \in Unit \/ Last(Subjects).who = port
    BY <2>1 DEF Subject
  <2> QED BY <1>1, <1>4, <2>2, LastSubject, InJournal
<1>6. Become(p, x) \/ Become(p, Idle)
  BY DEF StampProfile
<1> HIDE DEF q, k, pc, x
<1>7. /\ mark'[port][q] = k
      /\ \A r \in Profile : r # q => mark'[port][r] = mark[port][r]
      /\ \A u \in Unit : u # port => mark'[u] = mark[u]
  BY <1>1, <1>2, <1>3
<1>8. Subjects' = Subjects /\ Stamping' = Stamping /\ Tokens(st') = Tokens(st)
  BY <1>1 DEF Subjects, Stamping
<1>9. ASSUME NEW t \in Tokens(st) \ (wiped \cup strayed) PROVE Whole(t)'
  <2>1. PICK u \in Unit : \A r \in Profile : mark[u][r] = t
    BY DEF Recorded, Whole
  <2>2. u # port
    <3>1. port = Last(Subjects).who => u # port
      BY <1>4, <2>1 DEF Recorded, Unowned
    <3> QED BY <1>3, <1>4, <2>1, <3>1 DEF Tokens
  <2> QED BY <1>7, <2>1, <2>2 DEF Whole
<1>10. ASSUME NEW i \in DOMAIN Subjects PROVE Stamped(Subjects[i])'
  <2>0. /\ Subjects[i].token \in wiped \cup strayed \/ \A r \in Subjects[i].done : mark[Subjects[i].who][r] = Subjects[i].token
        /\ Subjects[i].done \in SUBSET Profile /\ Subjects[i].who \in Unit
    BY <1>5 DEF Recorded, Stamped, Subject
  <2>1. CASE Subjects[i].token \in wiped \cup strayed
    BY <1>1, <1>8, <2>1 DEF Stamped
  <2>2. CASE Subjects[i].token \notin wiped \cup strayed /\ i = Len(Subjects)
    <3>1. Subjects[i].token = k /\ Subjects[i].who = port
      BY <1>4, <1>5, <2>2
    <3>2. \A r \in Subjects[i].done : mark'[port][r] = k
      BY <1>7, <2>0, <2>2, <3>1
    <3> QED BY <1>8, <3>1, <3>2 DEF Stamped
  <2>3. CASE Subjects[i].token \notin wiped \cup strayed /\ i # Len(Subjects)
    <3>1. Subjects[i].who # port
      <4>1. Finished(Subjects[i]) /\ Apart(Subjects[i], Last(Subjects).who)
        BY <1>4, <2>3 DEF Recorded
      <4>2. /\ Subjects[i].token # None /\ Subjects[i].done = Profile
            /\ Subjects[i].who # Last(Subjects).who
        BY <2>3, <4>1 DEF Finished, FullyStamped, Apart
      <4>3. mark[Subjects[i].who][q] = Subjects[i].token
        BY <1>3, <2>0, <2>3, <4>2
      <4> QED BY <1>3, <1>4, <2>3, <4>2, <4>3
    <3>2. \A r \in Subjects[i].done : mark'[Subjects[i].who][r] = Subjects[i].token
      BY <1>7, <2>0, <2>3, <3>1
    <3> QED BY <1>8, <3>2 DEF Stamped
  <2> QED BY <2>1, <2>2, <2>3
<1>11. Unowned(Last(Subjects).who)'
  <2>1. CASE port = Last(Subjects).who
    BY <1>3, <1>5, <1>7, <1>8, <2>1 DEF Unowned
  <2>2. CASE port # Last(Subjects).who
    BY <1>4, <1>5, <1>7, <1>8, <2>2 DEF Recorded, Unowned
  <2> QED BY <2>1, <2>2
<1>12. \A i \in DOMAIN Subjects : i # Len(Subjects) => Apart(Subjects[i], Last(Subjects).who)'
  BY <1>1, <1>4, <1>8 DEF Recorded, Apart
<1>13. Recorded'
  BY <1>1, <1>4, <1>8, <1>9, <1>10, <1>11, <1>12 DEF Recorded
<1>14. Resumes
  BY <1>1 DEF Resumes
<1>15. CASE Become(p, Idle)
  <2>1. job'[p].pc = "idle"
    BY <1>15, Becomes DEF Idle
  <2> QED BY <1>13, <1>14, <2>1, NothingIntended
<1>16. CASE Become(p, x)
  <2>1. /\ pc \in {"advance", "progress"}
        /\ pc = "advance" => Cardinality(job[p].pending) = 1
    BY DEF pc
  <2>2. x = [pc |-> pc, unit |-> job[p].unit, token |-> job[p].token,
             pending |-> job[p].pending, phase |-> job[p].phase, second |-> job[p].second]
    BY <1>1 DEF WorkOK, x
  <2>3. job'[p] = x
    BY <1>16, Becomes
  <2>4. /\ job'[p].pc = pc /\ job'[p].unit = port /\ job'[p].token = k
        /\ job'[p].pending = job[p].pending /\ job'[p].phase = job[p].phase
        /\ job'[p].second = job[p].second
    BY <1>1, <2>2, <2>3 DEF k
  <2>5. pc = "advance" => job[p].pending = {q}
    <3>1. IsFiniteSet(job[p].pending)
      BY <1>1, FS_Interval, FS_Subset, ProfilesAssumption DEF WorkOK, Profile
    <3> QED BY <1>3, <2>1, <3>1, FS_Singleton
  <2>6. Min(job'[p].pending) = q
    BY <2>4 DEF q
  <2>7. mark'[job'[p].unit][Min(job'[p].pending)] = job'[p].token
    BY <1>7, <2>4, <2>6
  <2>8. job'[p].pc = "advance" => job'[p].pending = {Min(job'[p].pending)}
    BY <2>4, <2>5, <2>6
  <2>9. Accounted(job[p])'
    <3>1. k \in strayed /\ (\A r \in Profile : mark[port][r] \in strayed \cup {None})
             => \A r \in Profile : mark'[port][r] \in strayed \cup {None}
      BY <1>7
    <3> QED BY <1>1, <1>4, <1>8, <2>4, <3>1 DEF Accounted
  <2>10. Intends(p)'
    BY <1>1, <1>4, <1>8, <2>1, <2>4, <2>7, <2>8, <2>9 DEF Intends, AtWork, Stampers
  <2> QED BY <1>13, <1>14, <2>10
<1> QED BY <1>6, <1>15, <1>16

\* The journal with the progress of the last subject: nothing else of it changes.
IsProgress(s, qs, stage) ==
    LET j == st.journal
        k == s.journal
        n == Len(j.subjects)
    IN  /\ s.devices = st.devices /\ s.mode = st.mode /\ s.ble = st.ble /\ s.next = st.next
        /\ k # None /\ k.phase = j.phase /\ k.stage = stage
        /\ k.subjects \in Seq(Subject) /\ Len(k.subjects) = n /\ n \in 1..n
        /\ \A i \in 1..n : i # n => k.subjects[i] = j.subjects[i]
        /\ k.subjects[n].who = j.subjects[n].who
        /\ k.subjects[n].device = j.subjects[n].device
        /\ k.subjects[n].old = j.subjects[n].old
        /\ k.subjects[n].token = j.subjects[n].token
        /\ k.subjects[n].done = j.subjects[n].done \cup qs

LEMMA Progressed ==
    ASSUME StateOK(st), ~LostSubject, NEW qs \in SUBSET Profile, NEW s,
           NEW stage \in {st.journal.stage, "AwaitingCapture", "Finalizing"},
           s = [st EXCEPT !.journal.subjects[Len(st.journal.subjects)] = MarkStamped(@, qs),
                          !.journal.stage = stage]
    PROVE  IsProgress(s, qs, stage) /\ StateOK(s)
<1> DEFINE j == st.journal
           n == Len(j.subjects)
           new == [j.subjects EXCEPT ![n] = MarkStamped(@, qs)]
<1>1. j \in Journal /\ j.subjects \in Seq(Subject) /\ j.subjects # <<>> /\ n \in 1..n
  BY DEF StateOK, LostSubject, Journal
<1>2. \A b \in Subject :
         LET a == MarkStamped(b, qs)
         IN  /\ a \in Subject /\ a.who = b.who /\ a.device = b.device /\ a.old = b.old
             /\ a.token = b.token /\ a.done = b.done \cup qs
  BY DEF MarkStamped, Subject
<1>3. j.subjects[n] \in Subject
  BY <1>1
<1>4. /\ new \in Seq(Subject) /\ Len(new) = n
      /\ \A i \in 1..n : i # n => new[i] = j.subjects[i]
      /\ new[n] = MarkStamped(j.subjects[n], qs)
  BY <1>1, <1>2
<1>5. s = [st EXCEPT !.journal = [j EXCEPT !.subjects = new, !.stage = stage]]
  BY DEF StateOK, DevicesOK
<1> HIDE DEF new
<1>6. /\ s.journal = [j EXCEPT !.subjects = new, !.stage = stage]
      /\ s.devices = st.devices /\ s.mode = st.mode /\ s.ble = st.ble /\ s.next = st.next
  BY <1>5 DEF StateOK, DevicesOK
<1>7. s.journal.subjects = new /\ s.journal.stage = stage /\ s.journal.phase = j.phase
  <2>1. j \in Journal /\ s.journal = [j EXCEPT !.subjects = new, !.stage = stage]
    BY <1>1, <1>6
  <2> QED BY <2>1 DEF Journal
<1>8. s.journal \in Journal
  BY StampedState
<1>9. s.journal # None
  BY <1>8, JournalAssumption
<1>10. new[n] = MarkStamped(j.subjects[n], qs) /\ s.journal.subjects[n] = MarkStamped(j.subjects[n], qs)
  BY <1>4, <1>7
<1>11. StateOK(s)
  BY StampedState
<1> QED BY ZenonT(40), <1>1, <1>2, <1>3, <1>4, <1>6, <1>7, <1>9, <1>10, <1>11 DEF IsProgress

\* A commit that adds no device, whatever it does to the journal.
LEMMA NewJournal ==
    ASSUME Recorded, UNCHANGED <<mark, wiped, strayed>>, Valid(st'), Tokens(st') \subseteq Tokens(st),
           \A i \in DOMAIN Subjects' : Stamped(Subjects'[i]),
           Stamping' =>
              /\ Unowned(Last(Subjects').who)
              /\ \A i \in DOMAIN Subjects' : i # Len(Subjects') =>
                    Finished(Subjects'[i]) /\ Apart(Subjects'[i], Last(Subjects').who)
    PROVE  Recorded'
<1>1. \A t : Whole(t)' = Whole(t)
  BY DEF Whole
<1>2. \A t \in Tokens(st') \ (wiped \cup strayed) : Whole(t)'
  BY <1>1 DEF Recorded
<1>3. \A i \in DOMAIN Subjects' : Stamped(Subjects[i])'
  BY DEF Stamped
<1>4. Unowned(Last(Subjects').who) => Unowned(Last(Subjects).who)'
  BY DEF Unowned
<1>5. \A i \in DOMAIN Subjects' :
         Apart(Subjects'[i], Last(Subjects').who) => Apart(Subjects[i], Last(Subjects).who)'
  BY DEF Apart
<1> QED BY <1>2, <1>3, <1>4, <1>5 DEF Recorded

\* What the progress that is written next may rest on.
LEMMA WorkIntended ==
    ASSUME IInv, Recorded, NEW p \in Proc, Intends(p), job[p].pc \in AtWork
    PROVE  /\ Stamping /\ WorkOK(job[p]) /\ job[p].phase = st.journal.phase
           /\ Accounted(job[p])
           /\ job[p].token = Last(Subjects).token /\ job[p].token # None
           /\ job[p].pending = Profile \ Last(Subjects).done
           /\ job[p].second = (job[p].phase = "InitialEnrollment" /\ Len(Subjects) = 1)
<1>1. Stamping /\ job[p].phase = st.journal.phase
  BY DEF Intends, Stampers
<1>2. WorkOK(job[p])
  BY DEF IInv, CeremonyType, JobOK
<1>3. Accounted(job[p])
  BY DEF Intends
<1>4. /\ job[p].token = Last(Subjects).token
      /\ job[p].pending = Profile \ Last(Subjects).done
      /\ job[p].second = (job[p].phase = "InitialEnrollment" /\ Len(Subjects) = 1)
  BY DEF Intends
<1> QED BY <1>1, <1>2, <1>3, <1>4, NoneAssumption DEF WorkOK

\* The gate takes the progress of any profiles, if the stage goes with it.
LEMMA ProgressedIsValid ==
    ASSUME IInv, Recorded, Stamping, NEW qs \in SUBSET Profile, NEW s,
           NEW stage \in {st.journal.stage, "AwaitingCapture", "Finalizing"},
           s = [st EXCEPT !.journal.subjects[Len(st.journal.subjects)] = MarkStamped(@, qs),
                          !.journal.stage = stage],
           Last(Subjects).token # None, ValidStage(s.journal)
    PROVE  Valid(s)
<1> DEFINE j == st.journal
           k == s.journal
           n == Len(j.subjects)
<1>1. /\ StateOK(st) /\ ~LostSubject /\ Subjects = j.subjects /\ n \in DOMAIN Subjects
      /\ Last(Subjects) = Subjects[n] /\ Subjects \in Seq(Subject) /\ Valid(st) /\ j # None
  BY InJournal, LastSubject DEF Recorded, Stamping
<1>2. /\ s.devices = st.devices /\ s.mode = st.mode /\ k # None /\ k.phase = j.phase
      /\ k.subjects \in Seq(Subject) /\ Len(k.subjects) = n
      /\ \A i \in 1..n : /\ k.subjects[i].device = j.subjects[i].device
                         /\ k.subjects[i].old = j.subjects[i].old
                         /\ k.subjects[i].token = j.subjects[i].token
                         /\ k.subjects[i].done # {} => j.subjects[i].done # {} \/ i = n
  <2>1. StateOK(st) /\ ~LostSubject
    BY <1>1
  <2>2. /\ s.devices = st.devices /\ s.mode = st.mode /\ k # None /\ k.phase = j.phase
        /\ k.subjects \in Seq(Subject) /\ Len(k.subjects) = n
        /\ \A i \in 1..n : i # n => k.subjects[i] = j.subjects[i]
        /\ k.subjects[n].device = j.subjects[n].device
        /\ k.subjects[n].old = j.subjects[n].old
        /\ k.subjects[n].token = j.subjects[n].token
    <3>1. IsProgress(s, qs, stage)
      BY <2>1, Progressed
    <3> QED BY <3>1 DEF IsProgress
  <2> HIDE DEF j, k, n
  <2> QED BY <2>2
<1> HIDE DEF j, k
<1>3. DOMAIN j.subjects = 1..n /\ DOMAIN k.subjects = 1..n
  BY <1>1, <1>2
<1>4. ValidMode(st) /\ ValidJournal(st)
  <2>1. Valid(st) /\ st.journal # None
    BY <1>1 DEF j
  <2> QED BY <2>1 DEF Valid
<1> HIDE DEF n
<1>5. ValidMode(s) /\ Tokens(s) = Tokens(st)
  <2>1. Tokens(s) = Tokens(st)
    BY <1>2 DEF Tokens
  <2> QED BY <1>2, <1>4, <2>1 DEF ValidMode
<1>6. ASSUME NEW i \in 1..n PROVE ValidSubject(s, k.subjects[i])
  <2>1. ValidSubject(st, j.subjects[i])
    BY <1>3, <1>4 DEF ValidJournal, j
  <2>2. k.subjects[i].done # {} => k.subjects[i].token # None
    BY <1>1, <1>2, <2>1 DEF ValidSubject
  <2> QED BY <1>2, <1>5, <2>1, <2>2 DEF ValidSubject, j, k
<1>7. \A i, l \in 1..n : i # l /\ k.subjects[i].token # None => k.subjects[i].token # k.subjects[l].token
  BY <1>2, <1>3, <1>4 DEF ValidJournal, j
<1>8. ValidJournal(s)
  <2>1. (j.phase = "InitialEnrollment") = (st.mode = "Legacy") /\ n <= MaxSubjects(j.phase)
    BY <1>4 DEF ValidJournal, j, n
  <2>2. (k.phase = "InitialEnrollment") = (s.mode = "Legacy") /\ Len(k.subjects) <= MaxSubjects(k.phase)
    BY <1>2, <2>1
  <2> QED BY ZenonT(40), <1>3, <1>6, <1>7, <2>2 DEF ValidJournal, k
<1> QED BY <1>5, <1>8 DEF Valid

LEMMA ProgressShape ==
    ASSUME StateOK(st), ~LostSubject, NEW q
    PROVE  ProgressState(q) = [st EXCEPT !.journal.subjects[Len(st.journal.subjects)] = MarkStamped(@, {q}),
                                         !.journal.stage = st.journal.stage]
BY DEF ProgressState, StateOK, DevicesOK, Journal, LostSubject

LEMMA ProgressIsValid ==
    ASSUME IInv, Recorded, NEW p \in Proc, Intends(p), job[p].pc = "progress"
    PROVE  Valid(ProgressState(Min(job[p].pending)))
<1> DEFINE q == Min(job[p].pending)
           n == Len(st.journal.subjects)
<1>1. /\ Stamping /\ Last(Subjects).token # None /\ WorkOK(job[p])
      /\ job[p].pending = Profile \ Last(Subjects).done
      /\ job[p].pending # {} /\ Cardinality(job[p].pending) # 1
  BY WorkIntended DEF AtWork, IInv, CeremonyType, JobOK
<1>2. q \in job[p].pending /\ job[p].pending # {q} /\ q \in Profile
  <2>1. q \in job[p].pending
    BY <1>1, FirstProfile DEF WorkOK
  <2>2. job[p].pending # {q}
    BY <1>1, FS_Singleton
  <2> QED BY <1>1, <2>1, <2>2 DEF WorkOK
<1>3. /\ StateOK(st) /\ ~LostSubject /\ Subjects = st.journal.subjects
      /\ Last(Subjects) = Subjects[n] /\ n \in DOMAIN Subjects
      /\ st.journal.phase # "BleAssociation" /\ st.journal.stage = "Stamping"
  BY <1>1, InJournal, LastSubject DEF Stamping
<1> HIDE DEF q
<1>4. PICK s : s = ProgressState(q)
  OBVIOUS
<1>5. s = [st EXCEPT !.journal.subjects[Len(st.journal.subjects)] = MarkStamped(@, {q}),
                     !.journal.stage = st.journal.stage]
  BY <1>3, <1>4, ProgressShape
<1>6. {q} \in SUBSET Profile
  BY <1>2
<1>7. /\ s.journal.phase = st.journal.phase /\ s.journal.stage = st.journal.stage
      /\ s.journal.subjects \in Seq(Subject) /\ Len(s.journal.subjects) = n /\ n \in 1..n
      /\ s.journal.subjects[n].done = st.journal.subjects[n].done \cup {q}
  <2>1. IsProgress(s, {q}, st.journal.stage)
    BY <1>3, <1>5, <1>6, Progressed
  <2> QED BY <2>1 DEF IsProgress
<1>8. ~FullyStamped(Last(s.journal.subjects))
  BY <1>1, <1>2, <1>3, <1>7 DEF FullyStamped, Last
<1>9. ValidStage(s.journal)
  BY <1>3, <1>7, <1>8 DEF ValidStage
<1>10. Valid(s)
  BY <1>1, <1>5, <1>6, <1>9, ProgressedIsValid
<1> QED BY <1>4, <1>10 DEF q

\* What a state with more progress says of the subjects: they are still what the
\* journal says, with the profiles that have just been stamped.
LEMMA ProgressKept ==
    ASSUME IInv, Recorded, Stamping, UNCHANGED <<mark, wiped, strayed>>, NEW qs \in SUBSET Profile,
           NEW stage, IsProgress(st', qs, stage),
           Last(Subjects).token \in wiped \cup strayed
              \/ \A q \in qs : mark[Last(Subjects).who][q] = Last(Subjects).token
    PROVE  /\ Subjects' = st'.journal.subjects /\ Len(Subjects') = Len(Subjects)
           /\ DOMAIN Subjects' = DOMAIN Subjects /\ Tokens(st') = Tokens(st)
           /\ Last(Subjects').who = Last(Subjects).who
           /\ Last(Subjects').token = Last(Subjects).token
           /\ Last(Subjects').done = Last(Subjects).done \cup qs
           /\ \A i \in DOMAIN Subjects : i # Len(Subjects) => Subjects'[i] = Subjects[i]
           /\ \A i \in DOMAIN Subjects' : Stamped(Subjects'[i])
           /\ Resumes
<1> DEFINE n == Len(Subjects)
<1>1. /\ Subjects = st.journal.subjects /\ Subjects \in Seq(Subject) /\ n \in DOMAIN Subjects
      /\ Last(Subjects) = Subjects[n] /\ DOMAIN Subjects = 1..n
  BY InJournal, LastSubject
<1>2. /\ st'.journal # None /\ st'.devices = st.devices
      /\ st'.journal.subjects \in Seq(Subject) /\ Len(st'.journal.subjects) = n
      /\ \A i \in 1..n : i # n => st'.journal.subjects[i] = Subjects[i]
      /\ st'.journal.subjects[n].who = Subjects[n].who
      /\ st'.journal.subjects[n].token = Subjects[n].token
      /\ st'.journal.subjects[n].done = Subjects[n].done \cup qs
  BY <1>1 DEF IsProgress
<1>3. Subjects' = st'.journal.subjects
  BY <1>2 DEF Subjects
<1>4. Len(Subjects') = n /\ DOMAIN Subjects' = 1..n /\ Last(Subjects') = Subjects'[n]
  BY <1>2, <1>3 DEF Last
<1>5. Tokens(st') = Tokens(st)
  BY <1>2 DEF Tokens
<1>6. ASSUME NEW i \in 1..n PROVE Stamped(Subjects'[i])
  <2>1. Stamped(Subjects[i])
    BY <1>1 DEF Recorded
  <2>2. CASE i = n
    <3>1. /\ Subjects'[n].who = Subjects[n].who /\ Subjects'[n].token = Subjects[n].token
          /\ Subjects'[n].done = Subjects[n].done \cup qs
      BY <1>1, <1>2, <1>3
    <3>2. Subjects[n].token \in wiped \cup strayed \/ \A q \in Subjects[n].done : mark[Subjects[n].who][q] = Subjects[n].token
      BY <2>1, <2>2 DEF Stamped
    <3>3. Subjects[n].token \in wiped \cup strayed \/ \A q \in qs : mark[Subjects[n].who][q] = Subjects[n].token
      BY <1>1
    <3> HIDE DEF n
    <3>4. Stamped(Subjects'[n])
      BY <3>1, <3>2, <3>3 DEF Stamped
    <3> QED BY <2>2, <3>4
  <2>3. CASE i # n
    BY <1>2, <1>3, <2>1, <2>3
  <2> QED BY <2>2, <2>3
<1>7. Resumes
  <2>1. ASSUME NEW i \in 1..n
        PROVE  /\ Subjects[i].done \subseteq st'.journal.subjects[i].done
               /\ st'.journal.subjects[i].token = Subjects[i].token
    BY <1>2
  <2> HIDE DEF n
  <2> QED BY <1>1, <1>2, <2>1 DEF Resumes
<1> QED BY <1>1, <1>2, <1>3, <1>4, <1>5, <1>6, <1>7

LEMMA PersistProgressRecords ==
    ASSUME IInv, Recorded, NEW p \in Proc, Intends(p), PersistProgress(p)
    PROVE  Recorded' /\ Intends(p)' /\ Resumes
<1> DEFINE q == Min(job[p].pending)
           x == [job[p] EXCEPT !.pc = "write", !.pending = @ \ {q}]
<1>1. /\ job[p].pc = "progress" /\ UNCHANGED <<mark, wiped, strayed>> /\ Stamping /\ WorkOK(job[p])
      /\ job[p].pending # {} /\ job[p].phase = st.journal.phase
      /\ job[p].token = Last(Subjects).token /\ Accounted(job[p])
      /\ job[p].pending = Profile \ Last(Subjects).done
      /\ job[p].second = (job[p].phase = "InitialEnrollment" /\ Len(Subjects) = 1)
      /\ (Last(Subjects).token \in wiped \cup strayed \/ mark[Last(Subjects).who][q] = Last(Subjects).token)
  BY WorkIntended DEF PersistProgress, AtWork, IInv, CeremonyType, JobOK, Intends, Accounted
<1>2. q \in job[p].pending /\ {q} \in SUBSET Profile
  BY <1>1, FirstProfile DEF WorkOK
<1>3. StateOK(st) /\ ~LostSubject
  BY <1>1, InJournal, LastSubject
<1>4. PICK s : s = ProgressState(q)
  OBVIOUS
<1>5. (st' = s /\ Become(p, x)) \/ (UNCHANGED st /\ Become(p, Idle))
  <2>1. Commit(p, s, x)
    BY <1>1, <1>3, <1>4 DEF PersistProgress
  <2> QED BY <2>1, Commits
<1>6. IsProgress(s, {q}, st.journal.stage)
  <2> HIDE DEF q
  <2>1. s = [st EXCEPT !.journal.subjects[Len(st.journal.subjects)] = MarkStamped(@, {q}),
                       !.journal.stage = st.journal.stage]
    BY <1>3, <1>4, ProgressShape
  <2> QED BY <1>2, <1>3, <2>1, Progressed
<1>7. Valid(s)
  BY <1>1, <1>4, ProgressIsValid
<1>8. /\ x.pc = "write" /\ x.token = job[p].token /\ x.phase = job[p].phase
      /\ x.second = job[p].second /\ x.pending = job[p].pending \ {q}
      /\ x.unit = job[p].unit
  <2> HIDE DEF q
  <2>1. PICK w : w = job[p]
    OBVIOUS
  <2>2. x = [w EXCEPT !.pc = "write", !.pending = @ \ {q}]
    BY <2>1
  <2>3. w = [pc |-> w.pc, unit |-> w.unit, token |-> w.token,
             pending |-> w.pending, phase |-> w.phase, second |-> w.second]
    BY <1>1, <2>1 DEF WorkOK
  <2> HIDE DEF x
  <2>4. PICK y : y = [w EXCEPT !.pc = "write"]
    OBVIOUS
  <2>5. y = [pc |-> "write", unit |-> w.unit, token |-> w.token,
             pending |-> w.pending, phase |-> w.phase, second |-> w.second]
    BY <2>3, <2>4
  <2>6. x = [y EXCEPT !.pending = w.pending \ {q}]
    BY <2>2, <2>4
  <2>7. x = [pc |-> "write", unit |-> w.unit, token |-> w.token,
             pending |-> w.pending \ {q}, phase |-> w.phase, second |-> w.second]
    BY <2>5, <2>6
  <2> QED BY <2>1, <2>7
<1> HIDE DEF q, x
<1>9. CASE UNCHANGED st /\ Become(p, Idle)
  BY <1>1, <1>9, Refused
<1>10. CASE st' = s /\ Become(p, x)
  <2>1. IsProgress(st', {q}, st.journal.stage) /\ Valid(st')
    BY <1>6, <1>7, <1>10
  <2>2. Last(Subjects).token \in wiped \cup strayed
           \/ \A r \in {q} : mark[Last(Subjects).who][r] = Last(Subjects).token
    BY <1>1
  <2>3. /\ Len(Subjects') = Len(Subjects)
        /\ DOMAIN Subjects' = DOMAIN Subjects /\ Tokens(st') = Tokens(st)
        /\ Last(Subjects').who = Last(Subjects).who
        /\ Last(Subjects').token = Last(Subjects).token
        /\ Last(Subjects').done = Last(Subjects).done \cup {q}
        /\ \A i \in DOMAIN Subjects : i # Len(Subjects) => Subjects'[i] = Subjects[i]
        /\ \A i \in DOMAIN Subjects' : Stamped(Subjects'[i])
        /\ Resumes
    BY <1>1, <1>2, <2>1, <2>2, ProgressKept
  <2>4. Stamping' /\ st'.journal.phase = st.journal.phase
    BY <1>1, <2>1 DEF IsProgress, Stamping
  <2>5. Recorded'
    BY <1>1, <2>1, <2>3, NewJournal DEF Recorded
  <2>6. job'[p] = x
    BY <1>10, Becomes
  <2>7. /\ job'[p].pc = "write" /\ job'[p].token = Last(Subjects').token
        /\ job'[p].phase = st'.journal.phase
        /\ job'[p].second = (job'[p].phase = "InitialEnrollment" /\ Len(Subjects') = 1)
        /\ job'[p].pending = Profile \ Last(Subjects').done
    BY <1>1, <1>8, <2>3, <2>4, <2>6
  <2>8. Accounted(job[p])'
    <3>1. job'[p].unit = job[p].unit /\ job'[p].token = job[p].token
      BY <1>8, <2>6
    <3> QED BY <1>1, <2>3, <3>1 DEF Accounted
  <2>9. Intends(p)'
    BY <2>4, <2>7, <2>8 DEF Intends, Stampers, AtWork
  <2> QED BY <2>3, <2>5, <2>9
<1> QED BY <1>5, <1>9, <1>10

-----------------------------------------------------------------------------
(* finalize_ceremony: the tokens of the subjects become devices. *)

Finalizable(s) ==
    LET j == s.journal
    IN  /\ DevicesOK(s) /\ j.phase \in Phases
        /\ j.phase # "BleAssociation" => j.subjects \in Seq(Subject)
        /\ j.phase # "InitialEnrollment" => Len(j.subjects) = 1
        /\ j.phase = "Restore" => j.subjects[1].device \in DOMAIN s.devices

LEMMA FinalDevices ==
    ASSUME NEW s, Finalizable(s)
    PROVE  LET j == s.journal
               subject == j.subjects[1]
               f == FinalizeCeremony(s)
           IN  /\ f.journal = None
               /\ j.phase # "InitialEnrollment" => f.mode = s.mode
               /\ j.phase = "InitialEnrollment" =>
                     f.devices = [d \in s.next..(s.next + Len(j.subjects) - 1) |->
                                     j.subjects[d - s.next + 1].token]
               /\ j.phase \in {"AddMouse", "ForeignAdoption"} =>
                     f.devices = [d \in DOMAIN s.devices \cup {s.next} |->
                                     IF d = s.next THEN subject.token ELSE s.devices[d]]
               /\ j.phase = "Restore" =>
                     f.devices = [s.devices EXCEPT ![subject.device] = subject.token]
               /\ j.phase = "BleAssociation" => f.devices = s.devices
<1> DEFINE j == s.journal
           subject == j.subjects[1]
           f == FinalizeCeremony(s)
           cleared == [s EXCEPT !.journal = None]
<1>1. cleared = [mode |-> s.mode, devices |-> s.devices, ble |-> s.ble, next |-> s.next,
                 journal |-> None]
  BY DEF Finalizable, DevicesOK
<1>2. CASE j.phase = "InitialEnrollment"
  <2> DEFINE g == [d \in s.next..(s.next + Len(j.subjects) - 1) |-> j.subjects[d - s.next + 1].token]
             next == s.next + Len(j.subjects)
  <2>1. f = FinalizeInitialEnrollment(cleared, j.subjects)
    BY <1>2 DEF FinalizeCeremony
  <2>2. f = [cleared EXCEPT !.mode = "Persistent", !.ble = None, !.devices = g, !.next = next]
    BY <1>1, <2>1 DEF FinalizeInitialEnrollment
  <2> HIDE DEF f, g, next, cleared
  <2>3. f = [mode |-> "Persistent", devices |-> g, ble |-> None, next |-> next, journal |-> None]
    BY <1>1, <2>2
  <2> QED BY <1>2, <2>3 DEF f, g
<1>3. CASE j.phase \in {"AddMouse", "ForeignAdoption"}
  <2> DEFINE g == [d \in DOMAIN s.devices \cup {s.next} |->
                      IF d = s.next THEN subject.token ELSE s.devices[d]]
             next == s.next + 1
  <2>1. f = AddDevice(cleared, subject.token)
    BY <1>3 DEF FinalizeCeremony
  <2>2. f = [cleared EXCEPT !.devices = g, !.next = next]
    BY <1>1, <2>1 DEF AddDevice
  <2> HIDE DEF f, g, next, cleared
  <2>3. f = [mode |-> s.mode, devices |-> g, ble |-> s.ble, next |-> next, journal |-> None]
    BY <1>1, <2>2
  <2> QED BY <1>3, <2>3 DEF f, g
<1>4. CASE j.phase = "Restore"
  <2> DEFINE g == [s.devices EXCEPT ![subject.device] = subject.token]
             b == IF s.ble = subject.device THEN None ELSE s.ble
  <2>1. f = [cleared EXCEPT !.devices = g, !.ble = b]
    BY <1>1, <1>4 DEF FinalizeCeremony
  <2> HIDE DEF f, g, b, cleared
  <2>2. f = [mode |-> s.mode, devices |-> g, ble |-> b, next |-> s.next, journal |-> None]
    BY <1>1, <2>1
  <2> QED BY <1>4, <2>2 DEF f, g
<1>5. CASE j.phase = "BleAssociation"
  <2>1. f = [cleared EXCEPT !.ble = subject.device]
    BY <1>5 DEF FinalizeCeremony
  <2> HIDE DEF f, cleared
  <2>2. f = [mode |-> s.mode, devices |-> s.devices, ble |-> subject.device, next |-> s.next,
             journal |-> None]
    BY <1>1, <2>1
  <2> QED BY <1>5, <2>2 DEF f
<1> QED BY <1>2, <1>3, <1>4, <1>5, PhasesAssumption DEF Finalizable

\* Finalizing adds the tokens of the subjects, and no other.
LEMMA FinalTokens ==
    ASSUME NEW s, Finalizable(s)
    PROVE  LET j == s.journal
               f == FinalizeCeremony(s)
           IN  /\ j.phase = "BleAssociation" => Tokens(f) = Tokens(s)
               /\ j.phase # "BleAssociation" =>
                     /\ \A t \in Tokens(f) :
                           t \in Tokens(s) \/ \E i \in DOMAIN j.subjects : t = j.subjects[i].token
                     /\ \A i \in DOMAIN j.subjects :
                           j.subjects[i].token # None => j.subjects[i].token \in Tokens(f)
<1> DEFINE j == s.journal
           f == FinalizeCeremony(s)
           subject == j.subjects[1]
<1>1. /\ DevicesOK(s) /\ j.phase \in Phases
      /\ j.phase # "BleAssociation" => j.subjects \in Seq(Subject)
      /\ j.phase # "InitialEnrollment" => Len(j.subjects) = 1
      /\ j.phase = "Restore" => subject.device \in DOMAIN s.devices
  BY DEF Finalizable
<1>2. CASE j.phase = "InitialEnrollment"
  <2> DEFINE n == Len(j.subjects)
  <2>1. f.devices = [d \in s.next..(s.next + n - 1) |-> j.subjects[d - s.next + 1].token]
    BY <1>2, FinalDevices
  <2>2. s.next \in Nat /\ j.subjects \in Seq(Subject) /\ n \in Nat /\ DOMAIN j.subjects = 1..n
    BY <1>1, <1>2 DEF DevicesOK
  <2> HIDE DEF f, n, j
  <2>3. ASSUME NEW d \in DOMAIN f.devices
        PROVE  d - s.next + 1 \in 1..n /\ f.devices[d] = j.subjects[d - s.next + 1].token
    BY <2>1, <2>2
  <2>4. ASSUME NEW i \in 1..n
        PROVE  s.next + i - 1 \in DOMAIN f.devices /\ f.devices[s.next + i - 1] = j.subjects[i].token
    <3>1. s.next + i - 1 \in s.next..(s.next + n - 1) /\ (s.next + i - 1) - s.next + 1 = i
      BY <2>2
    <3> QED BY <2>1, <3>1
  <2>5. \A t \in Tokens(f) : \E i \in DOMAIN j.subjects : t = j.subjects[i].token
    BY <2>2, <2>3 DEF Tokens
  <2>6. \A i \in DOMAIN j.subjects : j.subjects[i].token # None => j.subjects[i].token \in Tokens(f)
    BY <2>2, <2>4 DEF Tokens
  <2> QED BY <1>2, <2>5, <2>6 DEF f, j
<1>3. CASE j.phase \in {"AddMouse", "ForeignAdoption"}
  <2>1. /\ f.devices = [d \in DOMAIN s.devices \cup {s.next} |->
                           IF d = s.next THEN subject.token ELSE s.devices[d]]
        /\ DOMAIN j.subjects = {1}
    <3>1. DOMAIN j.subjects = 1..1
      BY <1>1, <1>3
    <3>2. f.devices = [d \in DOMAIN s.devices \cup {s.next} |->
                           IF d = s.next THEN subject.token ELSE s.devices[d]]
      BY <1>3, FinalDevices
    <3> HIDE DEF f, j, subject
    <3> QED BY <3>1, <3>2
  <2> HIDE DEF f, j, subject
  <2>2. \A t \in Tokens(f) : t \in Tokens(s) \/ t = subject.token
    BY <2>1 DEF Tokens
  <2>3. subject.token # None => subject.token \in Tokens(f)
    BY <2>1 DEF Tokens
  <2> QED BY <1>3, <2>1, <2>2, <2>3 DEF f, j, subject
<1>4. CASE j.phase = "Restore"
  <2>1. /\ f.devices = [s.devices EXCEPT ![subject.device] = subject.token]
        /\ DOMAIN j.subjects = {1}
    <3>1. DOMAIN j.subjects = 1..1
      BY <1>1, <1>4
    <3>2. f.devices = [s.devices EXCEPT ![subject.device] = subject.token]
      BY <1>4, FinalDevices
    <3> HIDE DEF f, j, subject
    <3> QED BY <3>1, <3>2
  <2>2. subject.device \in DOMAIN s.devices
    BY <1>1, <1>4
  <2> HIDE DEF f, j, subject
  <2>3. DOMAIN f.devices = DOMAIN s.devices
    BY <2>1
  <2>4. /\ f.devices[subject.device] = subject.token
        /\ \A d \in DOMAIN s.devices : d # subject.device => f.devices[d] = s.devices[d]
    BY <2>1, <2>2
  <2>5. \A t \in Tokens(f) : t \in Tokens(s) \/ t = subject.token
    BY <2>3, <2>4 DEF Tokens
  <2>6. subject.token # None => subject.token \in Tokens(f)
    BY <2>2, <2>3, <2>4 DEF Tokens
  <2> QED BY <1>4, <2>1, <2>5, <2>6 DEF f, j, subject
<1>5. CASE j.phase = "BleAssociation"
  <2>1. f.devices = s.devices
    BY <1>5, FinalDevices
  <2>2. Tokens(f) = Tokens(s)
    <3> HIDE DEF f
    <3> QED BY <2>1 DEF Tokens
  <2> QED BY <1>5, <2>2
<1> QED BY <1>1, <1>2, <1>3, <1>4, <1>5, PhasesAssumption

LEMMA Finalized ==
    ASSUME Recorded, NEW s, Finalizable(s), s.devices = st.devices,
           st' = FinalizeCeremony(s), Valid(st'), UNCHANGED <<mark, wiped, strayed>>,
           s.journal.phase # "BleAssociation" =>
              \A i \in DOMAIN s.journal.subjects :
                 Stamped(s.journal.subjects[i]) /\ FullyStamped(s.journal.subjects[i])
    PROVE  Recorded' /\ st'.journal = None
<1> DEFINE j == s.journal
<1>1. st'.journal = None /\ Tokens(s) = Tokens(st)
  <2>1. st'.journal = None
    BY FinalDevices
  <2>2. Tokens(s) = Tokens(st)
    BY DEF Tokens
  <2> QED BY <2>1, <2>2
<1>2. Subjects' = <<>> /\ ~Stamping'
  BY <1>1 DEF Subjects, Stamping
<1>3. ASSUME NEW t \in Tokens(st') \ (wiped \cup strayed) PROVE Whole(t)
  <2>1. CASE t \in Tokens(st)
    BY <2>1 DEF Recorded
  <2>2. CASE t \notin Tokens(st)
    <3>1. j.phase # "BleAssociation"
      BY <1>1, <2>2, FinalTokens
    <3>2. PICK i \in DOMAIN j.subjects : t = j.subjects[i].token
      BY <1>1, <2>2, <3>1, FinalTokens
    <3>3. j.subjects[i] \in Subject /\ Stamped(j.subjects[i]) /\ FullyStamped(j.subjects[i])
      BY <3>1 DEF Finalizable
    <3> HIDE DEF j
    <3> QED BY <3>2, <3>3 DEF Stamped, FullyStamped, Whole, Subject
  <2> QED BY <2>1, <2>2
<1>4. \A t : Whole(t)' = Whole(t)
  BY DEF Whole
<1> QED BY <1>1, <1>2, <1>3, <1>4 DEF Recorded

\* The gate takes the device that a stamped subject becomes.
LEMMA FinalIsValid ==
    ASSUME NEW s, Finalizable(s), ValidMode(s), s.mode # "Legacy",
           s.journal.phase \in {"AddMouse", "ForeignAdoption", "Restore"},
           s.journal.subjects[1].token # None, s.journal.subjects[1].token \notin Tokens(s)
    PROVE  Valid(FinalizeCeremony(s))
<1> DEFINE f == FinalizeCeremony(s)
           subject == s.journal.subjects[1]
           old == s.devices
<1>1. f.journal = None /\ f.mode = s.mode
  BY FinalDevices
<1>2. \A d, e \in DOMAIN old : old[d] # None /\ (old[d] = old[e] => d = e)
  BY DEF ValidMode
<1>3. \A d \in DOMAIN old : old[d] # subject.token
  BY DEF Tokens
<1>4. CASE s.journal.phase \in {"AddMouse", "ForeignAdoption"}
  <2>1. f.devices = [d \in DOMAIN old \cup {s.next} |-> IF d = s.next THEN subject.token ELSE old[d]]
    BY <1>4, FinalDevices
  <2>2. subject.token # None
    OBVIOUS
  <2> HIDE DEF f, old, subject
  <2>3. \A d, e \in DOMAIN f.devices :
           f.devices[d] # None /\ (f.devices[d] = f.devices[e] => d = e)
    BY <1>2, <1>3, <2>1, <2>2
  <2> QED BY <1>1, <2>3 DEF Valid, ValidMode, f
<1>5. CASE s.journal.phase = "Restore"
  <2>1. f.devices = [old EXCEPT ![subject.device] = subject.token]
    BY <1>5, FinalDevices
  <2>2. subject.token # None
    OBVIOUS
  <2> HIDE DEF f, old, subject
  <2>3. \A d, e \in DOMAIN f.devices :
           f.devices[d] # None /\ (f.devices[d] = f.devices[e] => d = e)
    BY <1>2, <1>3, <2>1, <2>2
  <2> QED BY <1>1, <2>3 DEF Valid, ValidMode, f
<1> QED BY <1>4, <1>5

\* The journal with its last subject stamped completely, in the stage that this
\* call gives it.
AdvancedJournal(p, s) ==
    \E stage \in {"AwaitingCapture", "Finalizing"} :
       /\ IsProgress(s, job[p].pending, stage) /\ StateOK(s)
       /\ \/ AdvancedState(p) = s
          \/ /\ AdvancedState(p) = FinalizeCeremony(s) /\ Finalizable(s)
             /\ s.journal.phase \in {"AddMouse", "ForeignAdoption", "Restore"}

LEMMA AdvanceIsValid ==
    ASSUME IInv, Recorded, NEW p \in Proc, Intends(p), job[p].pc = "advance"
    PROVE  Valid(AdvancedState(p)) /\ \E s : AdvancedJournal(p, s)
<1> DEFINE j == st.journal
           n == Len(j.subjects)
           qs == job[p].pending
           stage == IF job[p].second THEN "AwaitingCapture" ELSE "Finalizing"
<1>1. /\ Stamping /\ WorkOK(job[p]) /\ job[p].phase = j.phase
      /\ Last(Subjects).token # None /\ qs = Profile \ Last(Subjects).done
      /\ job[p].second = (j.phase = "InitialEnrollment" /\ Len(Subjects) = 1)
  BY WorkIntended DEF AtWork
<1>2. /\ StateOK(st) /\ ~LostSubject /\ Subjects = j.subjects /\ Subjects \in Seq(Subject)
      /\ Last(Subjects) = Subjects[n] /\ n \in DOMAIN Subjects /\ DOMAIN Subjects = 1..n
      /\ j.phase # "BleAssociation" /\ j \in Journal /\ Last(Subjects) \in Subject
      /\ Last(Subjects).token \notin Tokens(st)
  BY <1>1, InJournal, LastSubject
<1>3. /\ (j.phase = "InitialEnrollment") = (st.mode = "Legacy")
      /\ n <= MaxSubjects(j.phase) /\ ValidMode(st)
      /\ \A i \in 1..n : ValidSubject(st, Subjects[i])
  BY <1>1, <1>2 DEF Recorded, Valid, ValidJournal, Stamping
<1>4. PICK s : s = [st EXCEPT !.journal.subjects[n] = MarkStamped(@, qs), !.journal.stage = stage]
  OBVIOUS
<1>5. qs \in SUBSET Profile /\ stage \in {"AwaitingCapture", "Finalizing"}
  BY <1>1
<1>6. IsProgress(s, qs, stage) /\ StateOK(s)
  <2> HIDE DEF qs, stage
  <2> QED BY <1>2, <1>4, <1>5, Progressed
<1>7. IF job[p].second \/ j.phase = "InitialEnrollment"
      THEN AdvancedState(p) = s ELSE AdvancedState(p) = FinalizeCeremony(s)
  BY <1>1, <1>4 DEF AdvancedState
<1>8. /\ s.devices = st.devices /\ s.mode = st.mode
      /\ s.journal.phase = j.phase /\ s.journal.stage = stage
      /\ s.journal.subjects \in Seq(Subject) /\ Len(s.journal.subjects) = n
      /\ \A i \in 1..n : i # n => s.journal.subjects[i] = Subjects[i]
      /\ s.journal.subjects[n].token = Subjects[n].token
      /\ s.journal.subjects[n].device = Subjects[n].device
      /\ s.journal.subjects[n].done = Subjects[n].done \cup qs
  BY <1>2, <1>6 DEF IsProgress
<1>9. ASSUME NEW i \in 1..n PROVE Finished(s.journal.subjects[i])
  <2>1. CASE i = n
    <3>1. s.journal.subjects[n].done = Profile
      BY <1>1, <1>2, <1>8 DEF Subject
    <3> QED BY <1>1, <1>2, <1>8, <2>1, <3>1 DEF Finished, FullyStamped
  <2>2. CASE i # n
    BY <1>1, <1>2, <1>8, <2>2 DEF Recorded
  <2> QED BY <2>1, <2>2
<1> HIDE DEF stage, qs
<1>10. CASE job[p].second \/ j.phase = "InitialEnrollment"
  <2>1. ValidStage(s.journal)
    <3>1. CASE job[p].second
      <4>1. stage = "AwaitingCapture" /\ n = 1 /\ MaxSubjects(s.journal.phase) = 2
        BY <1>1, <1>2, <1>8, <3>1 DEF stage, MaxSubjects
      <4> QED BY <1>8, <1>9, <4>1 DEF ValidStage
    <3>2. CASE ~job[p].second
      <4>1. stage = "Finalizing" /\ n = 2 /\ MaxSubjects(s.journal.phase) = 2
        <5>1. stage = "Finalizing" /\ s.journal.phase = "InitialEnrollment" /\ j.phase = "InitialEnrollment"
          BY <1>8, <1>10, <3>2 DEF stage
        <5>2. n \in Nat /\ n # 0 /\ n # 1
          <6>1. n \in Nat /\ n # 0
            BY <1>2
          <6>2. Len(Subjects) = n
            BY <1>2
          <6> HIDE DEF n, j
          <6>3. n # 1
            BY <1>1, <3>2, <5>1, <6>2
          <6> QED BY <6>1, <6>3
        <5>3. n <= 2 /\ MaxSubjects(s.journal.phase) = 2
          BY <1>3, <5>1 DEF MaxSubjects
        <5> HIDE DEF n, j
        <5> QED BY <5>1, <5>2, <5>3
      <4> QED BY <1>8, <1>9, <4>1 DEF ValidStage
    <3> QED BY <3>1, <3>2
  <2>2. Valid(s)
    BY <1>1, <1>4, <1>5, <2>1, ProgressedIsValid
  <2> QED BY <1>5, <1>6, <1>7, <1>10, <2>2 DEF AdvancedJournal, qs
<1>11. CASE ~job[p].second /\ j.phase # "InitialEnrollment"
  <2>1. /\ n = 1 /\ j.phase \in {"AddMouse", "ForeignAdoption", "Restore"}
        /\ st.mode # "Legacy"
    <3>1. n \in Nat /\ n # 0
      BY <1>2
    <3>2. n <= 1
      BY <1>3, <1>11 DEF MaxSubjects
    <3>3. j.phase \in Phases
      BY <1>2 DEF Journal
    <3> HIDE DEF j, n
    <3>4. j.phase \in {"AddMouse", "ForeignAdoption", "Restore"}
      BY <1>2, <1>11, <3>3, PhasesAssumption
    <3> QED BY <1>3, <1>11, <3>1, <3>2, <3>4
  <2>2. j.phase = "Restore" => Subjects[1].device \in DOMAIN st.devices
    BY <1>1, <1>3, <2>1 DEF ValidSubject
  <2>3. Finalizable(s)
    BY <1>2, <1>6, <1>8, <1>11, <2>1, <2>2 DEF Finalizable, StateOK, Journal
  <2>4. Tokens(s) = Tokens(st) /\ ValidMode(s)
    <3>1. Tokens(s) = Tokens(st)
      BY <1>8 DEF Tokens
    <3> QED BY <1>3, <1>8, <3>1 DEF ValidMode
  <2>5. /\ s.journal.subjects[1].token # None
        /\ s.journal.subjects[1].token \notin Tokens(s)
    BY <1>1, <1>2, <1>8, <2>1, <2>4
  <2>6. s.mode # "Legacy" /\ s.journal.phase \in {"AddMouse", "ForeignAdoption", "Restore"}
    BY <1>8, <2>1
  <2>7. Valid(FinalizeCeremony(s))
    BY <2>3, <2>4, <2>5, <2>6, FinalIsValid
  <2> QED BY <1>5, <1>6, <1>7, <1>11, <2>3, <2>6, <2>7 DEF AdvancedJournal, qs
<1> QED BY <1>10, <1>11

LEMMA AdvanceCeremonyRecords ==
    ASSUME IInv, Recorded, NEW p \in Proc, Intends(p), AdvanceCeremony(p)
    PROVE  Recorded' /\ Intends(p)' /\ Resumes
<1> DEFINE qs == job[p].pending
<1>1. /\ job[p].pc = "advance" /\ UNCHANGED <<mark, wiped, strayed>> /\ Stamping /\ WorkOK(job[p])
      /\ job[p].token = Last(Subjects).token
      /\ Last(Subjects).token # None /\ qs = {Min(qs)} /\ qs = Profile \ Last(Subjects).done
      /\ (Last(Subjects).token \in wiped \cup strayed \/ mark[Last(Subjects).who][Min(qs)] = Last(Subjects).token)
  BY WorkIntended DEF AdvanceCeremony, AtWork, Intends, Accounted
<1>2. /\ StateOK(st) /\ ~LostSubject /\ Subjects = st.journal.subjects /\ Subjects \in Seq(Subject)
      /\ Last(Subjects) = Subjects[Len(Subjects)] /\ Len(Subjects) \in DOMAIN Subjects
      /\ Last(Subjects) \in Subject /\ DOMAIN Subjects = 1..Len(Subjects)
  BY <1>1, InJournal, LastSubject
<1>3. PICK s : AdvancedJournal(p, s)
  BY <1>1, AdvanceIsValid
<1>4. st' = AdvancedState(p) /\ Valid(st') /\ Become(p, Idle)
  BY <1>1, <1>2, AdvanceIsValid DEF AdvanceCeremony, Commit
<1>5. PICK stage \in {"AwaitingCapture", "Finalizing"} :
         /\ IsProgress(s, qs, stage) /\ StateOK(s)
         /\ \/ st' = s
            \/ /\ st' = FinalizeCeremony(s) /\ Finalizable(s)
               /\ s.journal.phase \in {"AddMouse", "ForeignAdoption", "Restore"}
  BY <1>3, <1>4 DEF AdvancedJournal
<1>6. Intends(p)'
  <2>1. job'[p].pc = "idle"
    BY <1>4, Becomes DEF Idle
  <2> QED BY <2>1, NothingIntended
<1>7. \/ Last(Subjects).token \in wiped \cup strayed
      \/ \A r \in qs : mark[Last(Subjects).who][r] = Last(Subjects).token
  <2> HIDE DEF qs
  <2> QED BY <1>1
<1>8. qs \in SUBSET Profile
  BY <1>1
<1> HIDE DEF qs
<1>9. CASE st' = s
  <2>1. IsProgress(st', qs, stage)
    BY <1>5, <1>9
  <2>2. /\ Tokens(st') = Tokens(st) /\ \A i \in DOMAIN Subjects' : Stamped(Subjects'[i])
        /\ Resumes
    BY <1>1, <1>7, <1>8, <2>1, ProgressKept
  <2>3. ~Stamping'
    BY <2>1 DEF IsProgress, Stamping
  <2>4. Recorded'
    BY <1>1, <1>4, <2>2, <2>3, NewJournal
  <2> QED BY <1>6, <2>2, <2>4
<1>10. CASE /\ st' = FinalizeCeremony(s) /\ Finalizable(s)
            /\ s.journal.phase \in {"AddMouse", "ForeignAdoption", "Restore"}
  <2> DEFINE k == s.journal
  <2>1. /\ s.devices = st.devices /\ Len(k.subjects) = Len(Subjects) /\ k.subjects \in Seq(Subject)
        /\ k.subjects[Len(Subjects)].who = Last(Subjects).who
        /\ k.subjects[Len(Subjects)].token = Last(Subjects).token
        /\ k.subjects[Len(Subjects)].done = Last(Subjects).done \cup qs
    BY <1>2, <1>5 DEF IsProgress
  <2>2. Len(Subjects) = 1
    BY <1>10, <2>1 DEF Finalizable
  <2>3. DOMAIN k.subjects = {1} /\ DOMAIN Subjects = {1}
    <3>1. DOMAIN k.subjects = 1..1 /\ DOMAIN Subjects = 1..1
      BY <1>2, <2>1, <2>2
    <3> HIDE DEF k
    <3> QED BY <3>1
  <2>4. Stamped(k.subjects[1]) /\ FullyStamped(k.subjects[1])
    <3>1. Stamped(Last(Subjects)) /\ Last(Subjects).done \in SUBSET Profile
      BY <1>2 DEF Recorded, Subject
    <3>2. k.subjects[1].done = Profile
      BY <1>1, <2>1, <2>2, <3>1
    <3>3. Last(Subjects).token \in wiped \cup strayed
             \/ \A r \in Last(Subjects).done : mark[Last(Subjects).who][r] = Last(Subjects).token
      BY <3>1 DEF Stamped
    <3>4. k.subjects[1].who = Last(Subjects).who /\ k.subjects[1].token = Last(Subjects).token
          /\ k.subjects[1].done = Last(Subjects).done \cup qs
      BY <2>1, <2>2
    <3> HIDE DEF k
    <3> QED BY <1>7, <3>2, <3>3, <3>4 DEF Stamped, FullyStamped
  <2>5. Recorded' /\ st'.journal = None
    <3>1. \A i \in DOMAIN k.subjects : Stamped(k.subjects[i]) /\ FullyStamped(k.subjects[i])
      BY <2>3, <2>4
    <3> QED BY <1>1, <1>4, <1>10, <2>1, <3>1, Finalized
  <2>6. Last(Subjects).token \in Tokens(st')
    BY <1>1, <1>10, <2>1, <2>2, <2>3, FinalTokens
  <2>7. Resumes
    BY <1>2, <2>2, <2>3, <2>5, <2>6 DEF Resumes
  <2> QED BY <1>6, <2>5, <2>7
<1> QED BY <1>5, <1>9, <1>10

\* The minted token is reserved for a subject that has no stamp yet.
LEMMA MintCommitRecords ==
    ASSUME IInv, Recorded, NEW p \in Proc, Intends(p), MintCommit(p)
    PROVE  Recorded' /\ Intends(p)' /\ Resumes
<1> DEFINE j == st.journal
           n == Len(j.subjects)
           new == [j.subjects EXCEPT ![n] = [@ EXCEPT !.token = job[p].token]]
           s == [st EXCEPT !.journal = [j EXCEPT !.subjects = new]]
           x == [pc |-> "open", phase |-> job[p].phase]
<1>1. /\ StateOK(st) /\ job[p].pc = "mint" /\ job[p].token \in Token
      /\ UNCHANGED <<mark, wiped, strayed>> /\ Stamping /\ job[p].phase = j.phase
      /\ Last(Subjects).token = None
  BY DEF IInv, CeremonyType, MintCommit, JobOK, Intends, Stampers
<1>2. /\ ~LostSubject /\ Subjects = j.subjects /\ j \in Journal /\ j.subjects \in Seq(Subject)
      /\ n \in DOMAIN j.subjects /\ Last(Subjects) = j.subjects[n]
      /\ Last(Subjects).done = {} /\ DOMAIN j.subjects = 1..n
  BY <1>1, InJournal, LastSubject
<1>3. Commit(p, s, x)
  BY <1>1, <1>2 DEF MintCommit, StateOK, DevicesOK, LostSubject, Journal
<1>4. \A subject \in Subject :
         LET r == [subject EXCEPT !.token = job[p].token]
         IN  r \in Subject /\ r.who = subject.who /\ r.done = subject.done
  BY <1>1 DEF Subject
<1>5. /\ new \in Seq(Subject) /\ Len(new) = n /\ DOMAIN new = 1..n
      /\ \A i \in 1..n : i # n => new[i] = j.subjects[i]
      /\ new[n].who = j.subjects[n].who /\ new[n].done = {}
  BY <1>2, <1>4
<1> HIDE DEF new
<1>6. [j EXCEPT !.subjects = new] \in Journal
  BY <1>2, <1>5 DEF Journal
<1>7. s.journal = [j EXCEPT !.subjects = new] /\ s.devices = st.devices
  BY <1>1 DEF StateOK, DevicesOK
<1>8. /\ s.journal.subjects = new /\ s.journal.stage = j.stage /\ s.journal.phase = j.phase
      /\ s.journal # None
  BY <1>2, <1>6, <1>7, JournalAssumption DEF Journal
<1> HIDE DEF s
<1>9. x.pc = "open" /\ x.phase = j.phase
  BY <1>1
<1> HIDE DEF x
<1>10. CASE UNCHANGED st /\ Become(p, Idle)
  BY <1>1, <1>10, Refused
<1>11. CASE st' = s /\ Become(p, x)
  <2>1. Valid(st')
    BY <1>1, <1>3, <1>11 DEF Commit, Recorded
  <2>2. /\ Subjects' = new /\ Stamping' /\ Tokens(st') = Tokens(st) /\ st'.journal.phase = j.phase
        /\ st'.journal # None /\ st'.journal.subjects = new
    <3>1. /\ st'.journal # None /\ st'.journal.subjects = new /\ st'.journal.stage = "Stamping"
          /\ st'.journal.phase = j.phase /\ st'.devices = st.devices
      BY <1>1, <1>7, <1>8, <1>11 DEF Stamping
    <3>2. Tokens(st') = Tokens(st)
      BY <3>1 DEF Tokens
    <3> HIDE DEF j, n
    <3> QED BY <3>1, <3>2 DEF Subjects, Stamping
  <2>3. ASSUME NEW i \in 1..n PROVE Stamped(new[i])
    <3>1. CASE i = n
      BY <1>5, <3>1 DEF Stamped
    <3>2. CASE i # n
      BY <1>2, <1>5, <3>2 DEF Recorded
    <3> QED BY <3>1, <3>2
  <2>4. Last(Subjects').who = Last(Subjects).who /\ Len(Subjects') = n
    BY <1>2, <1>5, <2>2 DEF Last
  <2>5. Recorded'
    <3>1. \A i \in DOMAIN Subjects' : Stamped(Subjects'[i])
      BY <1>5, <2>2, <2>3
    <3>2. Unowned(Last(Subjects').who)
      BY <1>1, <2>4 DEF Recorded
    <3>3. \A i \in DOMAIN Subjects' : i # Len(Subjects') =>
             Finished(Subjects'[i]) /\ Apart(Subjects'[i], Last(Subjects').who)
      BY <1>1, <1>2, <1>5, <2>2, <2>4 DEF Recorded
    <3> QED BY <1>1, <2>1, <2>2, <3>1, <3>2, <3>3, NewJournal
  <2>6. job'[p] = x
    BY <1>11, Becomes
  <2>7. Intends(p)'
    BY <1>9, <2>2, <2>6 DEF Intends, Stampers, AtWork
  <2>8. ASSUME NEW i \in 1..n
        PROVE  /\ j.subjects[i].done \subseteq new[i].done
               /\ j.subjects[i].token # None => new[i].token = j.subjects[i].token
    <3>1. CASE i = n
      BY <1>1, <1>2, <3>1
    <3>2. CASE i # n
      BY <1>5, <3>2
    <3> QED BY <3>1, <3>2
  <2>9. Resumes
    BY <1>2, <2>2, <2>8 DEF Resumes
  <2> QED BY <2>5, <2>7, <2>9
<1> QED BY <1>3, <1>10, <1>11, Commits

-----------------------------------------------------------------------------
(* The transactions that start a ceremony or end it. *)

\* A journal without subjects, or none.
LEMMA EmptyJournal ==
    ASSUME Recorded, UNCHANGED <<mark, wiped, strayed>>, Valid(st'), Tokens(st') \subseteq Tokens(st),
           Subjects' = <<>>, ~Stamping'
    PROVE  Recorded'
BY NewJournal

LEMMA BeginCommitRecords ==
    ASSUME IInv, Recorded, NEW p \in Proc, Intends(p), BeginCommit(p)
    PROVE  Recorded' /\ Intends(p)' /\ Resumes
<1> DEFINE j == [phase |-> job[p].phase, stage |-> "AwaitingCapture", subjects |-> <<>>]
           s == [st EXCEPT !.journal = j]
<1>1. st.journal = None /\ StateOK(st) /\ UNCHANGED <<mark, wiped, strayed>> /\ Commit(p, s, Idle)
  BY DEF BeginCommit, Intends, IInv, CeremonyType
<1>2. j.stage = "AwaitingCapture" /\ j.subjects = <<>>
  OBVIOUS
<1> HIDE DEF j
<1>3. s.journal = j /\ s.devices = st.devices
  BY <1>1 DEF StateOK, DevicesOK
<1> HIDE DEF s
<1>4. CASE UNCHANGED st /\ Become(p, Idle)
  BY <1>1, <1>4, Refused
<1>5. CASE st' = s /\ Become(p, Idle)
  <2>1. Valid(st')
    BY <1>1, <1>5 DEF Commit, Recorded
  <2>2. Tokens(st') = Tokens(st) /\ Subjects' = <<>> /\ ~Stamping'
    BY <1>2, <1>3, <1>5 DEF Tokens, Subjects, Stamping
  <2>3. Recorded'
    BY <1>1, <2>1, <2>2, EmptyJournal
  <2>4. job'[p].pc = "idle"
    BY <1>5, Becomes DEF Idle
  <2>5. Resumes
    BY <1>1 DEF Resumes
  <2> QED BY <2>3, <2>4, <2>5, NothingIntended
<1> QED BY <1>1, <1>4, <1>5, Commits

\* Only a ceremony that has stamped nothing is cancelled.
LEMMA CancelCommitRecords ==
    ASSUME IInv, Recorded, NEW p \in Proc, Intends(p), CancelCommit(p)
    PROVE  Recorded' /\ Intends(p)' /\ Resumes
<1> DEFINE s == [st EXCEPT !.journal = None]
<1>1. /\ ~Irreversible(st.journal) /\ StateOK(st) /\ UNCHANGED <<mark, wiped, strayed>>
      /\ Commit(p, s, Idle)
  BY DEF CancelCommit, Intends, IInv, CeremonyType
<1>2. s.journal = None /\ s.devices = st.devices
  BY <1>1 DEF StateOK, DevicesOK
<1> HIDE DEF s
<1>3. CASE UNCHANGED st /\ Become(p, Idle)
  BY <1>1, <1>3, Refused
<1>4. CASE st' = s /\ Become(p, Idle)
  <2>1. Valid(st')
    BY <1>1, <1>4 DEF Commit, Recorded
  <2>2. Tokens(st') = Tokens(st) /\ Subjects' = <<>> /\ ~Stamping'
    BY <1>2, <1>4 DEF Tokens, Subjects, Stamping
  <2>3. Recorded'
    BY <1>1, <2>1, <2>2, EmptyJournal
  <2>4. job'[p].pc = "idle"
    BY <1>4, Becomes DEF Idle
  <2>5. Resumes
    BY <1>1 DEF Resumes
  <2> QED BY <2>3, <2>4, <2>5, NothingIntended
<1> QED BY <1>1, <1>3, <1>4, Commits

\* The migration is finalized when both mice have been stamped completely.
LEMMA FinalizeCommitRecords ==
    ASSUME IInv, Recorded, NEW p \in Proc, Intends(p), FinalizeCommit(p)
    PROVE  Recorded' /\ Intends(p)' /\ Resumes
<1> DEFINE j == st.journal
<1>1. /\ j # None /\ j.phase = "InitialEnrollment" /\ j.stage = "Finalizing"
      /\ StateOK(st) /\ UNCHANGED <<mark, wiped, strayed>> /\ j \in Journal /\ Subjects = j.subjects
      /\ Subjects \in Seq(Subject)
  BY InJournal DEF FinalizeCommit, Intends
<1>2. ~Unfinalizable(j)
  BY <1>1 DEF Unfinalizable
<1>3. Commit(p, FinalizeCeremony(st), Idle)
  BY <1>1, <1>2 DEF FinalizeCommit
<1>4. \A i \in DOMAIN j.subjects : Finished(j.subjects[i]) /\ Stamped(j.subjects[i])
  <2>1. ValidStage(j)
    BY <1>1 DEF Recorded, Valid, ValidJournal
  <2> QED BY <1>1, <2>1 DEF ValidStage, Recorded
<1>5. Finalizable(st)
  BY <1>1 DEF Finalizable, StateOK, Journal
<1>6. CASE UNCHANGED st /\ Become(p, Idle)
  BY <1>1, <1>6, Refused
<1>7. CASE st' = FinalizeCeremony(st) /\ Become(p, Idle)
  <2>1. Valid(st')
    BY <1>1, <1>3, <1>7 DEF Commit, Recorded
  <2>2. Recorded' /\ st'.journal = None
    <3>1. \A i \in DOMAIN j.subjects : Stamped(j.subjects[i]) /\ FullyStamped(j.subjects[i])
      BY <1>4 DEF Finished
    <3> QED BY <1>1, <1>5, <1>7, <2>1, <3>1, Finalized
  <2>3. \A i \in DOMAIN j.subjects : j.subjects[i].token \in Tokens(st')
    BY <1>1, <1>4, <1>5, <1>7, FinalTokens DEF Finished
  <2>4. Resumes
    BY <2>2, <2>3 DEF Resumes
  <2>5. job'[p].pc = "idle"
    BY <1>7, Becomes DEF Idle
  <2> QED BY <2>2, <2>4, <2>5, NothingIntended
<1> QED BY <1>3, <1>6, <1>7, Commits

\* A Bluetooth association has no mouse to stamp.
LEMMA AssociateRecords ==
    ASSUME IInv, Recorded, NEW p \in Proc, NEW d \in DOMAIN st.devices, Associate(p, d)
    PROVE  Recorded' /\ Intends(p)' /\ Resumes
<1> DEFINE subject == [who |-> None, device |-> d, old |-> None, token |-> None, done |-> {}]
           j == [st.journal EXCEPT !.subjects = <<subject>>, !.stage = "Finalizing"]
           s == [st EXCEPT !.journal.subjects = <<subject>>, !.journal.stage = "Finalizing"]
<1>1. /\ st.journal # None /\ st.journal \in Journal /\ st.journal.phase = "BleAssociation"
      /\ Subjects = st.journal.subjects /\ Subjects \in Seq(Subject) /\ StateOK(st)
      /\ Len(st.journal.subjects) < 1 /\ UNCHANGED <<mark, wiped, strayed>>
  BY InJournal DEF Associate, AwaitsCapture, MaxSubjects
<1>2. j.phase = "BleAssociation" /\ j.subjects = <<subject>>
  BY <1>1 DEF Journal
<1>3. s = [st EXCEPT !.journal = j]
  BY <1>1 DEF StateOK, DevicesOK
<1>4. Commit(p, FinalizeCeremony(s), Idle)
  BY DEF Associate
<1> HIDE DEF j, s
<1>5. DevicesOK(s) /\ s.journal = j /\ s.devices = st.devices
  BY <1>1, <1>3 DEF StateOK, DevicesOK
<1>6. Len(j.subjects) = 1 /\ "BleAssociation" \in Phases
  BY <1>1, <1>2 DEF Journal
<1>7. Finalizable(s)
  BY <1>2, <1>5, <1>6 DEF Finalizable
<1>8. CASE UNCHANGED st /\ Become(p, Idle)
  BY <1>1, <1>8, Refused
<1>9. CASE st' = FinalizeCeremony(s) /\ Become(p, Idle)
  <2>1. Valid(st')
    BY <1>1, <1>4, <1>9 DEF Commit, Recorded
  <2>2. Recorded'
    BY <1>1, <1>2, <1>5, <1>7, <1>9, <2>1, Finalized
  <2>3. Resumes
    BY <1>1 DEF Resumes, Irreversible
  <2>4. job'[p].pc = "idle"
    BY <1>9, Becomes DEF Idle
  <2> QED BY <2>2, <2>3, <2>4, NothingIntended
<1> QED BY <1>4, <1>8, <1>9, Commits

-----------------------------------------------------------------------------
(* ceremony_reconnected: the captured mouse becomes the last subject. *)

LEMMA CaptureCommitRecords ==
    ASSUME IInv, Recorded, NEW p \in Proc, Intends(p), CaptureCommit(p)
    PROVE  Recorded' /\ Intends(p)' /\ Resumes
<1> DEFINE j == st.journal
           subject == job[p].subject
           new == Append(j.subjects, subject)
           at(stage) == [st EXCEPT !.journal = [j EXCEPT !.subjects = new, !.stage = stage]]
<1>1. /\ StateOK(st) /\ job[p].pc = "capture" /\ UNCHANGED <<mark, wiped, strayed>>
      /\ subject \in Subject /\ Held(subject)
      /\ FullyStamped(subject) => job[p].phase = "ForeignAdoption"
  BY DEF IInv, CeremonyType, CaptureCommit, JobOK, Intends
<1>2. CASE Become(p, Idle) /\ UNCHANGED st
  BY <1>1, <1>2, Refused
<1>3. CASE /\ j # None /\ j.phase = job[p].phase /\ j.stage = "AwaitingCapture"
           /\ \/ FullyStamped(subject) /\ Commit(p, FinalizeCeremony(at("Finalizing")), Idle)
              \/ ~FullyStamped(subject) /\ Commit(p, at("Stamping"), Idle)
  <2>1. /\ j \in Journal /\ Subjects = j.subjects /\ j.subjects \in Seq(Subject)
        /\ j.phase \in Phases
    BY <1>3, InJournal DEF Journal
  <2>2. ValidStage(j)
    BY <1>3 DEF Recorded, Valid, ValidJournal
  <2>3. /\ Len(Subjects) < MaxSubjects(j.phase)
        /\ \A i \in DOMAIN Subjects : Finished(Subjects[i])
    BY <1>3, <2>1, <2>2 DEF ValidStage
  <2>4. /\ new \in Seq(Subject) /\ new # <<>> /\ Len(new) = Len(Subjects) + 1
        /\ Last(new) = subject /\ new[Len(new)] = subject /\ DOMAIN new = 1..Len(new)
        /\ \A i \in 1..Len(new) : i # Len(new) => i \in DOMAIN Subjects /\ new[i] = Subjects[i]
        /\ \A i \in DOMAIN Subjects : i \in 1..Len(new) /\ new[i] = Subjects[i]
    BY <1>1, <2>1 DEF Last
  <2> HIDE DEF new
  <2>5. ASSUME NEW stage \in {"Stamping", "Finalizing"}, NEW s, s = at(stage)
        PROVE  /\ DevicesOK(s) /\ s.devices = st.devices /\ s.journal \in Journal
               /\ s.journal.subjects = new /\ s.journal.phase = j.phase /\ s.journal.stage = stage
    <3>1. PICK k : k = [j EXCEPT !.subjects = new, !.stage = stage]
      OBVIOUS
    <3>2. k \in Journal /\ k.subjects = new /\ k.phase = j.phase /\ k.stage = stage
      BY <2>1, <2>4, <3>1 DEF Journal
    <3>3. s = [st EXCEPT !.journal = k]
      BY <2>5, <3>1
    <3>4. DevicesOK(s) /\ s.journal = k /\ s.devices = st.devices
      BY <1>1, <3>2, <3>3 DEF StateOK, DevicesOK
    <3> QED BY <3>2, <3>4
  <2>6. ASSUME Become(p, Idle) PROVE Intends(p)'
    <3>1. job'[p].pc = "idle"
      BY <2>6, Becomes DEF Idle
    <3> QED BY <3>1, NothingIntended
  <2>7. ASSUME NEW i \in 1..Len(new) PROVE Stamped(new[i])
    BY <1>1, <2>4 DEF Recorded, Held
  <2>8. CASE FullyStamped(subject) /\ Commit(p, FinalizeCeremony(at("Finalizing")), Idle)
    <3>1. PICK s : s = at("Finalizing")
      OBVIOUS
    <3>2. Commit(p, FinalizeCeremony(s), Idle)
      BY <2>8, <3>1
    <3>3. /\ DevicesOK(s) /\ s.devices = st.devices /\ s.journal.subjects = new
          /\ s.journal.phase = "ForeignAdoption" /\ "ForeignAdoption" \in Phases
      BY <1>1, <1>3, <2>1, <2>5, <2>8, <3>1
    <3>4. Len(Subjects) = 0 /\ Len(new) = 1 /\ Subjects = <<>>
      <4>1. MaxSubjects(j.phase) = 1 /\ Len(Subjects) \in Nat
        BY <1>1, <1>3, <2>1, <2>8 DEF MaxSubjects
      <4>2. Len(Subjects) = 0
        BY <2>3, <4>1
      <4> QED BY <2>1, <2>4, <4>2
    <3>5. Finalizable(s)
      BY <2>4, <3>3, <3>4 DEF Finalizable
    <3>6. CASE UNCHANGED st /\ Become(p, Idle)
      BY <1>1, <3>6, Refused
    <3>7. CASE st' = FinalizeCeremony(s) /\ Become(p, Idle)
      <4>1. Valid(st')
        BY <3>2, <3>7 DEF Commit, Recorded
      <4>2. \A i \in DOMAIN new : Stamped(new[i]) /\ FullyStamped(new[i])
        BY <2>4, <2>7, <2>8, <3>4
      <4>3. Recorded'
        BY <1>1, <3>3, <3>5, <3>7, <4>1, <4>2, Finalized
      <4>4. Resumes
        BY <1>3, <2>1, <3>4 DEF Resumes, Irreversible
      <4> QED BY <2>6, <3>7, <4>3, <4>4
    <3> QED BY <3>2, <3>6, <3>7, Commits
  <2>9. CASE Commit(p, at("Stamping"), Idle)
    <3>1. PICK s : s = at("Stamping")
      OBVIOUS
    <3>2. /\ Commit(p, s, Idle) /\ s.devices = st.devices /\ s.journal.subjects = new
          /\ s.journal # None
      BY ZenonT(40), <2>5, <2>9, <3>1, JournalAssumption
    <3>3. CASE UNCHANGED st /\ Become(p, Idle)
      BY <1>1, <3>3, Refused
    <3>4. CASE st' = s /\ Become(p, Idle)
      <4>1. Valid(st')
        BY <3>2, <3>4 DEF Commit, Recorded
      <4>2. /\ Tokens(st') = Tokens(st) /\ Subjects' = new
            /\ st'.journal # None /\ st'.journal.subjects = new
        <5>1. Tokens(st') = Tokens(st)
          BY <3>2, <3>4 DEF Tokens
        <5> QED BY <3>2, <3>4, <5>1 DEF Subjects
      <4>3. Recorded'
        <5>1. Unowned(Last(Subjects').who)
          BY <1>1, <2>4, <4>2 DEF Held
        <5>2. \A i \in DOMAIN Subjects' : i # Len(Subjects') =>
                 Finished(Subjects'[i]) /\ Apart(Subjects'[i], Last(Subjects').who)
          BY <1>1, <2>3, <2>4, <4>2 DEF Held
        <5>3. \A i \in DOMAIN Subjects' : Stamped(Subjects'[i])
          BY <2>4, <2>7, <4>2
        <5> QED BY <1>1, <4>1, <4>2, <5>1, <5>2, <5>3, NewJournal
      <4>4. Resumes
        BY <2>1, <2>4, <4>2 DEF Resumes
      <4> QED BY <2>6, <3>4, <4>3, <4>4
    <3> QED BY <3>2, <3>3, <3>4, Commits
  <2> QED BY <1>3, <2>8, <2>9
<1>4. StateOK(st) /\ j # None => \A stage :
         [st EXCEPT !.journal.subjects = Append(@, subject), !.journal.stage = stage] = at(stage)
  BY DEF StateOK, DevicesOK
<1> QED BY <1>1, <1>2, <1>3, <1>4 DEF CaptureCommit

-----------------------------------------------------------------------------
(* What others do. *)

\* Devices go, and marks are lost to other software; the journal stays.
LEMMA OthersRecord ==
    ASSUME Recorded, NEW p \in Proc, Intends(p), Valid(st'), st'.journal = st.journal,
           UNCHANGED <<job, strayed>>, Tokens(st') \subseteq Tokens(st), wiped \subseteq wiped',
           \A u, q : mark'[u][q] = mark[u][q] \/ (mark'[u][q] = None /\ mark[u][q] \in wiped')
    PROVE  Recorded' /\ Intends(p)' /\ Resumes
<1>1. Subjects' = Subjects /\ Stamping' = Stamping
  BY DEF Subjects, Stamping
<1>2. \A subject : Stamped(subject) => Stamped(subject)'
  BY DEF Stamped
<1>3. \A u : Unowned(u) => Unowned(u)'
  BY DEF Unowned, Tokens
<1>4. \A subject, u : Apart(subject, u) => Apart(subject, u)'
  BY DEF Apart
<1>5. \A t \in Tokens(st') \ (wiped' \cup strayed') : Whole(t)'
  BY DEF Recorded, Whole
<1>6. Recorded'
  BY <1>1, <1>2, <1>3, <1>4, <1>5 DEF Recorded
<1>7. \A subject : Held(subject) => Held(subject)'
  BY <1>1, <1>2, <1>3, <1>4 DEF Held
<1>8. job[p].pc = "capture" => Held(job[p].subject)'
  BY <1>7 DEF Intends, Held, Stamped, Unowned, Apart
<1>9. job[p].pc \in {"progress", "advance"} =>
         \/ job[p].token \in wiped' \cup strayed'
         \/ mark'[job[p].unit][Min(job[p].pending)] = job[p].token
  BY DEF Intends
<1>10. job[p].pc \in AtWork => Accounted(job[p])'
  BY <1>1 DEF Intends, Accounted
<1>11. Intends(p)'
  BY <1>1, <1>8, <1>9, <1>10 DEF Intends
<1> QED BY <1>6, <1>11 DEF Resumes

LEMMA ForgetDeviceRecords ==
    ASSUME IInv, Recorded, NEW p \in Proc, Intends(p),
           NEW d \in DOMAIN st.devices, ForgetDevice(d)
    PROVE  Recorded' /\ Intends(p)' /\ Resumes
<1> DEFINE f == [e \in DOMAIN st.devices \ {d} |-> st.devices[e]]
           ble == IF st.ble = d THEN None ELSE st.ble
<1>1. /\ UNCHANGED <<mark, job, wiped, strayed>> /\ StateOK(st) /\ Valid(st')
      /\ st' = [st EXCEPT !.devices = f, !.ble = ble]
  BY DEF ForgetDevice, IInv, CeremonyType
<1>2. DOMAIN f \subseteq DOMAIN st.devices /\ \A e \in DOMAIN f : f[e] = st.devices[e]
  OBVIOUS
<1> HIDE DEF f, ble
<1>3. st'.journal = st.journal /\ st'.devices = f
  BY <1>1 DEF StateOK, DevicesOK
<1>4. Tokens(st') \subseteq Tokens(st)
  BY <1>2, <1>3 DEF Tokens
<1> QED BY <1>1, <1>3, <1>4, OthersRecord

LEMMA LoseMarkRecords ==
    ASSUME IInv, Recorded, NEW p \in Proc, Intends(p),
           NEW u \in Unit, NEW q \in Profile, LoseMark(u, q)
    PROVE  Recorded' /\ Intends(p)' /\ Resumes
<1>1. /\ UNCHANGED <<st, job, strayed>> /\ wiped' = wiped \cup {mark[u][q]}
      /\ mark \in [Unit -> [Profile -> Token \cup {None}]]
      /\ mark' = [mark EXCEPT ![u] = [mark[u] EXCEPT ![q] = None]]
  BY DEF LoseMark, IInv, CeremonyType
<1>2. \A v, r : mark'[v][r] = mark[v][r] \/ (mark'[v][r] = None /\ mark[v][r] \in wiped')
  BY <1>1
<1>3. Valid(st')
  BY <1>1 DEF Recorded
<1> QED BY <1>1, <1>2, <1>3, OthersRecord

-----------------------------------------------------------------------------
(* The process at work takes every step of a ceremony. *)

Call(p) ==
    \/ \E phase \in Phases : BeginCheck(p, phase)
    \/ BeginCommit(p)
    \/ \E q \in Profile, d \in DOMAIN st.devices \cup {None} : Capture(p, q, d)
    \/ CaptureCommit(p)
    \/ Stamp(p) \/ Adopt(p) \/ MintCommit(p) \/ OpenSubject(p) \/ StampProfile(p)
    \/ PersistProgress(p) \/ AdvanceCeremony(p)
    \/ \E d \in DOMAIN st.devices : Associate(p, d)
    \/ FinalizeCheck(p) \/ FinalizeCommit(p)
    \/ CancelCheck(p) \/ CancelCommit(p)
    \/ CallFails(p)

Others ==
    \/ \E d \in DOMAIN st.devices : ForgetDevice(d)
    \/ \E u \in Unit \cup {None} : Plug(u)
    \/ \E u \in Unit, q \in Profile : LoseMark(u, q)

LEMMA Steps ==
    ASSUME [Next]_vars
    PROVE  (\E p \in Proc : Call(p)) \/ Others \/ UNCHANGED vars
BY DEF Next, Call, Others

\* A process that is not there makes no call.
LEMMA CallerWorks ==
    ASSUME NEW p \in Proc, Call(p)
    PROVE  job[p] # Absent
<1>1. Idle # Absent /\ Absent.pc = "absent"
  BY DEF Idle, Absent
<1>2. CASE job[p] = Idle
  BY <1>1, <1>2
<1>3. CASE job[p] # Idle
  BY <1>1, <1>3 DEF Call, BeginCheck, BeginCommit, Capture, CaptureCommit, Stamp, Adopt, MintCommit,
     OpenSubject, StampProfile, PersistProgress, AdvanceCeremony, Associate, FinalizeCheck,
     FinalizeCommit, CancelCheck, CancelCommit, CallFails
<1> QED BY <1>2, <1>3

\* The call that a step leaves is a call, or an idle process.
LEMMA StillThere ==
    ASSUME IInv, NEW p \in Proc, Call(p)
    PROVE  \E x : Become(p, x) /\ x # Absent
<1>1. Absent.pc = "absent" /\ Idle # Absent
  BY DEF Idle, Absent
<1>2. CASE \/ \E phase \in Phases : BeginCheck(p, phase)
           \/ FinalizeCheck(p) \/ CancelCheck(p) \/ CallFails(p)
  <2> DEFINE x(phase) == [pc |-> "begin", phase |-> phase]
  <2>1. \/ Become(p, Idle) \/ Become(p, [pc |-> "finalize"]) \/ Become(p, [pc |-> "cancel"])
        \/ \E phase \in Phases : Become(p, x(phase))
    BY <1>2 DEF BeginCheck, FinalizeCheck, CancelCheck, CallFails
  <2>2. /\ [pc |-> "finalize"] # Absent /\ [pc |-> "cancel"] # Absent
        /\ \A phase : x(phase) # Absent
    BY <1>1
  <2> HIDE DEF x
  <2> QED BY <1>1, <2>1, <2>2
<1>3. CASE \/ BeginCommit(p) \/ CaptureCommit(p) \/ AdvanceCeremony(p) \/ FinalizeCommit(p)
           \/ CancelCommit(p) \/ \E d \in DOMAIN st.devices : Associate(p, d)
  <2>1. \A s : Commit(p, s, Idle) => Become(p, Idle)
    BY DEF Commit
  <2> QED BY <1>1, <1>3, <2>1 DEF BeginCommit, CaptureCommit, AdvanceCeremony, FinalizeCommit,
        CancelCommit, Associate
<1>4. CASE \E q \in Profile, d \in DOMAIN st.devices \cup {None} : Capture(p, q, d)
  <2>1. PICK q \in Profile, d \in DOMAIN st.devices \cup {None} : Capture(p, q, d)
    BY <1>4
  <2>2. \/ Become(p, [pc |-> "panic"])
        \/ \E old, token : Become(p, [pc |-> "capture", phase |-> st.journal.phase,
                                      subject |-> CapturedSubject(d, old, token)])
    <3>1. CASE st.journal.phase = "ForeignAdoption"
      BY <2>1, <3>1 DEF Capture
    <3>2. CASE st.journal.phase = "Restore"
      BY <2>1, <3>2 DEF Capture
    <3>3. CASE st.journal.phase = "BleAssociation"
      BY <2>1, <3>3 DEF Capture
    <3>4. CASE st.journal.phase \notin {"ForeignAdoption", "Restore", "BleAssociation"}
      BY <2>1, <3>4 DEF Capture
    <3> QED BY <3>1, <3>2, <3>3, <3>4
  <2>3. [pc |-> "panic"] # Absent
    BY DEF Absent
  <2>4. \A old, token : [pc |-> "capture", phase |-> st.journal.phase,
                         subject |-> CapturedSubject(d, old, token)] # Absent
    BY <1>1
  <2> QED BY <2>2, <2>3, <2>4
<1>5. CASE Stamp(p) \/ Adopt(p)
  <2> DEFINE x(t) == [pc |-> "mint", phase |-> st.journal.phase, token |-> t]
             y == [pc |-> "open", phase |-> st.journal.phase]
  <2>1. Become(p, y) \/ \E t \in Token : Become(p, x(t))
    BY <1>5 DEF Stamp, Adopt
  <2>2. y # Absent /\ \A t : x(t) # Absent
    BY <1>1
  <2> HIDE DEF x, y
  <2> QED BY <2>1, <2>2
<1>6. CASE MintCommit(p)
  <2> DEFINE x == [pc |-> "open", phase |-> job[p].phase]
  <2>1. Become(p, Idle) \/ Become(p, x)
    BY <1>6 DEF MintCommit, Commit
  <2>2. x # Absent
    BY <1>1
  <2> QED BY <1>1, <2>1, <2>2
<1>7. CASE OpenSubject(p)
  <2> DEFINE pending == Profile \ Last(st.journal.subjects).done
             x == [pc |-> IF pending = {} THEN "advance" ELSE "write",
                   unit |-> port, token |-> Last(st.journal.subjects).token,
                   pending |-> pending, phase |-> job[p].phase,
                   second |-> job[p].phase = "InitialEnrollment" /\ Len(st.journal.subjects) = 1]
  <2>1. Become(p, Idle) \/ Become(p, [pc |-> "panic"]) \/ Become(p, x)
    BY <1>7 DEF OpenSubject
  <2>2. [pc |-> "panic"] # Absent
    BY DEF Absent
  <2>3. x # Absent
    BY <1>1
  <2> HIDE DEF x
  <2> QED BY <1>1, <2>1, <2>2, <2>3
<1>8. CASE StampProfile(p) \/ PersistProgress(p)
  <2> DEFINE q == Min(job[p].pending)
             x == [job[p] EXCEPT !.pc = IF Cardinality(job[p].pending) = 1 THEN "advance" ELSE "progress"]
             y == [job[p] EXCEPT !.pc = "write", !.pending = @ \ {q}]
  <2>1. Become(p, Idle) \/ Become(p, x) \/ Become(p, y)
    BY <1>8 DEF StampProfile, PersistProgress, Commit
  <2>2. "unit" \in DOMAIN job[p]
    <3>1. WorkOK(job[p])
      BY <1>8 DEF StampProfile, PersistProgress, IInv, CeremonyType, JobOK, AtWork
    <3> QED BY <3>1 DEF WorkOK
  <2>3. DOMAIN x = DOMAIN job[p] /\ DOMAIN y = DOMAIN job[p] /\ "unit" \notin DOMAIN Absent
    BY DEF Absent
  <2> HIDE DEF x, y
  <2> QED BY <1>1, <2>1, <2>2, <2>3
<1> QED BY <1>2, <1>3, <1>4, <1>5, <1>6, <1>7, <1>8 DEF Call

\* No process joins, and none leaves for good.
LEMMA SameProcesses ==
    ASSUME IInv, [Next]_vars
    PROVE  \A p \in Proc : job'[p] = Absent <=> job[p] = Absent
<1>1. ASSUME NEW p \in Proc, Call(p) PROVE \A r \in Proc : job'[r] = Absent <=> job[r] = Absent
  <2>1. PICK x : Become(p, x) /\ x # Absent
    BY <1>1, StillThere
  <2>2. job'[p] = x /\ \A r \in Proc : r # p => job'[r] = job[r]
    BY <2>1, OtherJobs DEF IInv, CeremonyType
  <2>3. job[p] # Absent
    BY <1>1, CallerWorks
  <2> QED BY <2>1, <2>2, <2>3
<1>2. CASE Others \/ UNCHANGED vars
  BY <1>2 DEF Others, ForgetDevice, Plug, LoseMark, vars
<1> QED BY <1>1, <1>2, Steps

LEMMA CallRecords ==
    ASSUME IInv, Recorded, NEW p \in Proc, Intends(p), Call(p)
    PROVE  Recorded' /\ Intends(p)' /\ Resumes
<1>1. CASE \/ \E phase \in Phases : BeginCheck(p, phase)
           \/ FinalizeCheck(p) \/ CancelCheck(p) \/ CallFails(p)
  BY <1>1, ChecksRecord
<1>2. CASE \/ BeginCommit(p) \/ CancelCommit(p) \/ FinalizeCommit(p)
           \/ \E d \in DOMAIN st.devices : Associate(p, d)
  BY <1>2, BeginCommitRecords, CancelCommitRecords, FinalizeCommitRecords, AssociateRecords
<1>3. CASE \/ \E q \in Profile, d \in DOMAIN st.devices \cup {None} : Capture(p, q, d)
           \/ CaptureCommit(p)
  BY <1>3, CaptureRecords, CaptureCommitRecords
<1>4. CASE \/ Stamp(p) \/ Adopt(p) \/ MintCommit(p) \/ OpenSubject(p)
           \/ StampProfile(p) \/ PersistProgress(p) \/ AdvanceCeremony(p)
  BY <1>4, StampRecords, MintCommitRecords, OpenRecords, StampProfileRecords,
     PersistProgressRecords, AdvanceCeremonyRecords DEF Adopt
<1> QED BY <1>1, <1>2, <1>3, <1>4 DEF Call

\* Every step, while the process is the only one at work.
LEMMA AloneRecords ==
    ASSUME IInv, [Next]_vars, NEW p \in Proc, Alone(p), Recorded, Intends(p)
    PROVE  Recorded' /\ Intends(p)' /\ Resumes
<1>1. ASSUME NEW r \in Proc, Call(r) PROVE r = p
  BY <1>1, CallerWorks DEF Alone
<1>2. CASE \E r \in Proc : Call(r)
  BY <1>1, <1>2, CallRecords
<1>3. CASE Others
  <2>1. ASSUME NEW u \in Unit \cup {None}, Plug(u) PROVE Recorded' /\ Intends(p)' /\ Resumes
    <3>1. UNCHANGED <<st, mark, wiped, strayed, job>>
      BY <2>1 DEF Plug
    <3>2. Valid(st') /\ Tokens(st') \subseteq Tokens(st)
      BY <3>1 DEF Recorded
    <3> QED BY <3>1, <3>2, OthersRecord
  <2> QED BY <1>3, <2>1, ForgetDeviceRecords, LoseMarkRecords DEF Others
<1>4. CASE UNCHANGED vars
  <2>1. UNCHANGED <<st, mark, wiped, strayed, job>>
    BY <1>4 DEF vars
  <2>2. Valid(st') /\ Tokens(st') \subseteq Tokens(st)
    BY <2>1 DEF Recorded
  <2> QED BY <2>1, <2>2, OthersRecord
<1> QED BY <1>2, <1>3, <1>4, Steps

LEMMA OneInit == Init => OneInv
<1> SUFFICES ASSUME Init PROVE OneInv
  OBVIOUS
<1>1. PICK t \in Token, w \in Unit :
         \/ /\ mark = [v \in Unit |-> [q \in Profile |-> None]]
            /\ st = [mode |-> "Legacy", devices |-> [d \in {1} |-> None], ble |-> None,
                     next |-> 2, journal |-> None]
         \/ /\ mark = [v \in Unit |-> [q \in Profile |-> IF v = w THEN t ELSE None]]
            /\ st = [mode |-> "Persistent", devices |-> [d \in {1} |-> t], ble |-> None,
                     next |-> 2, journal |-> None]
  BY DEF Init
<1>2. /\ st.journal = None /\ DOMAIN st.devices = {1}
      /\ \/ st.mode = "Legacy" /\ st.devices[1] = None
         \/ st.mode = "Persistent" /\ st.devices[1] = t /\ \A q \in Profile : mark[w][q] = t
  BY <1>1
<1>3. Tokens(st) = {st.devices[1]} \ {None}
  BY <1>2 DEF Tokens
<1>4. Valid(st)
  <2>1. Cardinality(DOMAIN st.devices) <= 1
    BY <1>2, FS_Singleton
  <2> QED BY <1>2, <1>3, <2>1, NoneAssumption DEF Valid, ValidMode
<1>5. Recorded
  <2>1. Subjects = <<>> /\ ~Stamping
    BY <1>2 DEF Subjects, Stamping
  <2>2. \A s \in Tokens(st) : Whole(s)
    BY <1>2, <1>3 DEF Whole
  <2> QED BY <1>4, <2>1, <2>2 DEF Recorded
<1>6. ASSUME NEW p \in Proc PROVE Intends(p)
  <2>1. job[p].pc \in {"idle", "absent"}
    BY DEF Init, Idle, Absent
  <2> QED BY <2>1 DEF Intends, Stampers, AtWork
<1> QED BY <1>5, <1>6 DEF OneInv

LEMMA OneNext ==
    ASSUME IInv, OneInv, [Next]_vars
    PROVE  OneInv'
<1> SUFFICES ASSUME NEW p \in Proc, Alone(p)' PROVE Recorded' /\ Intends(p)'
  BY DEF OneInv
<1>1. Alone(p)
  BY SameProcesses DEF Alone
<1> QED BY <1>1, AloneRecords DEF OneInv

\* One process at work is alone at work.
LEMMA OneWorks ==
    ASSUME Cardinality(Working) = 1
    PROVE  \E p \in Proc : Alone(p)
<1>1. IsFiniteSet(Working)
  BY FS_Subset, ProcAssumption DEF Working
<1>2. PICK p : Working = {p}
  BY <1>1, FS_Singleton
<1> QED BY <1>2 DEF Working, Alone

\* What the journal records is on the mice, and the call of the one process that
\* is at work intends what the journal says.
THEOREM OneInvariance == Spec => []OneInv
<1>1. IInv /\ OneInv /\ [Next]_vars => OneInv'
  BY OneNext
<1> QED BY OneInit, Invariance, <1>1, PTL DEF Spec

\* A device in state.json is a mouse that carries its token in every profile,
\* whichever call of ceremony_stamp or finalize_ceremony failed or died on the
\* way, and whichever mouse was unplugged, as long as one process runs the
\* ceremonies: unless a call stamped another mouse than the captured one, with
\* this token or over it.
THEOREM DevicesStayStamped == Spec => []DevicesAreStamped
<1>1. OneInv => DevicesAreStamped
  BY OneWorks DEF OneInv, Recorded, Whole, DevicesAreStamped
<1> QED BY OneInvariance, <1>1, PTL

\* validate_identity_setup and validate_identity_mode accept the progress of every
\* stamp that has been written, and the transaction that advances the ceremony.
THEOREM StampsAreRecorded == Spec => []StampIsRecorded
<1>1. IInv /\ OneInv => StampIsRecorded
  <2> SUFFICES ASSUME IInv, OneInv, Cardinality(Working) = 1, NEW p \in Proc
               PROVE  /\ job[p].pc = "advance" => Valid(AdvancedState(p))
                      /\ job[p].pc = "progress" => Valid(ProgressState(Min(job[p].pending)))
    BY DEF StampIsRecorded
  <2>1. PICK r \in Proc : Alone(r)
    BY OneWorks
  <2>2. job[p].pc \in {"advance", "progress"} => p = r
    BY <2>1 DEF Alone, Absent
  <2>3. Recorded /\ Intends(r)
    BY <2>1 DEF OneInv
  <2> QED BY <2>2, <2>3, AdvanceIsValid, ProgressIsValid
<1> QED BY Invariance, OneInvariance, <1>1, PTL

\* A ceremony that has stamped a profile keeps its stamps and its tokens through
\* every resumption, cancellation and failure, until it ends with devices that
\* have these tokens.
THEOREM CeremoniesResume == Spec => CeremonyResumes
<1> DEFINE X == Cardinality(Working) = 1 /\ st.journal # None /\ Irreversible(st.journal)
                   /\ st'.journal # st.journal =>
                \A i \in DOMAIN st.journal.subjects :
                   LET subject == st.journal.subjects[i]
                   IN  IF st'.journal = None THEN subject.token \in Tokens(st')
                       ELSE /\ subject.done \subseteq st'.journal.subjects[i].done
                            /\ subject.token # None =>
                                  st'.journal.subjects[i].token = subject.token
<1>1. IInv /\ OneInv /\ [Next]_vars => [X]_vars
  <2> SUFFICES ASSUME IInv, OneInv, [Next]_vars, Cardinality(Working) = 1 PROVE X
    OBVIOUS
  <2>1. PICK p \in Proc : Alone(p)
    BY OneWorks
  <2>2. Resumes
    BY <2>1, AloneRecords DEF OneInv
  <2> QED BY <2>2 DEF Resumes
<1> HIDE DEF X
<1>2. Spec => [][X]_vars
  BY Invariance, OneInvariance, <1>1, PTL DEF Spec
<1> QED BY <1>2 DEF X, CeremonyResumes
=============================================================================
