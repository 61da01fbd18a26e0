--------------------------- MODULE StateStoreProofs ---------------------------
(***************************************************************************)
(* What state.json holds.  The disk backend implements AtomicStore for any *)
(* number of processes and any number of edits: the invariant says what    *)
(* the holder of state.lock knows at each step of its transaction, and     *)
(* what every directory a power loss may leave behind still includes.      *)
(* The resource records in it are coherent (ResourceEvidence), and the     *)
(* mice in it are taken for the mice that carry their tokens (Attachment). *)
(***************************************************************************)
EXTENDS StateStore, ResourceEvidence, Attachment, FiniteSetTheorems, TLAPS

\* A transaction about to replace the file either adds its own edit to the
\* document in place, or starts over from one that is wholly set aside.
Pending(p) ==
    \/ /\ work[p] = {} /\ edit[p] = {}
       /\ EditsIn(dir.file) \subseteq Backups(dir)
    \/ LET e == <<p, serial[p]>>
       IN  /\ e \in Edit /\ e \notin EditsIn(dir.file)
           /\ edit[p] = {e} /\ work[p] = EditsIn(dir.file) \cup {e}

\* Only the holder of the lock is inside a transaction, and nothing it read
\* or prepared has gone stale.
InTransaction(p) ==
    /\ pc[p] # "idle" => lock = p
    /\ pc[p] = "loaded" => base[p] = EditsIn(dir.file)
    /\ pc[p] = "backup" => EditsIn(dir.file) \subseteq Backups(dir)
    /\ pc[p] \in {"changed", "temp", "synced"} => Pending(p)
    /\ pc[p] \in {"temp", "synced"} => temp[p] \in Content /\ temp[p].edits = work[p]
    /\ pc[p] = "synced" => temp[p].synced
    /\ pc[p] = "renamed" => edit[p] \subseteq EditsIn(dir.file) \cap {<<p, serial[p]>>}

\* A directory that may outlive a power loss: its file is whole, on Unix every
\* edit reported saved is in it or in a backup, and no edit is yet to be made.
Survivor(d) ==
    /\ d.file # None => d.file.synced
    /\ unix => told \subseteq EditsIn(d.file) \cup Backups(d)
    /\ \A p \in Proc : \A n \in Nat : <<p, n>> \in EditsIn(d.file) => n <= serial[p]

IInv ==
    /\ TypeOK
    /\ \A p \in Proc : InTransaction(p)
    /\ \A d \in survivors : Survivor(d)

LEMMA ContentOf ==
    ASSUME NEW file \in {None} \cup Content
    PROVE  EditsIn(file) \in SUBSET Edit
BY NoneAssumption DEF EditsIn, Content

LEMMA TypeInit == Init => TypeOK
<1> SUFFICES ASSUME Init PROVE TypeOK
  OBVIOUS
<1>1. dir \in Directory
  BY DEF Init, Directory
<1>2. 0 \in 0..MaxEdits
  BY MaxEditsAssumption
<1> QED BY <1>1, <1>2 DEF Init, TypeOK, Steps

\* Release and the steps that only move a process along keep the types.
LEMMA TypeRelease ==
    ASSUME TypeOK, NEW p \in Proc, Release(p)
    PROVE  /\ lock' \in Proc \cup {None} /\ pc' \in [Proc -> Steps]
           /\ base' \in [Proc -> SUBSET Edit] /\ work' \in [Proc -> SUBSET Edit]
           /\ edit' \in [Proc -> SUBSET Edit] /\ temp' \in [Proc -> {None} \cup Content]
           /\ serial' \in [Proc -> 0..MaxEdits]
BY DEF TypeOK, Release, Goto, Steps

\* A step keeps the types; that the temporary file of a process about to sync
\* it exists is the invariant's.
LEMMA TypeNext == IInv /\ [Next]_vars => TypeOK'
<1> SUFFICES ASSUME IInv, [Next]_vars PROVE TypeOK'
  OBVIOUS
<1>t. TypeOK /\ \A p \in Proc : InTransaction(p)
  BY DEF IInv
<1>u. unix' \in BOOLEAN
  BY <1>t DEF TypeOK, Next, vars
<1> USE <1>t, <1>u DEF TypeOK
<1>1. ASSUME NEW p \in Proc, AcquireLock(p) PROVE TypeOK'
  BY <1>1 DEF AcquireLock, Goto, Steps, disk, txn
<1>2. ASSUME NEW p \in Proc, LoadState(p) PROVE TypeOK'
  <2>1. EditsIn(dir.file) \in SUBSET Edit
    BY ContentOf DEF Directory
  <2> QED BY <1>2, <2>1 DEF LoadState, Goto, Steps, disk
<1>3. ASSUME NEW p \in Proc, Mutate(p) PROVE TypeOK'
  <2>1. serial[p] + 1 \in 1..MaxEdits
    BY <1>3, MaxEditsAssumption DEF Mutate
  <2>2. <<p, serial[p] + 1>> \in Edit
    BY <2>1 DEF Edit
  <2> QED BY <1>3, <2>1, <2>2 DEF Mutate, Goto, Steps, disk
<1>4. ASSUME NEW p \in Proc, EndWithoutRename(p) PROVE TypeOK'
  BY <1>4, TypeRelease DEF EndWithoutRename, disk
<1>5. ASSUME NEW p \in Proc, WriteTemp(p) PROVE TypeOK'
  <2>1. [edits |-> work[p], loadable |-> TRUE, synced |-> FALSE] \in Content
    BY DEF Content
  <2> QED BY <1>5, <2>1 DEF WriteTemp, Goto, Steps, disk
<1>6. ASSUME NEW p \in Proc, SyncTemp(p) PROVE TypeOK'
  <2>1. temp[p] \in Content
    BY <1>6 DEF SyncTemp, InTransaction
  <2>2. [temp[p] EXCEPT !.synced = TRUE] \in Content
    BY <2>1 DEF Content
  <2> QED BY <1>6, <2>2 DEF SyncTemp, Goto, Steps, disk
<1>7. ASSUME NEW p \in Proc, AtomicReplace(p) PROVE TypeOK'
  <2>1. [dir EXCEPT !.file = temp[p]] \in Directory
    BY DEF Directory
  <2> QED BY <1>7, <2>1 DEF AtomicReplace, Change, Goto, Steps
<1>8. ASSUME NEW p \in Proc, SyncParent(p) PROVE TypeOK'
  <2>1. survivors' \in SUBSET Directory /\ dir' \in survivors' /\ told' \in SUBSET Edit
    BY <1>8 DEF SyncParent, Durable
  <2> QED BY <1>8, <2>1, TypeRelease DEF SyncParent
<1>9. ASSUME NEW p \in Proc, CreateBackup(p) PROVE TypeOK'
  <2>1. dir.file \in Content
    BY <1>9 DEF CreateBackup, Loadable, Directory
  <2>2. [dir.file EXCEPT !.synced = TRUE] \in Content
    BY <2>1 DEF Content
  <2> DEFINE copied == [dir EXCEPT !.backups = @ \cup {[dir.file EXCEPT !.synced = TRUE]}]
  <2>3. copied \in Directory
    BY <2>2 DEF Directory
  <2>4. dir' = copied /\ (survivors' = survivors \cup {copied} \/ survivors' = {copied})
    BY <1>9 DEF CreateBackup, Change, Durable
  <2> HIDE DEF copied
  <2> QED BY <1>9, <2>3, <2>4 DEF CreateBackup, Goto, Steps, txn
<1>10. ASSUME NEW p \in Proc, ResetDocument(p) PROVE TypeOK'
  BY <1>10 DEF ResetDocument, Goto, Steps, disk
<1>11. ASSUME NEW p \in Proc, Crash(p) PROVE TypeOK'
  BY <1>11, TypeRelease DEF Crash, disk
<1>12. ASSUME PowerLoss PROVE TypeOK'
  <2>1. Torn \in Content
    BY DEF Torn, Content
  <2>2. ASSUME NEW d \in survivors
        PROVE  d \in Directory /\ [d EXCEPT !.file = Torn] \in Directory
    BY <2>1 DEF Directory
  <2>3. dir' \in Directory
    BY <1>12, <2>2 DEF PowerLoss
  <2> QED BY <1>12, <2>3 DEF PowerLoss, Steps
<1>13. ASSUME OtherGeneration PROVE TypeOK'
  <2>1. dir.file \in Content
    BY <1>13 DEF OtherGeneration, Directory
  <2>2. [dir EXCEPT !.file.loadable = FALSE] \in Directory
    BY <2>1 DEF Directory, Content
  <2> QED BY <1>13, <2>2 DEF OtherGeneration, Durable, txn
<1>14. CASE UNCHANGED vars
  BY <1>14 DEF vars, disk, txn
<1> QED
  BY <1>1, <1>2, <1>3, <1>4, <1>5, <1>6, <1>7, <1>8, <1>9, <1>10, <1>11,
     <1>12, <1>13, <1>14 DEF Next

-----------------------------------------------------------------------------
LEMMA InvInit == Init => IInv
<1> SUFFICES ASSUME Init PROVE IInv
  OBVIOUS
<1>1. EditsIn(dir.file) = {}
  BY DEF Init, EditsIn
<1>2. \A d \in survivors : Survivor(d)
  BY <1>1 DEF Init, Survivor
<1>3. \A p \in Proc : InTransaction(p)
  BY DEF Init, InTransaction
<1> QED BY <1>2, <1>3, TypeInit DEF IInv

\* While a process acts inside its transaction, or enters one, every other
\* process is outside: the guard every handler gets from state.lock.
LEMMA OthersIdle ==
    ASSUME IInv, NEW p \in Proc, pc[p] # "idle" \/ lock = None,
           NEW q \in Proc \ {p}, pc'[q] = pc[q]
    PROVE  InTransaction(q)' /\ pc[q] = "idle"
<1>1. pc[q] # "idle" => lock = q
  BY DEF IInv, InTransaction
<1>2. pc[p] # "idle" => lock = p
  BY DEF IInv, InTransaction
<1>3. pc[q] = "idle"
  BY <1>1, <1>2, NoneAssumption
<1> QED BY <1>3 DEF InTransaction

LEMMA ReleaseIdle ==
    ASSUME IInv, NEW p \in Proc, pc[p] # "idle", Release(p)
    PROVE  \A q \in Proc : InTransaction(q)'
<1>1. pc'[p] = "idle"
  BY DEF Release, Goto, IInv, TypeOK
<1>2. InTransaction(p)'
  BY <1>1 DEF InTransaction
<1>3. ASSUME NEW q \in Proc \ {p} PROVE InTransaction(q)'
  <2>1. pc'[q] = pc[q]
    BY DEF Release, Goto, IInv, TypeOK
  <2> QED BY <2>1, OthersIdle
<1> QED BY <1>2, <1>3

\* A transaction's knowledge of the document survives every step: its own
\* because it made it, the others' because they are idle.
LEMMA NextInTransaction == IInv /\ [Next]_vars => \A q \in Proc : InTransaction(q)'
<1> SUFFICES ASSUME IInv, [Next]_vars PROVE \A q \in Proc : InTransaction(q)'
  OBVIOUS
<1>t. TypeOK /\ TypeOK' /\ \A p \in Proc : InTransaction(p)
  BY TypeNext DEF IInv
<1> USE DEF Goto
<1>0. ASSUME NEW p \in Proc, pc[p] # "idle" \/ lock = None,
             \A q \in Proc \ {p} : pc'[q] = pc[q], InTransaction(p)'
      PROVE  \A q \in Proc : InTransaction(q)'
  BY <1>0, OthersIdle
<1>1. ASSUME NEW p \in Proc, AcquireLock(p) PROVE \A q \in Proc : InTransaction(q)'
  <2>1. InTransaction(p)'
    BY <1>1, <1>t DEF AcquireLock, InTransaction, TypeOK
  <2> QED BY <1>0, <1>1, <1>t, <2>1 DEF AcquireLock, TypeOK
<1>2. ASSUME NEW p \in Proc, LoadState(p) PROVE \A q \in Proc : InTransaction(q)'
  <2>1. InTransaction(p)'
    BY <1>2, <1>t DEF LoadState, InTransaction, TypeOK, disk
  <2> QED BY <1>0, <1>2, <1>t, <2>1 DEF LoadState, TypeOK
<1>3. ASSUME NEW p \in Proc, Mutate(p) PROVE \A q \in Proc : InTransaction(q)'
  <2> DEFINE e == <<p, serial[p] + 1>>
  <2>1. /\ dir' = dir /\ lock' = lock /\ lock = p /\ pc'[p] = "changed"
        /\ edit'[p] = {e} /\ work'[p] = EditsIn(dir.file) \cup {e}
        /\ serial'[p] = serial[p] + 1
    BY <1>3, <1>t DEF Mutate, InTransaction, TypeOK, disk
  <2>2. e \in Edit
    BY <1>3, <1>t, MaxEditsAssumption DEF Mutate, Edit, TypeOK
  <2>3. e \notin EditsIn(dir.file)
    <3>1. Survivor(dir)
      BY DEF IInv, TypeOK
    <3>2. serial[p] \in Nat
      BY <1>t, MaxEditsAssumption DEF TypeOK
    <3>3. e \in EditsIn(dir.file) => serial[p] + 1 <= serial[p]
      BY <3>1, <3>2 DEF Survivor
    <3> QED BY <3>2, <3>3
  <2>4. Pending(p)'
    BY <2>1, <2>2, <2>3 DEF Pending
  <2>5. InTransaction(p)'
    BY <2>1, <2>4 DEF InTransaction
  <2> QED BY <1>0, <1>3, <1>t, <2>5 DEF Mutate, TypeOK
<1>4. ASSUME NEW p \in Proc, EndWithoutRename(p) PROVE \A q \in Proc : InTransaction(q)'
  BY <1>4, ReleaseIdle DEF EndWithoutRename
<1>5. ASSUME NEW p \in Proc, WriteTemp(p) PROVE \A q \in Proc : InTransaction(q)'
  <2> DEFINE new == [edits |-> work[p], loadable |-> TRUE, synced |-> FALSE]
  <2>1. new \in Content /\ new.edits = work[p]
    BY <1>t DEF Content, TypeOK
  <2>2. temp'[p] = new /\ work' = work
    BY <1>5, <1>t DEF WriteTemp, TypeOK
  <2>3. Pending(p)'
    BY <1>5, <1>t DEF WriteTemp, InTransaction, Pending, disk
  <2> HIDE DEF new
  <2>4. pc'[p] = "temp" /\ lock' = p
    BY <1>5, <1>t DEF WriteTemp, InTransaction, TypeOK
  <2>5. InTransaction(p)'
    BY <2>1, <2>2, <2>3, <2>4 DEF InTransaction
  <2> QED BY <1>0, <1>5, <1>t, <2>5 DEF WriteTemp, TypeOK
<1>6. ASSUME NEW p \in Proc, SyncTemp(p) PROVE \A q \in Proc : InTransaction(q)'
  <2>1. temp[p] \in Content /\ temp[p].edits = work[p] /\ lock = p /\ Pending(p)
    BY <1>6, <1>t DEF SyncTemp, InTransaction
  <2> DEFINE new == [temp[p] EXCEPT !.synced = TRUE]
  <2>2. new \in Content /\ new.edits = work[p] /\ new.synced
    BY <2>1 DEF Content
  <2>3. temp'[p] = new /\ work' = work /\ lock' = p /\ pc'[p] = "synced"
    BY <1>6, <1>t, <2>1 DEF SyncTemp, TypeOK
  <2>4. Pending(p)'
    BY <1>6, <2>1 DEF SyncTemp, Pending, disk
  <2> HIDE DEF new
  <2>5. InTransaction(p)'
    BY <2>2, <2>3, <2>4 DEF InTransaction
  <2> QED BY <1>0, <1>6, <1>t, <2>5 DEF SyncTemp, TypeOK
<1>7. ASSUME NEW p \in Proc, AtomicReplace(p) PROVE \A q \in Proc : InTransaction(q)'
  <2>1. /\ temp[p] \in Content /\ temp[p].edits = work[p] /\ lock = p
        /\ edit[p] \subseteq work[p] \cap {<<p, serial[p]>>}
    BY <1>7, <1>t DEF AtomicReplace, InTransaction, Pending
  <2>2. /\ dir'.file = temp[p] /\ edit' = edit /\ serial' = serial
        /\ lock' = p /\ pc'[p] = "renamed"
    BY <1>7, <1>t, <2>1 DEF AtomicReplace, Change, TypeOK, Directory
  <2>3. edit'[p] \subseteq EditsIn(dir'.file) \cap {<<p, serial'[p]>>}
    BY <2>1, <2>2, NoneAssumption DEF EditsIn
  <2>4. InTransaction(p)'
    BY <2>2, <2>3 DEF InTransaction
  <2> QED BY <1>0, <1>7, <1>t, <2>4 DEF AtomicReplace, TypeOK
<1>8. ASSUME NEW p \in Proc, SyncParent(p) PROVE \A q \in Proc : InTransaction(q)'
  BY <1>8, ReleaseIdle DEF SyncParent
<1>9. ASSUME NEW p \in Proc, CreateBackup(p) PROVE \A q \in Proc : InTransaction(q)'
  <2>1. dir.file \in Content
    BY <1>9, <1>t DEF CreateBackup, Loadable, Directory, TypeOK
  <2> DEFINE copy == [dir.file EXCEPT !.synced = TRUE]
  <2>2. copy.edits = EditsIn(dir.file)
    BY <2>1, NoneAssumption DEF EditsIn, Content
  <2>3. dir' = [dir EXCEPT !.backups = @ \cup {copy}]
    BY <1>9 DEF CreateBackup, Change
  <2> HIDE DEF copy
  <2>4. dir'.file = dir.file /\ copy \in dir'.backups
    BY <1>t, <2>3 DEF TypeOK, Directory
  <2>5. EditsIn(dir'.file) \subseteq Backups(dir')
    BY <2>2, <2>4 DEF Backups
  <2>6. pc'[p] = "backup" /\ lock' = p
    BY <1>9, <1>t DEF CreateBackup, InTransaction, TypeOK
  <2>7. InTransaction(p)'
    BY <2>5, <2>6 DEF InTransaction
  <2> QED BY <1>0, <1>9, <1>t, <2>7 DEF CreateBackup, TypeOK
<1>10. ASSUME NEW p \in Proc, ResetDocument(p) PROVE \A q \in Proc : InTransaction(q)'
  <2>1. EditsIn(dir.file) \subseteq Backups(dir) /\ lock = p
    BY <1>10, <1>t DEF ResetDocument, InTransaction, EditsIn
  <2>2. Pending(p)'
    BY <1>10, <1>t, <2>1 DEF ResetDocument, Pending, TypeOK, disk
  <2>3. pc'[p] = "changed" /\ lock' = p
    BY <1>10, <1>t, <2>1 DEF ResetDocument, TypeOK
  <2>4. InTransaction(p)'
    BY <2>2, <2>3 DEF InTransaction
  <2> QED BY <1>0, <1>10, <1>t, <2>4 DEF ResetDocument, TypeOK
<1>11. ASSUME NEW p \in Proc, Crash(p) PROVE \A q \in Proc : InTransaction(q)'
  BY <1>11, ReleaseIdle DEF Crash
<1>12. CASE PowerLoss
  BY <1>12 DEF PowerLoss, InTransaction
<1>13. ASSUME OtherGeneration, NEW q \in Proc PROVE InTransaction(q)'
  <2>1. pc'[q] = "idle"
    BY <1>13, <1>t, NoneAssumption DEF OtherGeneration, InTransaction
  <2> QED BY <2>1 DEF InTransaction
<1>14. ASSUME UNCHANGED vars, NEW q \in Proc PROVE InTransaction(q)'
  BY <1>14, <1>t DEF vars, disk, txn, InTransaction, Pending
<1> QED
  BY <1>1, <1>2, <1>3, <1>4, <1>5, <1>6, <1>7, <1>8, <1>9, <1>10, <1>11,
     <1>12, <1>13, <1>14 DEF Next

\* What a power loss may leave still includes everything reported saved.
LEMMA NextSurvivors == IInv /\ [Next]_vars => \A d \in survivors' : Survivor(d)'
<1> SUFFICES ASSUME IInv, [Next]_vars PROVE \A d \in survivors' : Survivor(d)'
  OBVIOUS
<1>t. /\ TypeOK /\ TypeOK' /\ \A p \in Proc : InTransaction(p)
      /\ \A d \in survivors : Survivor(d)
  BY TypeNext DEF IInv
<1>d. dir \in survivors /\ Survivor(dir) /\ dir \in Directory
  BY <1>t DEF TypeOK
<1>n. \A p \in Proc : serial[p] \in Nat
  BY <1>t, MaxEditsAssumption DEF TypeOK
<1>u. unix' = unix /\ unix \in BOOLEAN
  BY <1>t DEF TypeOK, Next, vars
<1>0. ASSUME survivors' \subseteq survivors, told' = told, serial' = serial
      PROVE  \A d \in survivors' : Survivor(d)'
  BY <1>0, <1>t, <1>u DEF Survivor
<1>1. ASSUME NEW p \in Proc, AcquireLock(p) \/ LoadState(p) \/ EndWithoutRename(p)
                \/ WriteTemp(p) \/ SyncTemp(p) \/ ResetDocument(p) \/ Crash(p)
      PROVE  \A d \in survivors' : Survivor(d)'
  BY <1>0, <1>1 DEF AcquireLock, LoadState, EndWithoutRename, WriteTemp, SyncTemp,
     ResetDocument, Crash, Release, disk, txn
<1>2. ASSUME NEW p \in Proc, Mutate(p) PROVE \A d \in survivors' : Survivor(d)'
  <2>1. survivors' = survivors /\ told' = told
    BY <1>2 DEF Mutate, disk
  <2>2. \A q \in Proc : serial'[q] \in Nat /\ serial[q] <= serial'[q]
    BY <1>2, <1>t, <1>n DEF Mutate, TypeOK
  <2> QED BY <1>t, <1>u, <1>n, <2>1, <2>2 DEF Survivor
<1>3. ASSUME NEW p \in Proc, AtomicReplace(p) PROVE \A d \in survivors' : Survivor(d)'
  <2> PICK new : new = [dir EXCEPT !.file = temp[p]]
    OBVIOUS
  <2>1. /\ temp[p] \in Content /\ temp[p].edits = work[p] /\ temp[p].synced
        /\ Pending(p)
    BY <1>3, <1>t DEF AtomicReplace, InTransaction
  <2>2. new.file = temp[p] /\ new.backups = dir.backups
    BY <1>d DEF Directory
  <2>3. survivors' = survivors \cup {new} /\ told' = told /\ serial' = serial
    BY <1>3 DEF AtomicReplace, Change
  <2>4. EditsIn(new.file) = work[p] /\ Backups(new) = Backups(dir)
    BY <2>1, <2>2, NoneAssumption DEF EditsIn, Backups
  <2>5. unix => told \subseteq work[p] \cup Backups(dir)
    BY <1>d, <2>1 DEF Pending, Survivor
  <2>6. ASSUME NEW q \in Proc, NEW n \in Nat, <<q, n>> \in work[p]
        PROVE  n <= serial[q]
    BY <1>d, <1>n, <2>1, <2>6 DEF Pending, Survivor
  <2>7. Survivor(new)'
    BY <1>u, <2>1, <2>2, <2>3, <2>4, <2>5, <2>6 DEF Survivor
  <2> QED BY <1>t, <1>u, <2>3, <2>7 DEF Survivor
<1>4. ASSUME NEW p \in Proc, SyncParent(p) PROVE \A d \in survivors' : Survivor(d)'
  <2>1. edit[p] \subseteq EditsIn(dir.file) /\ serial' = serial
    BY <1>4, <1>t DEF SyncParent, InTransaction, Release
  <2>2. CASE UNCHANGED <<survivors, told>>
    BY <1>0, <2>1, <2>2
  <2>3. CASE unix /\ survivors' = {dir} /\ told' = told \cup edit[p]
    <3>1. told' \subseteq EditsIn(dir.file) \cup Backups(dir)
      BY <1>d, <2>1, <2>3 DEF Survivor
    <3> QED BY <1>d, <1>u, <2>1, <2>3, <3>1 DEF Survivor
  <2>4. CASE ~unix /\ survivors' = survivors \cup {dir}
    BY <1>d, <1>t, <1>u, <2>1, <2>4 DEF Survivor
  <2> QED BY <1>4, <1>u, <2>2, <2>3, <2>4 DEF SyncParent, Durable
<1>5. ASSUME NEW p \in Proc, CreateBackup(p) PROVE \A d \in survivors' : Survivor(d)'
  <2> PICK new : new = [dir EXCEPT !.backups = @ \cup {[dir.file EXCEPT !.synced = TRUE]}]
    OBVIOUS
  <2>1. new.file = dir.file /\ dir.backups \subseteq new.backups
    BY <1>d DEF Directory
  <2>2. survivors' \subseteq survivors \cup {new} /\ told' = told /\ serial' = serial
    BY <1>5, <1>d DEF CreateBackup, Change, Durable, txn
  <2>3. Backups(dir) \subseteq Backups(new)
    BY <2>1 DEF Backups
  <2>4. Survivor(new)'
    BY <1>d, <1>u, <2>1, <2>2, <2>3 DEF Survivor
  <2> QED BY <1>t, <1>u, <2>2, <2>4 DEF Survivor
<1>6. ASSUME PowerLoss PROVE \A d \in survivors' : Survivor(d)'
  <2>1. dir' \in survivors /\ survivors' = {dir'}
    BY <1>6, <1>t DEF PowerLoss, Survivor
  <2> QED BY <1>0, <1>6, <2>1 DEF PowerLoss
<1>7. ASSUME OtherGeneration PROVE \A d \in survivors' : Survivor(d)'
  <2>1. dir.file \in Content
    BY <1>7, <1>d DEF OtherGeneration, Directory
  <2> DEFINE file == [dir.file EXCEPT !.loadable = FALSE]
  <2>2. file \in Content /\ file.edits = dir.file.edits /\ file.synced = dir.file.synced
    BY <2>1 DEF Content
  <2>3. dir'.file = file /\ dir'.backups = dir.backups
    BY <1>7, <1>d, <2>1 DEF OtherGeneration, Directory
  <2> HIDE DEF file
  <2>4. EditsIn(dir'.file) = EditsIn(dir.file) /\ Backups(dir') = Backups(dir)
    BY <2>1, <2>2, <2>3, NoneAssumption DEF EditsIn, Backups
  <2>5. survivors' \subseteq survivors \cup {dir'} /\ told' = told /\ serial' = serial
    BY <1>7 DEF OtherGeneration, Durable, txn
  <2>6. dir'.file # None => dir'.file.synced
    BY <1>d, <2>1, <2>2, <2>3, NoneAssumption DEF Survivor
  <2> PICK new : new = dir'
    OBVIOUS
  <2>7. Survivor(new)'
    <3>1. EditsIn(new.file) = EditsIn(dir.file) /\ Backups(new) = Backups(dir)
          /\ (new.file # None => new.file.synced)
      BY <2>4, <2>6
    <3> QED BY <1>d, <1>u, <2>5, <3>1 DEF Survivor
  <2> QED BY <1>t, <1>u, <2>5, <2>7 DEF Survivor
<1>8. CASE UNCHANGED vars
  BY <1>0, <1>8 DEF vars, disk, txn
<1> QED
  BY <1>1, <1>2, <1>3, <1>4, <1>5, <1>6, <1>7, <1>8 DEF Next

\* The holder of state.lock is alone in its transaction, every directory a power
\* loss may leave behind is whole, and on Unix it includes what commits have
\* reported saved.
THEOREM Invariance == Spec => []IInv
<1>1. IInv /\ [Next]_vars => IInv'
  BY TypeNext, NextInTransaction, NextSurvivors DEF IInv
<1> QED BY InvInit, <1>1, PTL DEF Spec

-----------------------------------------------------------------------------
\* What a reader of a directory sees, and would see after a power loss.
Shown(d) == [doc |-> EditsIn(d.file), kept |-> Backups(d)]

LEMMA InitImplements == Init => Abstract!Init
<1> SUFFICES ASSUME Init PROVE Abstract!Init
  OBVIOUS
<1>1. EditsIn(dir.file) = {} /\ Backups(dir) = {} /\ survivors = {dir}
  BY DEF Init, EditsIn, Backups
<1> QED BY <1>1 DEF Init, Abstract!Init, Abstract!State

\* One more directory operation, with the directory synced or not, is one more
\* state a power loss may leave, or the only one.
LEMMA ChangeImplements ==
    ASSUME told' = told, unix' = unix, unix \in BOOLEAN,
           survivors' = survivors \cup {dir'} \/ Durable(dir')
    PROVE  Abstract!Change
<1>1. \/ survivors' = survivors \cup {dir'}
      \/ unix /\ survivors' = {dir'}
  BY DEF Durable
<1>2. CASE survivors' = survivors \cup {dir'}
  BY <1>2 DEF Abstract!Change, Abstract!State
<1>3. CASE unix /\ survivors' = {dir'}
  BY <1>3 DEF Abstract!Change, Abstract!State
<1> QED BY <1>1, <1>2, <1>3

\* A rename is the whole transaction, or the start of an empty document whose
\* predecessor is set aside; the report and the backup are the other two steps.
\* Everything a process does in between shows the reader nothing.
LEMMA NextImplements == IInv /\ [Next]_vars => [Abstract!Next]_(Abstract!vars)
<1> SUFFICES ASSUME IInv, [Next]_vars PROVE [Abstract!Next]_(Abstract!vars)
  OBVIOUS
<1>t. /\ TypeOK /\ TypeOK' /\ (\A p \in Proc : InTransaction(p)) /\ Survivor(dir)
      /\ dir \in Directory /\ dir \in survivors
  BY TypeNext DEF IInv, TypeOK
<1>u. unix' = unix /\ unix \in BOOLEAN
  BY <1>t DEF TypeOK, Next, vars
<1>0. ASSUME dir' = dir, survivors' = survivors, told' = told
      PROVE  [Abstract!Next]_(Abstract!vars)
  BY <1>0, <1>u DEF Abstract!vars
<1>1. ASSUME NEW p \in Proc, AcquireLock(p) \/ LoadState(p) \/ Mutate(p)
                \/ EndWithoutRename(p) \/ WriteTemp(p) \/ SyncTemp(p)
                \/ ResetDocument(p) \/ Crash(p)
      PROVE  [Abstract!Next]_(Abstract!vars)
  BY <1>0, <1>1 DEF AcquireLock, LoadState, Mutate, EndWithoutRename, WriteTemp,
     SyncTemp, ResetDocument, Crash, disk
<1>2. ASSUME NEW p \in Proc, AtomicReplace(p) PROVE Abstract!Next
  <2>1. /\ temp[p] \in Content /\ temp[p].edits = work[p] /\ Pending(p)
    BY <1>2, <1>t DEF AtomicReplace, InTransaction
  <2>2. dir'.file = temp[p] /\ dir'.backups = dir.backups /\ told' = told
    BY <1>2, <1>t DEF AtomicReplace, Change, Directory
  <2>3. EditsIn(dir'.file) = work[p] /\ Backups(dir') = Backups(dir)
    BY <2>1, <2>2, NoneAssumption DEF EditsIn, Backups
  <2>6. Abstract!Change
    BY <1>2, <1>u, <2>2, ChangeImplements DEF AtomicReplace, Change
  <2>4. CASE work[p] = {} /\ EditsIn(dir.file) \subseteq Backups(dir)
    <3>1. Abstract!StartOver
      BY <2>3, <2>4, <2>6 DEF Abstract!StartOver
    <3> QED BY <3>1 DEF Abstract!Next
  <2>5. ASSUME NEW e \in Edit, e \notin EditsIn(dir.file),
               work[p] = EditsIn(dir.file) \cup {e}
        PROVE  Abstract!Next
    <3>1. Abstract!Apply(e)
      BY <2>3, <2>5, <2>6 DEF Abstract!Apply
    <3> QED BY <3>1 DEF Abstract!Next
  <2> QED BY <2>1, <2>4, <2>5 DEF Pending
<1>3. ASSUME NEW p \in Proc, SyncParent(p) PROVE [Abstract!Next]_(Abstract!vars)
  <2> DEFINE e == <<p, serial[p]>>
  <2>1. edit[p] \subseteq EditsIn(dir.file) \cap {e} /\ edit[p] \subseteq Edit
    BY <1>3, <1>t DEF SyncParent, InTransaction, TypeOK
  <2>2. /\ dir' = dir
        /\ \/ UNCHANGED <<survivors, told>>
           \/ Durable(dir) /\ told' = told \cup edit[p]
    BY <1>3 DEF SyncParent
  <2>3. CASE UNCHANGED <<survivors, told>>
    BY <1>0, <2>2, <2>3
  <2>4. ASSUME Durable(dir)
        PROVE  survivors' = IF unix THEN {dir} ELSE survivors
    BY <1>t, <2>4 DEF Durable
  <2>5. CASE Durable(dir) /\ edit[p] = {} /\ told' = told
    <3>1. CASE unix
      <4>1. Abstract!Settle
        BY <1>u, <2>2, <2>4, <2>5, <3>1 DEF Abstract!Settle, Abstract!State
      <4> QED BY <4>1 DEF Abstract!Next
    <3>2. CASE ~unix
      BY <1>0, <2>2, <2>4, <2>5, <3>2
    <3> QED BY <3>1, <3>2
  <2>6. CASE Durable(dir) /\ edit[p] = {e} /\ told' = told \cup {e}
    <3>1. e \in Edit /\ e \in EditsIn(dir.file)
      BY <2>1, <2>6
    <3>2. {Shown(d) : d \in survivors'}
            = IF unix THEN {Shown(dir)} ELSE {Shown(d) : d \in survivors}
      BY <2>4, <2>6
    <3>3. Abstract!Report(e)
      BY <1>u, <2>2, <2>6, <3>1, <3>2 DEF Abstract!Report, Abstract!State, Shown
    <3> QED BY <3>1, <3>3 DEF Abstract!Next
  <2>7. edit[p] = {} \/ edit[p] = {e}
    BY <2>1
  <2> QED BY <2>2, <2>3, <2>5, <2>6, <2>7
<1>4. ASSUME NEW p \in Proc, CreateBackup(p) PROVE [Abstract!Next]_(Abstract!vars)
  <2>1. dir.file \in Content
    BY <1>4, <1>t DEF CreateBackup, Loadable, Directory
  <2> DEFINE copy == [dir.file EXCEPT !.synced = TRUE]
  <2>2. copy.edits = EditsIn(dir.file)
    BY <2>1, NoneAssumption DEF EditsIn, Content
  <2>3. dir' = [dir EXCEPT !.backups = @ \cup {copy}] /\ told' = told
    BY <1>4 DEF CreateBackup, Change
  <2>7. survivors' = survivors \cup {dir'} \/ Durable(dir')
    BY <1>4 DEF CreateBackup, Change
  <2> HIDE DEF copy
  <2>4. dir'.file = dir.file /\ dir'.backups = dir.backups \cup {copy}
    BY <1>t, <2>3 DEF Directory
  <2>5. Backups(dir') = Backups(dir) \cup EditsIn(dir.file)
    BY <2>2, <2>4 DEF Backups
  <2>8. Abstract!Change
    BY <1>u, <2>3, <2>7, ChangeImplements
  <2>6. Abstract!SetAside
    BY <2>4, <2>5, <2>8 DEF Abstract!SetAside
  <2> QED BY <2>6 DEF Abstract!Next
<1>5. ASSUME PowerLoss PROVE [Abstract!Next]_(Abstract!vars)
  <2>1. dir' \in survivors /\ survivors' = {dir'} /\ told' = told
    BY <1>5, <1>t DEF IInv, PowerLoss, Survivor, TypeOK
  <2>2. unix => told \subseteq EditsIn(dir'.file) \cup Backups(dir')
    BY <2>1 DEF IInv, Survivor
  <2>3. Abstract!State' = Shown(dir')
    BY DEF Abstract!State, Shown
  <2>4. Shown(dir') \in {Shown(d) : d \in survivors}
    BY <2>1
  <2>5. {Shown(d) : d \in survivors'} = {Shown(dir')}
    BY <2>1, Zenon
  <2>6. Abstract!PowerLoss
    BY <1>u, <2>1, <2>2, <2>3, <2>4, <2>5 DEF Abstract!PowerLoss, Shown
  <2> QED BY <2>6 DEF Abstract!Next
<1>6. ASSUME OtherGeneration PROVE [Abstract!Next]_(Abstract!vars)
  <2>1. dir.file \in Content
    BY <1>6, <1>t DEF OtherGeneration, Directory
  <2> DEFINE file == [dir.file EXCEPT !.loadable = FALSE]
  <2>2. file \in Content /\ file.edits = dir.file.edits
    BY <2>1 DEF Content
  <2>3. dir'.file = file /\ dir'.backups = dir.backups /\ told' = told
    BY <1>6, <1>t, <2>1 DEF OtherGeneration, Directory
  <2> HIDE DEF file
  <2>4. Shown(dir') = Shown(dir)
    BY <2>1, <2>2, <2>3, NoneAssumption DEF Shown, EditsIn, Backups
  <2>5. survivors' = IF unix THEN {dir'} ELSE survivors \cup {dir'}
    BY <1>6 DEF OtherGeneration, Durable
  <2>6. CASE unix
    <3>1. {Shown(d) : d \in survivors'} = {Shown(dir)}
      BY <2>4, <2>5, <2>6
    <3>2. Abstract!Settle
      BY <1>u, <2>3, <2>4, <2>6, <3>1 DEF Abstract!Settle, Abstract!State, Shown
    <3> QED BY <3>2 DEF Abstract!Next
  <2>7. CASE ~unix
    <3>1. {Shown(d) : d \in survivors'} = {Shown(d) : d \in survivors}
      BY <1>t, <2>4, <2>5, <2>7
    <3> QED BY <1>u, <2>3, <2>4, <3>1 DEF Abstract!vars, Shown
  <2> QED BY <2>6, <2>7
<1>7. CASE UNCHANGED vars
  BY <1>0, <1>7 DEF vars, disk, txn
<1> QED BY <1>1, <1>2, <1>3, <1>4, <1>5, <1>6, <1>7 DEF Next

\* Every behaviour of the disk backend is one of AtomicStore: whole transactions
\* of any number of processes, none lost, each power loss leaving one of the
\* states there have been, and on Unix, where sync_parent syncs, one with all
\* that commits have reported saved.
THEOREM StoreIsAtomic == Spec => ImplementsAtomicStore
<1>1. IInv /\ [Next]_vars => [Abstract!Next]_(Abstract!vars)
  BY NextImplements
<1> QED
  BY InitImplements, <1>1, Invariance, PTL DEF Spec, ImplementsAtomicStore, Abstract!Spec


-----------------------------------------------------------------------------
(***************************************************************************)
(* What the file holds: every mutator of a resource, for any values and    *)
(* any clock, and from it the invariants of ResourceEvidence.              *)
(***************************************************************************)

\* What a handler leaves behind: evidence that passes the commit gate and
\* claims nothing, or whose claim stands on the readback committed with it.
Fresh(new) == new \in Resource /\ ValidResource(new) /\ ~Claims(new)
Marked(new) ==
    /\ new \in Resource /\ ValidResource(new)
    /\ Claims(new) => /\ new.observed.observed_at = new.desired.persistence.verified_at
                      /\ Agrees(new)

\* A desired value that carries no claim and has just been written or imported.
LEMMA WantedType ==
    ASSUME NEW v \in Value, NEW src \in Source, NEW app \in Application,
           NEW t \in Time
    PROVE  Wanted(v, src, app, t) \in Desired
BY DEF Wanted, Desired

LEMMA SeenType ==
    ASSUME NEW v \in Value, NEW t \in Time
    PROVE  Seen(v, t) \in Observed
BY DEF Seen, Observed

\* record_ack_write: an acknowledged write passes the commit gate.
LEMMA AckWrite ==
    ASSUME NEW rs \in Resource, NEW v \in Value, NEW t \in Time
    PROVE  Fresh(RecordAckWrite(rs, v, t))
<1>1. Wanted(v, "UserWrite", "Acknowledged", t) \in Desired
  BY WantedType DEF Source, Application
<1>2. RecordAckWrite(rs, v, t) \in Resource
  BY <1>1 DEF RecordAckWrite, Resource
<1>3. ValidResource(RecordAckWrite(rs, v, t)) /\ ~Claims(RecordAckWrite(rs, v, t))
  BY DEF RecordAckWrite, ValidResource, Claims, Wanted, Resource
<1> QED BY <1>2, <1>3 DEF Fresh

\* record_readback_write: a readback written at the same instant as the wanted
\* value is current, so equality alone decides between verified and mismatch.
LEMMA ReadbackWrite ==
    ASSUME NEW rs \in Resource, NEW v \in Value, NEW o \in Value, NEW t \in Time
    PROVE  Fresh(RecordReadbackWrite(rs, v, o, t))
<1> DEFINE app == IF v = o THEN "ReadbackVerified" ELSE "Mismatch"
<1>1. Wanted(v, "UserWrite", app, t) \in Desired /\ Seen(o, t) \in Observed
  BY WantedType, SeenType DEF Source, Application
<1>2. RecordReadbackWrite(rs, v, o, t) \in Resource
  BY <1>1 DEF RecordReadbackWrite, Resource
<1>3. t \in Int /\ Seen(o, t) # None
  BY <1>1, TimeAssumption, EvidenceAssumption
<1> DEFINE new == RecordReadbackWrite(rs, v, o, t)
<1>4. /\ new.desired = Wanted(v, "UserWrite", app, t)
      /\ new.observed = Seen(o, t)
  BY DEF RecordReadbackWrite
<1>5. /\ new.desired.value = v /\ new.desired.application = app
      /\ new.desired.updated_at = t /\ new.desired.persistence = Unknown
      /\ new.observed.value = o /\ new.observed.observed_at = t
  BY <1>4 DEF Wanted, Seen
<1>6. ~Claims(new) /\ Current(new) /\ (Agrees(new) <=> v = o)
  BY <1>3, <1>5 DEF Claims, Current, Agrees
<1>7. ValidResource(new)
  <2> HIDE DEF new
  <2> QED
    BY <1>3, <1>4, <1>5, <1>6 DEF ValidResource, ValidVerified, ValidMismatch
<1> QED BY <1>2, <1>6, <1>7 DEF Fresh, new

\* set_imported: an imported value claims nothing.
LEMMA Import ==
    ASSUME NEW rs \in Resource, NEW v \in Value, NEW t \in Time
    PROVE  Fresh(SetImported(rs, v, t))
<1>1. Wanted(v, "Imported", "NotSent", t) \in Desired
  BY WantedType DEF Source, Application
<1>2. SetImported(rs, v, t) \in Resource
  BY <1>1 DEF SetImported, Resource
<1>3. ValidResource(SetImported(rs, v, t)) /\ ~Claims(SetImported(rs, v, t))
  BY DEF SetImported, ValidResource, Claims, Wanted, Resource
<1> QED BY <1>2, <1>3 DEF Fresh

\* reconcile_observation: valid whatever the clock did since the write, and
\* it never leaves a claim behind.
LEMMA Reconcile ==
    ASSUME NEW rs \in Resource, NEW o \in Value, NEW t \in Time
    PROVE  /\ Fresh(ReconcileObservation(rs, o, t))
           /\ ReconcileObservation(rs, o, t).observed.observed_at = t
<1> DEFINE new == ReconcileObservation(rs, o, t)
<1>1. Seen(o, t) \in Observed /\ Seen(o, t) # None /\ t \in Int
  BY SeenType, TimeAssumption, EvidenceAssumption
<1>2. CASE rs.desired = None
  <2>1. new = [desired  |-> Wanted(o, "CapturedBaseline", "ReadbackVerified", t),
               observed |-> Seen(o, t)]
    BY <1>2 DEF ReconcileObservation
  <2>2. Wanted(o, "CapturedBaseline", "ReadbackVerified", t) \in Desired
    BY WantedType DEF Source, Application
  <2>3. new \in Resource
    BY <2>1, <2>2, <1>1 DEF Resource
  <2>4. /\ new.desired.value = o /\ new.desired.application = "ReadbackVerified"
        /\ new.desired.updated_at = t /\ new.desired.persistence = Unknown
        /\ new.observed = Seen(o, t) /\ new.observed.value = o
        /\ new.observed.observed_at = t
    BY <2>1 DEF Wanted, Seen
  <2>5. ~Claims(new) /\ Current(new) /\ Agrees(new)
    BY <2>4, <1>1 DEF Claims, Current, Agrees
  <2> HIDE DEF new
  <2>6. ValidResource(new)
    BY <2>4, <2>5, <1>1 DEF ValidResource, ValidVerified
  <2> QED BY <2>3, <2>4, <2>5, <2>6 DEF new, Fresh
<1>3. CASE rs.desired # None
  <2> DEFINE matches == rs.desired.value = o /\ t >= rs.desired.updated_at
             d == [rs.desired EXCEPT
                      !.application = IF matches THEN "ReadbackVerified" ELSE "Mismatch",
                      !.persistence = Unknown]
  <2>1. new = [desired |-> d, observed |-> Seen(o, t)]
    BY <1>3 DEF ReconcileObservation
  <2>2. rs.desired \in Desired
    BY <1>3 DEF Resource
  <2>3. /\ d \in Desired
        /\ d.value = rs.desired.value
        /\ d.updated_at = rs.desired.updated_at
        /\ d.persistence = Unknown
        /\ d.application = IF matches THEN "ReadbackVerified" ELSE "Mismatch"
    BY <2>2 DEF Desired, Application
  <2>4. new \in Resource
    BY <2>1, <2>3, <1>1 DEF Resource
  <2>5. rs.desired.updated_at \in Int
    BY <2>2, TimeAssumption DEF Desired
  <2> HIDE DEF d, matches
  <2>6. /\ new.desired = d /\ new.observed = Seen(o, t)
        /\ new.observed.value = o /\ new.observed.observed_at = t
    BY <2>1 DEF Seen
  <2>7. ~Claims(new)
    BY <2>3, <2>6 DEF Claims
  <2>8. matches <=> Agrees(new) /\ Current(new)
    BY <2>3, <2>5, <2>6, <1>1 DEF matches, Agrees, Current
  <2> HIDE DEF new
  <2>9. ValidResource(new)
    BY <2>3, <2>6, <2>7, <2>8, <1>1 DEF ValidResource, ValidVerified, ValidMismatch
  <2> QED BY <2>4, <2>6, <2>7, <2>9 DEF new, Fresh
<1> QED BY <1>2, <1>3
\* invalidate_persistence keeps a valid resource valid and drops its claim.
LEMMA Invalidate ==
    ASSUME NEW rs \in Resource, ValidResource(rs)
    PROVE  Fresh(InvalidatePersistence(rs))
<1> DEFINE new == InvalidatePersistence(rs)
<1>1. CASE rs.desired = None
  BY <1>1 DEF InvalidatePersistence, Claims, Fresh
<1>2. CASE rs.desired # None
  <2>1. rs.desired \in Desired /\ rs.observed \in {None} \cup Observed
    BY <1>2 DEF Resource
  <2> DEFINE d == [rs.desired EXCEPT !.persistence = Unknown]
  <2>2. /\ d \in Desired /\ d.value = rs.desired.value
        /\ d.application = rs.desired.application
        /\ d.updated_at = rs.desired.updated_at /\ d.persistence = Unknown
    BY <2>1 DEF Desired
  <2>3. new = [desired |-> d, observed |-> rs.observed]
    BY <1>2 DEF InvalidatePersistence, Resource
  <2>7. rs.desired.application \in Application
    BY <2>1 DEF Desired
  <2> HIDE DEF d
  <2>4. new \in Resource /\ new.desired = d /\ new.observed = rs.observed
    BY <2>1, <2>2, <2>3 DEF Resource
  <2>5. ~Claims(new) /\ (Agrees(new) <=> Agrees(rs)) /\ (Current(new) <=> Current(rs))
    BY <2>2, <2>4 DEF Claims, Agrees, Current
  <2> HIDE DEF new
  <2>6. ValidResource(new)
    BY <1>2, <2>2, <2>4, <2>5, <2>7
       DEF ValidResource, ValidVerified, ValidMismatch, Application
  <2> QED BY <2>4, <2>5, <2>6 DEF new, Fresh
<1> QED BY <1>1, <1>2

\* mark_all_or_invalidate: a claim is attached only where the commit gate
\* accepts it; every other claim is dropped.
LEMMA Mark ==
    ASSUME NEW rs \in Resource, ValidResource(rs), NEW k \in ClaimKind,
           NEW t \in Time, rs.observed.observed_at = t
    PROVE  Marked(MarkOrInvalidate(rs, k, t))
<1> DEFINE new == MarkOrInvalidate(rs, k, t)
<1>1. CASE ~Markable(rs, t)
  <2>1. new = InvalidatePersistence(rs)
    BY <1>1 DEF MarkOrInvalidate
  <2> QED BY <2>1, Invalidate DEF Fresh, Marked
<1>2. CASE Markable(rs, t)
  <2>1. /\ rs.desired \in Desired /\ rs.observed \in Observed
        /\ rs.desired.application = "ReadbackVerified"
        /\ Agrees(rs) /\ Current(rs) /\ t >= rs.observed.observed_at
    BY <1>2 DEF Markable, Resource
  <2> DEFINE c == [kind |-> k, verified_at |-> t]
             d == [rs.desired EXCEPT !.persistence = c]
  <2>2. c \in Claim /\ c.verified_at = t
    BY DEF Claim
  <2> HIDE DEF c
  <2>3. /\ d \in Desired /\ d.value = rs.desired.value
        /\ d.application = rs.desired.application
        /\ d.updated_at = rs.desired.updated_at /\ d.persistence = c
    BY <2>1, <2>2 DEF Desired
  <2>4. new = [desired |-> d, observed |-> rs.observed]
    BY <1>2 DEF MarkOrInvalidate, Resource, c
  <2> HIDE DEF d
  <2>5. /\ new \in Resource /\ new.desired = d /\ new.observed = rs.observed
        /\ new.observed # None
    BY <2>1, <2>3, <2>4, EvidenceAssumption DEF Resource
  <2>6. Agrees(new) /\ Current(new)
    BY <2>1, <2>3, <2>5 DEF Agrees, Current
  <2> HIDE DEF new
  <2>7. ValidResource(new)
    BY <2>1, <2>2, <2>3, <2>5, <2>6 DEF ValidResource, ValidVerified
  <2> QED BY <2>2, <2>3, <2>5, <2>6, <2>7 DEF new, Marked
<1> QED BY <1>1, <1>2

LEMMA EmptyValid == Empty \in Resource /\ ValidResource(Empty)
BY DEF Empty, Resource, ValidResource

-----------------------------------------------------------------------------
(* The invariants of the state machine. *)

EvidenceInv == EvidenceType /\ EvidenceCoherent

\* Every step leaves each resource alone or as a handler leaves it.
EvidenceStepped ==
    /\ res' = [r \in Resources |-> res'[r]]
    /\ \A r \in Resources : res'[r] = res[r] \/ Fresh(res'[r]) \/ Marked(res'[r])

LEMMA EvidenceSteps == EvidenceInv /\ EvidenceNext => EvidenceStepped
<1> SUFFICES ASSUME EvidenceInv, EvidenceNext PROVE EvidenceStepped
  OBVIOUS
<1>0. \A r \in Resources : res[r] \in Resource /\ ValidResource(res[r])
  BY DEF EvidenceInv, EvidenceType, EvidenceCoherent
<1>1. ASSUME NEW S \in SUBSET Resources, NEW want \in Image, NEW t \in Time,
             PersistAcknowledged(S, want, t)
      PROVE  EvidenceStepped
  <2>1. res' = [r \in Resources |-> IF r \in S THEN RecordAckWrite(res[r], want[r], t)
                                               ELSE res[r]]
    BY <1>1 DEF PersistAcknowledged, Update
  <2>2. \A r \in Resources : Fresh(RecordAckWrite(res[r], want[r], t))
    BY <1>0, AckWrite DEF Image
  <2> QED BY <2>1, <2>2 DEF EvidenceStepped
<1>2. ASSUME NEW S \in SUBSET Resources, NEW want \in Image, NEW seen \in Image,
             NEW t \in Time, PersistReadback(S, want, seen, t)
      PROVE  EvidenceStepped
  <2>1. res' = [r \in Resources |->
                  IF r \in S THEN RecordReadbackWrite(res[r], want[r], seen[r], t)
                  ELSE res[r]]
    BY <1>2 DEF PersistReadback, Update
  <2>2. \A r \in Resources : Fresh(RecordReadbackWrite(res[r], want[r], seen[r], t))
    BY <1>0, ReadbackWrite DEF Image
  <2> QED BY <2>1, <2>2 DEF EvidenceStepped
<1>3. ASSUME NEW S \in SUBSET Resources, NEW seen \in Image, NEW t \in Time,
             Observe(S, seen, t)
      PROVE  EvidenceStepped
  <2>1. res' = [r \in Resources |->
                  IF r \in S THEN ReconcileObservation(res[r], seen[r], t) ELSE res[r]]
    BY <1>3 DEF Observe, Update
  <2>2. \A r \in Resources : Fresh(ReconcileObservation(res[r], seen[r], t))
    BY <1>0, Reconcile DEF Image
  <2> QED BY <2>1, <2>2 DEF EvidenceStepped
<1>4. ASSUME NEW k \in ClaimKind, NEW seen \in Image, NEW matched \in BOOLEAN,
             NEW t \in Time, CommitVerification(k, seen, matched, t)
      PROVE  EvidenceStepped
  <2> DEFINE fresh(r) == ReconcileObservation(res[r], seen[r], t)
  <2>1. res' = [r \in Resources |->
                  IF matched THEN MarkOrInvalidate(fresh(r), k, t) ELSE fresh(r)]
    BY <1>4 DEF CommitVerification, Update
  <2>2. \A r \in Resources : Fresh(fresh(r)) /\ fresh(r).observed.observed_at = t
    BY <1>0, Reconcile DEF Image
  <2> HIDE DEF fresh
  <2>3. \A r \in Resources : Marked(MarkOrInvalidate(fresh(r), k, t))
    BY <2>2, Mark DEF Fresh
  <2> QED BY <2>1, <2>2, <2>3 DEF EvidenceStepped
<1>5. ASSUME InvalidateState PROVE EvidenceStepped
  <2>1. res' = [r \in Resources |-> InvalidatePersistence(res[r])]
    BY <1>5 DEF InvalidateState, Update
  <2>2. \A r \in Resources : Fresh(InvalidatePersistence(res[r]))
    BY <1>0, Invalidate
  <2> QED BY <2>1, <2>2 DEF EvidenceStepped
<1>6. ASSUME NEW S \in SUBSET Resources, NEW want \in Image, NEW t \in Time,
             ImportConfiguration(S, want, t)
      PROVE  EvidenceStepped
  <2>1. res' = [r \in Resources |-> IF r \in S THEN SetImported(res[r], want[r], t)
                                               ELSE res[r]]
    BY <1>6 DEF ImportConfiguration, Update
  <2>2. \A r \in Resources : Fresh(SetImported(res[r], want[r], t))
    BY <1>0, Import DEF Image
  <2> QED BY <2>1, <2>2 DEF EvidenceStepped
<1> QED BY <1>1, <1>2, <1>3, <1>4, <1>5, <1>6 DEF EvidenceNext

\* The evidence of every resource passes the commit gate in every reachable
\* state, for any set of resources, values and clock readings.
THEOREM EvidenceAlwaysValid == EvidenceSpec => [](EvidenceType /\ EvidenceCoherent)
<1>1. EvidenceInit => EvidenceInv
  BY EmptyValid DEF EvidenceInit, EvidenceInv, EvidenceType, EvidenceCoherent
<1>2. EvidenceInv /\ [EvidenceNext]_res => EvidenceInv'
  <2> SUFFICES ASSUME EvidenceInv, [EvidenceNext]_res PROVE EvidenceInv'
    OBVIOUS
  <2>1. CASE EvidenceNext
    <3>1. EvidenceStepped
      BY <2>1, EvidenceSteps
    <3>2. \A r \in Resources : res'[r] \in Resource /\ ValidResource(res'[r])
      BY <3>1 DEF EvidenceStepped, Fresh, Marked, EvidenceInv, EvidenceType, EvidenceCoherent
    <3> QED BY <3>1, <3>2 DEF EvidenceStepped, EvidenceInv, EvidenceType, EvidenceCoherent
  <2>2. CASE UNCHANGED res
    BY <2>2 DEF EvidenceInv, EvidenceType, EvidenceCoherent
  <2> QED BY <2>1, <2>2
<1> QED BY <1>1, <1>2, PTL DEF EvidenceSpec, EvidenceInv

\* A persistence claim stands on the readback committed in the same step, in
\* every step of every behaviour.
THEOREM ClaimsStandOnReadback == EvidenceSpec => ClaimOnlyFromItsReadback
<1>1. EvidenceInv /\ [EvidenceNext]_res =>
        [\A r \in Resources :
            Claims(res'[r]) /\ res'[r] # res[r] =>
                /\ res'[r].observed.observed_at = res'[r].desired.persistence.verified_at
                /\ Agrees(res'[r])]_res
  BY EvidenceSteps DEF EvidenceStepped, Fresh, Marked
<1>2. EvidenceSpec => []EvidenceInv
  BY EvidenceAlwaysValid, PTL DEF EvidenceInv
<1> QED BY <1>1, <1>2, PTL DEF EvidenceSpec, ClaimOnlyFromItsReadback

-----------------------------------------------------------------------------
(* The attachment.  What a process may rely on is what the marks said when   *)
(* it read them; state.json, which other processes change, keeps the token   *)
(* of every device id it has given.                                          *)

SeenMarks == Token \cup {None, Invalid}
Sights == [unit : Unit, mark : SeenMarks]

\* The mice and what is known of them.
World ==
    /\ at \in [Port -> Unit \cup {None}]
    /\ mark \in [Unit -> SeenMarks]
    /\ learnt \in [Process -> [Port -> Sights \cup {None}]]
    /\ cache = [p \in Process |-> cache[p]]
    /\ job = [p \in Process |-> job[p]]

\* A mark in the cache is the one last read there.
Cache(p) == \A e \in DOMAIN cache[p] :
    /\ e \in Port /\ cache[p][e].end.at = e
    /\ learnt[p][e] # None /\ learnt[p][e].mark = cache[p][e].seen

\* An open session on a mouse with a token was last seen to carry it.
Session(p) ==
    job[p].pc = "ready" /\ job[p].token # None /\ Usb(job[p].end)
    => learnt[p][job[p].end.at] # None /\ learnt[p][job[p].end.at].mark = job[p].token

\* state.json, as far as the tokens are concerned.
Fields == {"mode", "devices", "next", "selected", "map", "setup"}
DeviceFields == {"token", "eps", "pref"}
ScanFields == {"pc", "rows", "selection"}
Store(s) ==
    /\ Fields \subseteq DOMAIN s /\ Valid(s)
    /\ s.next \in Nat /\ DOMAIN s.devices \subseteq Nat
    /\ s.setup # None => s.setup.token \in Token
    /\ \A d \in DOMAIN s.devices : DeviceFields \subseteq DOMAIN s.devices[d]

\* A row whose mark was read is of no device with another token, not even of one
\* that is still to be added.
RowOf(s, row) ==
    /\ {"seen", "why", "device"} \subseteq DOMAIN row
    /\ row.seen \in Token => row.why # "Absent"
    /\ row.seen \in Token /\ row.why = "Resolved" /\ s.mode # "Legacy" =>
          /\ row.device \in Nat /\ row.device < s.next
          /\ row.device \in DOMAIN s.devices => s.devices[row.device].token \in {None, row.seen}

Rows(p) ==
    job[p].pc \in {"attach", "remember", "sync"} =>
        /\ ScanFields \subseteq DOMAIN job[p]
        /\ \A row \in job[p].rows : RowOf(st, row)

Attachments ==
    /\ World /\ Store(st)
    /\ \A p \in Process : Cache(p) /\ Session(p) /\ Rows(p)

\* What every transaction leaves alone.
Keeps(s) ==
    /\ Fields \subseteq DOMAIN s /\ s.mode = st.mode
    /\ s.next \in Nat /\ st.next <= s.next /\ DOMAIN s.devices \subseteq Nat
    /\ s.setup # None => s.setup.token \in Token
    /\ \A d \in DOMAIN s.devices :
          /\ DeviceFields \subseteq DOMAIN s.devices[d]
          /\ d < st.next => d \in DOMAIN st.devices /\ s.devices[d].token = st.devices[d].token

\* What every transaction but those of a new device and of a journal does.
Narrow(s) == s.setup = st.setup /\ DOMAIN s.devices \subseteq DOMAIN st.devices

LEMMA StoreNumbers ==
    ASSUME Store(st)
    PROVE  /\ \A d \in DOMAIN st.devices :
                 d \in Nat /\ d < st.next /\ DeviceFields \subseteq DOMAIN st.devices[d]
           /\ st.next \in Nat /\ Fields \subseteq DOMAIN st
BY DEF Store, Valid

LEMMA NothingKept ==
    ASSUME Store(st)
    PROVE  Keeps(st) /\ Narrow(st)
BY StoreNumbers DEF Keeps, Narrow, Store

LEMMA CommitKeeps ==
    ASSUME Store(st), NEW s, Keeps(s), Commit(s)
    PROVE  Keeps(st') /\ Store(st')
BY NothingKept DEF Commit, Store, Keeps

LEMMA CommitNarrow ==
    ASSUME NEW s, Narrow(s), Commit(s)
    PROVE  Narrow(st')
BY DEF Commit, Narrow

\* A transaction that adds no device and changes no token.
LEMMA SameTokens ==
    ASSUME Store(st), NEW s, Fields \subseteq DOMAIN s, s.mode = st.mode, s.next = st.next,
           s.setup = None \/ s.setup = st.setup \/ s.setup.token \in Token,
           DOMAIN s.devices \subseteq DOMAIN st.devices,
           \A d \in DOMAIN s.devices : /\ DeviceFields \subseteq DOMAIN s.devices[d]
                                       /\ s.devices[d].token = st.devices[d].token
    PROVE  Keeps(s)
BY StoreNumbers DEF Keeps, Store

\* One that changes another field of one device.
LEMMA OneDevice ==
    ASSUME Store(st), NEW s, NEW d, NEW device,
           Fields \subseteq DOMAIN s, s.mode = st.mode, s.next = st.next, s.setup = st.setup,
           d \in DOMAIN st.devices => DeviceFields \subseteq DOMAIN device /\ device.token = st.devices[d].token,
           s.devices = [st.devices EXCEPT ![d] = device]
    PROVE  Keeps(s) /\ Narrow(s)
<1>1. /\ DOMAIN s.devices = DOMAIN st.devices
      /\ \A e \in DOMAIN s.devices : s.devices[e] = IF e = d THEN device ELSE st.devices[e]
  OBVIOUS
<1>2. \A e \in DOMAIN s.devices : /\ DeviceFields \subseteq DOMAIN s.devices[e]
                                  /\ s.devices[e].token = st.devices[e].token
  BY <1>1, StoreNumbers
<1> QED BY <1>1, <1>2, SameTokens DEF Narrow

LEMMA AddedDevice ==
    ASSUME Store(st), NEW s, NEW token, NEW eps,
           s \in {st, [st EXCEPT !.setup = None]}
    PROVE  Keeps(AddDevice(s, NewDevice(token, eps)))
<1> DEFINE a == AddDevice(s, NewDevice(token, eps))
<1>1. /\ Fields \subseteq DOMAIN s /\ s.mode = st.mode /\ s.next = st.next /\ s.devices = st.devices
      /\ s.setup = None \/ s.setup = st.setup
  BY StoreNumbers DEF Fields
<1>2. /\ Fields \subseteq DOMAIN a /\ a.mode = st.mode /\ a.next = st.next + 1 /\ a.setup = s.setup
      /\ DOMAIN a.devices = DOMAIN st.devices \cup {st.next}
      /\ \A d \in DOMAIN a.devices :
            a.devices[d] = IF d = st.next THEN NewDevice(token, eps) ELSE st.devices[d]
  BY <1>1 DEF AddDevice, Fields
<1>3. DeviceFields \subseteq DOMAIN NewDevice(token, eps)
  BY DEF NewDevice, DeviceFields
<1> HIDE DEF a
<1>4. /\ a.next \in Nat /\ st.next <= a.next /\ DOMAIN a.devices \subseteq Nat
      /\ a.setup # None => a.setup.token \in Token
  BY <1>1, <1>2, StoreNumbers DEF Store
<1>5. ASSUME NEW d \in DOMAIN a.devices
      PROVE  /\ DeviceFields \subseteq DOMAIN a.devices[d]
             /\ d < st.next => d \in DOMAIN st.devices /\ a.devices[d].token = st.devices[d].token
  BY <1>2, <1>3, <1>5, StoreNumbers
<1> QED BY <1>2, <1>4, <1>5 DEF Keeps, a

LEMMA AttachKeeps ==
    ASSUME Store(st), NEW end, NEW d
    PROVE  Keeps(Attach(st, end, d)) /\ Narrow(Attach(st, end, d))
<1> DEFINE s == Attach(st, end, d)
           device == [st.devices[d] EXCEPT !.eps = [@ EXCEPT ![Kind[end.at]] = end]]
<1>1. /\ Fields \subseteq DOMAIN s /\ s.mode = st.mode /\ s.next = st.next /\ s.setup = st.setup
      /\ s.devices = [st.devices EXCEPT ![d] = device]
  BY StoreNumbers DEF Attach, Fields
<1>2. d \in DOMAIN st.devices => DeviceFields \subseteq DOMAIN device /\ device.token = st.devices[d].token
  BY StoreNumbers DEF DeviceFields
<1> HIDE DEF s, device
<1>3. Keeps(s) /\ Narrow(s)
  BY <1>1, <1>2, OneDevice
<1> QED BY <1>3 DEF s

\* Every transaction of a scan, of a command and of a ceremony is one of these.
LEMMA EnsureKeeps ==
    ASSUME Store(st), NEW p, Ensure(p)
    PROVE  Keeps(st') /\ Store(st')
<1>1. PICK s : Commit(s) /\ \/ s = st
                            \/ \E eps : s = AddDevice(st, NewDevice(None, eps))
  BY DEF Ensure
<1>2. Keeps(s)
  BY <1>1, NothingKept, AddedDevice
<1> QED BY <1>1, <1>2, CommitKeeps

LEMMA RememberKeeps ==
    ASSUME Store(st), NEW p, RememberAttachment(p) \/ \E d : RememberResolution(p, d)
    PROVE  Keeps(st') /\ Store(st') /\ Narrow(st')
<1>1. PICK s : Commit(s) /\ (s = st \/ \E end, d : s = Attach(st, end, d))
  BY DEF RememberAttachment, RememberResolution
<1>2. Keeps(s) /\ Narrow(s)
  BY <1>1, NothingKept, AttachKeeps
<1> QED BY <1>1, <1>2, CommitKeeps, CommitNarrow

LEMMA SyncKeeps ==
    ASSUME Store(st), NEW p, Sync(p)
    PROVE  Keeps(st') /\ Store(st') /\ Narrow(st')
<1> DEFINE found(d) == {row \in job[p].rows : row.device = d}
           synced(d) == SyncedDevice(st.devices[d], found(d), Kinds(job[p].selection))
           devices == [d \in DOMAIN st.devices |->
                          IF found(d) = {} THEN st.devices[d] ELSE synced(d)]
           s == [st EXCEPT !.devices = devices]
<1>1. Commit(s)
  BY DEF Sync
<1>2. ASSUME NEW d \in DOMAIN st.devices
      PROVE  DeviceFields \subseteq DOMAIN synced(d) /\ synced(d).token = st.devices[d].token
  BY <1>2, StoreNumbers DEF SyncedDevice, DeviceFields
<1>3. /\ Fields \subseteq DOMAIN s /\ s.mode = st.mode /\ s.next = st.next /\ s.setup = st.setup
      /\ s.devices = devices
  BY StoreNumbers DEF Fields
<1> HIDE DEF synced, found
<1>4. \A d \in DOMAIN devices : /\ d \in DOMAIN st.devices /\ DeviceFields \subseteq DOMAIN devices[d]
                                /\ devices[d].token = st.devices[d].token
  BY <1>2, StoreNumbers
<1> HIDE DEF devices, s
<1>5. Keeps(s) /\ Narrow(s)
  BY <1>3, <1>4, SameTokens DEF Narrow
<1> QED BY <1>1, <1>5, CommitKeeps, CommitNarrow

LEMMA CommandKeeps ==
    ASSUME Store(st), NEW p, NEW e,
           PickDevice(p) \/ SelectDevice(e) \/ Operate(p) \/ \E force : ForgetDevice(e, force)
    PROVE  Keeps(st') /\ Store(st') /\ Narrow(st')
<1>1. CASE PickDevice(p)
  <2> DEFINE d == Choice(p, job[p].want)
             preferred == IF job[p].selection = "Auto" THEN st
                          ELSE [st EXCEPT !.devices[d].pref = job[p].selection]
             chosen == [preferred EXCEPT !.selected = d]
             device == [st.devices[d] EXCEPT !.pref = job[p].selection]
  <2>1. PICK s : Commit(s) /\ s \in {st, preferred, chosen}
    BY <1>1 DEF PickDevice
  <2>2. d \in DOMAIN st.devices => DeviceFields \subseteq DOMAIN device /\ device.token = st.devices[d].token
    BY StoreNumbers DEF DeviceFields
  <2>3. /\ Fields \subseteq DOMAIN preferred /\ preferred.mode = st.mode /\ preferred.next = st.next
        /\ preferred.setup = st.setup
        /\ \/ preferred.devices = st.devices
           \/ preferred.devices = [st.devices EXCEPT ![d] = device]
    BY StoreNumbers DEF Fields
  <2> HIDE DEF d, preferred, device
  <2>4. /\ Fields \subseteq DOMAIN chosen /\ chosen.mode = st.mode /\ chosen.next = st.next
        /\ chosen.setup = st.setup /\ chosen.devices = preferred.devices
    BY <2>3 DEF Fields
  <2> HIDE DEF chosen
  <2>5. Keeps(preferred) /\ Keeps(chosen) /\ Narrow(preferred) /\ Narrow(chosen)
    <3>1. CASE preferred.devices = st.devices
      BY <2>3, <2>4, <3>1, SameTokens, StoreNumbers DEF Narrow
    <3>2. CASE preferred.devices = [st.devices EXCEPT ![d] = device]
      <4>1. Keeps(preferred) /\ Narrow(preferred)
        BY <2>2, <2>3, <3>2, OneDevice
      <4>2. chosen.devices = [st.devices EXCEPT ![d] = device]
        BY <2>4, <3>2
      <4>3. Keeps(chosen) /\ Narrow(chosen)
        BY <2>2, <2>4, <4>2, OneDevice
      <4> QED BY <4>1, <4>3
    <3> QED BY <2>3, <3>1, <3>2
  <2>6. Keeps(s) /\ Narrow(s)
    BY <2>1, <2>5, NothingKept
  <2> QED BY <2>1, <2>6, CommitKeeps, CommitNarrow
<1>2. CASE SelectDevice(e)
  <2>1. PICK s : Commit(s) /\ s = [st EXCEPT !.selected = e]
    BY <1>2 DEF SelectDevice
  <2>2. /\ Fields \subseteq DOMAIN s /\ s.mode = st.mode /\ s.next = st.next /\ s.setup = st.setup
        /\ s.devices = st.devices
    BY <2>1, StoreNumbers DEF Fields
  <2>3. Keeps(s) /\ Narrow(s)
    BY <2>2, SameTokens, StoreNumbers DEF Narrow
  <2> QED BY <2>1, <2>3, CommitKeeps, CommitNarrow
<1>3. CASE Operate(p)
  <2> DEFINE d == job[p].device
             device == [st.devices[d] EXCEPT !.evidence = TRUE]
             s == [st EXCEPT !.devices[d].evidence = TRUE]
  <2>1. Commit(s) \/ UNCHANGED st
    BY <1>3 DEF Operate
  <2>2. d \in DOMAIN st.devices => DeviceFields \subseteq DOMAIN device /\ device.token = st.devices[d].token
    BY StoreNumbers DEF DeviceFields
  <2>3. /\ Fields \subseteq DOMAIN s /\ s.mode = st.mode /\ s.next = st.next /\ s.setup = st.setup
        /\ s.devices = [st.devices EXCEPT ![d] = device]
    BY StoreNumbers DEF Fields
  <2> HIDE DEF d, device, s
  <2>4. Keeps(s) /\ Narrow(s)
    BY <2>2, <2>3, OneDevice
  <2> QED BY <2>1, <2>4, CommitKeeps, CommitNarrow, NothingKept
<1>4. CASE \E force : ForgetDevice(e, force)
  <2>1. PICK s : Commit(s) /\ s = WithoutDevice(st, e)
    BY <1>4 DEF ForgetDevice
  <2>2. /\ Fields \subseteq DOMAIN s /\ s.mode = st.mode /\ s.next = st.next /\ s.setup = st.setup
        /\ s.devices = [d \in DOMAIN st.devices \ {e} |-> st.devices[d]]
    BY <2>1, StoreNumbers DEF Fields, WithoutDevice
  <2>3. Keeps(s) /\ Narrow(s)
    BY <2>2, SameTokens, StoreNumbers DEF Narrow
  <2> QED BY <2>1, <2>3, CommitKeeps, CommitNarrow
<1> QED BY <1>1, <1>2, <1>3, <1>4

LEMMA SetupKeeps ==
    ASSUME Store(st), \/ SetupEnds
                      \/ \E d \in DOMAIN st.devices \cup {None}, t \in Token : SetupBegins(d, t)
    PROVE  Keeps(st') /\ Store(st')
<1>1. CASE SetupEnds
  <2> DEFINE done == [st EXCEPT !.setup = None]
  <2>1. /\ Fields \subseteq DOMAIN done /\ done.mode = st.mode /\ done.next = st.next
        /\ done.setup = None /\ done.devices = st.devices
    BY StoreNumbers DEF Fields
  <2>2. PICK s : Commit(s) /\ (s = done \/ \E token, eps : s = AddDevice(done, NewDevice(token, eps)))
    BY <1>1 DEF SetupEnds
  <2>3. done \in {st, [st EXCEPT !.setup = None]}
    OBVIOUS
  <2> HIDE DEF done
  <2>4. Keeps(done)
    BY <2>1, SameTokens, StoreNumbers
  <2>5. Keeps(s)
    BY <2>2, <2>3, <2>4, AddedDevice
  <2> QED BY <2>2, <2>5, CommitKeeps
<1>2. CASE \E d \in DOMAIN st.devices \cup {None}, t \in Token : SetupBegins(d, t)
  <2>1. PICK d \in DOMAIN st.devices \cup {None}, t \in Token : SetupBegins(d, t)
    BY <1>2
  <2> DEFINE s == [st EXCEPT !.setup = [device |-> d, token |-> t]]
  <2>2. /\ Fields \subseteq DOMAIN s /\ s.mode = st.mode /\ s.next = st.next
        /\ s.setup.token \in Token /\ s.devices = st.devices
    BY StoreNumbers DEF Fields
  <2>3. Commit(s)
    BY <2>1 DEF SetupBegins
  <2> HIDE DEF s
  <2>4. Keeps(s)
    BY <2>2, SameTokens, StoreNumbers
  <2> QED BY <2>3, <2>4, CommitKeeps
<1> QED BY <1>1, <1>2

\* No step gives the id or the token of a device to another one.
LEMMA StoreStep ==
    ASSUME Store(st), AttachmentNext
    PROVE  Keeps(st') /\ Store(st')
<1>1. CASE UNCHANGED st
  BY <1>1, NothingKept
<1>2. CASE \E p \in Process : Step(p)
  <2>1. PICK p \in Process : Step(p)
    BY <1>2
  <2>2. CASE UNCHANGED st
    BY <1>1, <2>2
  <2>3. CASE Ensure(p) \/ RememberAttachment(p) \/ Sync(p) \/ PickDevice(p) \/ Operate(p)
    BY <2>3, EnsureKeeps, RememberKeeps, SyncKeeps, CommandKeeps
  <2>4. CASE ReadMark(p) \/ ResolveAll(p) \/ AutoAttach(p) \/ Attached(p)
    BY <1>1, <2>4 DEF ReadMark, ResolveAll, AutoAttach, Attached
  <2> QED BY <2>1, <2>3, <2>4 DEF Step
<1>3. CASE \E p \in Process, d \in DOMAIN st.devices : RememberResolution(p, d)
  BY <1>3, RememberKeeps
<1>4. CASE \E d \in DOMAIN st.devices : SelectDevice(d) \/ \E force \in BOOLEAN : ForgetDevice(d, force)
  BY <1>4, CommandKeeps
<1>5. CASE \/ \E p \in Process : \/ \E scan \in Scans : List(p, scan.selection, scan.want)
                                 \/ \E d \in DOMAIN st.devices : OpenLocked(p, d)
           \/ \E e \in Port, u \in Unit \cup {None} : Plug(e, u)
           \/ \E b \in Radio : ComeOrGo(b)
  BY <1>1, <1>5 DEF List, OpenLocked, Plug, ComeOrGo
<1> QED BY <1>2, <1>3, <1>4, <1>5, SetupKeeps DEF AttachmentNext

\* The rows and the knowledge of a process outlast the steps of everyone else.
Untouched(q) == cache'[q] = cache[q] /\ learnt'[q] = learnt[q] /\ job'[q] = job[q]

LEMMA RowStays ==
    ASSUME Store(st), NEW s, Keeps(s), NEW row, RowOf(st, row)
    PROVE  RowOf(s, row)
<1>1. ASSUME row.seen \in Token, row.why = "Resolved", s.mode # "Legacy"
      PROVE  /\ row.device \in Nat /\ row.device < s.next
             /\ row.device \in DOMAIN s.devices => s.devices[row.device].token \in {None, row.seen}
  <2>1. /\ row.device \in Nat /\ row.device < st.next
        /\ row.device \in DOMAIN st.devices => st.devices[row.device].token \in {None, row.seen}
    BY <1>1 DEF RowOf, Keeps
  <2>2. row.device < s.next
    BY <2>1, StoreNumbers DEF Keeps
  <2> QED BY <2>1, <2>2 DEF Keeps
<1> QED BY <1>1 DEF RowOf

LEMMA Unchanging ==
    ASSUME Store(st), Keeps(st'), NEW q, Cache(q), Session(q), Rows(q), Untouched(q)
    PROVE  Cache(q)' /\ Session(q)' /\ Rows(q)'
<1>1. Cache(q)' /\ Session(q)'
  BY DEF Untouched, Cache, Session
<1>2. PICK s : s = st' /\ Keeps(s)
  OBVIOUS
<1>3. ASSUME job'[q].pc \in {"attach", "remember", "sync"}, NEW row \in job'[q].rows
      PROVE  RowOf(s, row)
  BY <1>2, <1>3, RowStays DEF Untouched, Rows
<1>4. Rows(q)'
  BY <1>2, <1>3 DEF Rows, Untouched
<1> QED BY <1>1, <1>4

\* The steps of one process.
Acts(p) == \/ \E scan \in Scans : List(p, scan.selection, scan.want)
           \/ Step(p)
           \/ \E d \in DOMAIN st.devices : RememberResolution(p, d) \/ OpenLocked(p, d)

LEMMA Elsewhere ==
    ASSUME World, NEW p \in Process, Acts(p), NEW q \in Process, q # p
    PROVE  Untouched(q)
<1>1. \/ UNCHANGED job
      \/ \E state : job' = [job EXCEPT ![p] = state]
  BY DEF Acts, Step, List, Ensure, Resolve, ReadMark, ResolveAll, AutoAttach, RememberAttachment, Sync,
         PickDevice, Attached, Operate, RememberResolution, OpenLocked, Become
<1>2. \/ UNCHANGED <<cache, learnt>>
      \/ ReadMark(p) \/ ResolveAll(p) \/ Attached(p)
  BY DEF Acts, Step, List, Ensure, AutoAttach, RememberAttachment, Sync, PickDevice, Operate,
         RememberResolution, OpenLocked, history
<1>3. /\ \/ UNCHANGED cache
         \/ \E known : cache' = [cache EXCEPT ![p] = known]
      /\ \/ UNCHANGED learnt
         \/ \E sights : learnt' = [learnt EXCEPT ![p] = sights]
  BY <1>2 DEF ReadMark, ResolveAll, Attached, Remember, Learn
<1>4. job'[q] = job[q]
  BY <1>1 DEF World
<1>5. cache'[q] = cache[q] /\ learnt'[q] = learnt[q]
  BY <1>3 DEF World
<1> QED BY <1>4, <1>5 DEF Untouched

\* A mark is read and remembered: both say the same.
LEMMA ReadKeeps ==
    ASSUME World, NEW p \in Process, Cache(p), NEW end, end.at \in Port, at[end.at] # None,
           Remember(p, end, mark[at[end.at]]), Learn(p, end.at)
    PROVE  /\ Cache(p)'
           /\ learnt'[p][end.at] # None /\ learnt'[p][end.at].mark = mark[at[end.at]]
           /\ learnt' \in [Process -> [Port -> Sights \cup {None}]]
           /\ cache' = [q \in Process |-> cache'[q]]
<1> DEFINE e == end.at
           sight == [unit |-> at[e], mark |-> mark[at[e]]]
<1>1. e \in Port /\ sight \in Sights
  BY DEF World, Sights
<1>2. sight # None
  BY <1>1, MarkAssumption DEF Sights, SeenMarks
<1>3. learnt' = [learnt EXCEPT ![p] = [learnt[p] EXCEPT ![e] = sight]]
  BY DEF Learn
<1>4. cache' = [cache EXCEPT ![p] = [f \in DOMAIN cache[p] \cup {e} |->
                     IF f = e THEN [end |-> end, seen |-> mark[at[e]]] ELSE cache[p][f]]]
  BY DEF Remember
<1>5. sight.mark = mark[at[e]]
  OBVIOUS
<1>6. PICK m : m = mark[at[e]]
  OBVIOUS
<1>7. end.at = e
  OBVIOUS
<1> HIDE DEF sight, e
<1>8. learnt'[p] = [learnt[p] EXCEPT ![e] = sight] /\ learnt'[p][e] = sight
      /\ learnt' \in [Process -> [Port -> Sights \cup {None}]]
      /\ \A f \in Port : f # e => learnt'[p][f] = learnt[p][f]
  BY <1>1, <1>3 DEF World
<1>9. /\ DOMAIN cache'[p] = DOMAIN cache[p] \cup {e}
      /\ cache'[p][e].end = end /\ cache'[p][e].seen = m
      /\ \A f \in DOMAIN cache[p] : f # e => cache'[p][f] = cache[p][f]
      /\ cache' = [q \in Process |-> cache'[q]]
  BY <1>4, <1>6 DEF World
<1>10. Cache(p)'
  <2>1. ASSUME NEW f \in DOMAIN cache'[p]
        PROVE  /\ f \in Port /\ cache'[p][f].end.at = f
               /\ learnt'[p][f] # None /\ learnt'[p][f].mark = cache'[p][f].seen
    BY <1>1, <1>2, <1>5, <1>6, <1>7, <1>8, <1>9 DEF Cache
  <2> QED BY <2>1 DEF Cache
<1> QED BY <1>2, <1>5, <1>6, <1>7, <1>8, <1>9, <1>10

\* resolve_connection: a mark that was read, if it means a device, means the one
\* that owns it.
LEMMA ResolvedOwner ==
    ASSUME Store(st), NEW end, NEW seen \in Token, Usb(end), st.mode # "Legacy",
           ResolveConnection(st, end, seen).why = "Resolved",
           NEW owner, owner = ResolveConnection(st, end, seen).device
    PROVE  owner \in DOMAIN st.devices /\ st.devices[owner].token = seen
<1>1. seen # None /\ seen # Invalid
  BY MarkAssumption
<1> DEFINE mine == Owners(st, seen)
<1>2. ResolveConnection(st, end, seen) = ResolveValidToken(st, seen)
  BY <1>1 DEF ResolveConnection
<1>3. ResolveConnection(st, end, seen) = Resolved(Min(mine)) /\ mine # {}
  <2> DEFINE r == ResolveValidToken(st, seen)
  <2>1. \/ \E why \in {"ReservedByJournal", "Unknown", "Duplicate"} : r = Unresolved(why)
        \/ r = Resolved(Min(mine)) /\ mine # {}
    <3>1. CASE st.setup # None /\ st.setup.token = seen
      BY <3>1 DEF ResolveValidToken
    <3>2. CASE ~(st.setup # None /\ st.setup.token = seen) /\ mine = {}
      <4>1. Cardinality(mine) # 1
        BY <3>2, FS_EmptySet
      <4> QED BY <3>2, <4>1 DEF ResolveValidToken
    <3>3. CASE ~(st.setup # None /\ st.setup.token = seen) /\ mine # {} /\ Cardinality(mine) = 1
      BY <3>3 DEF ResolveValidToken
    <3>4. CASE ~(st.setup # None /\ st.setup.token = seen) /\ mine # {} /\ Cardinality(mine) # 1
      BY <3>4 DEF ResolveValidToken
    <3> QED BY <3>1, <3>2, <3>3, <3>4
  <2> HIDE DEF r, mine
  <2>2. r.why = "Resolved"
    BY <1>2 DEF r
  <2> QED BY <1>2, <2>1, <2>2 DEF Unresolved, r
<1>4. PICK d : d \in mine
  BY <1>3
<1>5. \A e \in mine : e = d
  BY <1>4 DEF Owners, Store, Valid
<1>6. d \in Nat /\ d \in DOMAIN st.devices /\ st.devices[d].token = seen
  BY <1>4, StoreNumbers DEF Owners
<1> HIDE DEF mine
<1>7. Min(mine) = d
  <2>1. d \in mine /\ \A e \in mine : d =< e
    BY <1>4, <1>5, <1>6
  <2>2. Min(mine) \in mine
    BY <2>1 DEF Min
  <2> QED BY <1>5, <2>2
<1> QED BY <1>3, <1>6, <1>7 DEF Resolved

LEMMA ResolvedRow ==
    ASSUME Store(st), NEW end, NEW seen, Usb(end) \/ seen = None, NEW row,
           {"seen", "why", "device"} \subseteq DOMAIN row, row.seen = seen,
           row.why = ResolveConnection(st, end, seen).why,
           row.device = ResolveConnection(st, end, seen).device
    PROVE  RowOf(st, row)
<1>1. ASSUME seen \in Token
      PROVE  row.why # "Absent"
  <2>1. Usb(end) /\ seen # None /\ seen # Invalid
    BY <1>1, MarkAssumption
  <2> QED BY <2>1 DEF ResolveConnection, ResolveValidToken, Unresolved, Resolved
<1>2. ASSUME seen \in Token, row.why = "Resolved", st.mode # "Legacy"
      PROVE  row.device \in DOMAIN st.devices /\ st.devices[row.device].token = seen
  <2>1. Usb(end)
    BY <1>2, MarkAssumption
  <2>2. PICK d : d = row.device
    OBVIOUS
  <2>3. ResolveConnection(st, end, seen).why = "Resolved"
    BY <1>2
  <2>4. d \in DOMAIN st.devices /\ st.devices[d].token = seen
    BY <1>2, <2>1, <2>2, <2>3, ResolvedOwner
  <2> QED BY <2>2, <2>4
<1> QED BY <1>1, <1>2, StoreNumbers DEF RowOf

LEMMA DuplicateRow ==
    ASSUME NEW s, NEW rows, \A r \in rows : RowOf(s, r), NEW row \in MarkScanDuplicates(rows)
    PROVE  RowOf(s, row)
<1>1. PICK r \in rows : row = r \/ row = [r EXCEPT !.why = "Duplicate"]
  BY DEF MarkScanDuplicates
<1> QED BY <1>1 DEF RowOf

\* A scan that resolves by the cache.
LEMMA ScanRows ==
    ASSUME Store(st), NEW p \in Process, World, NEW known, DOMAIN known \subseteq Port, NEW next,
           Resolve(p, st, known, next)
    PROVE  /\ job'[p].pc = next /\ ScanFields \subseteq DOMAIN job'[p]
           /\ \A row \in job'[p].rows : RowOf(st, row)
<1> DEFINE seen(entry) == IF entry.connected /\ entry.end.at \in DOMAIN known
                             /\ known[entry.end.at].end = entry.end
                          THEN known[entry.end.at].seen ELSE None
           row(entry) == LET r == ResolveConnection(st, entry.end, seen(entry))
                         IN  [end |-> entry.end, connected |-> entry.connected, seen |-> seen(entry),
                              why |-> r.why, device |-> r.device]
           rows == {row(entry) : entry \in job[p].list}
<1>1. job' = [job EXCEPT ![p] = [pc |-> next, selection |-> job[p].selection, want |-> job[p].want,
                                 rows |-> MarkScanDuplicates(rows)]]
  BY DEF Resolve, Become
<1>2. ASSUME NEW entry
      PROVE  RowOf(st, row(entry))
  <2>1. Usb(entry.end) \/ seen(entry) = None
    BY DEF Usb
  <2> HIDE DEF seen
  <2>2. PICK r : r = row(entry)
    OBVIOUS
  <2>3. /\ {"seen", "why", "device"} \subseteq DOMAIN r /\ r.seen = seen(entry)
        /\ r.why = ResolveConnection(st, entry.end, seen(entry)).why
        /\ r.device = ResolveConnection(st, entry.end, seen(entry)).device
    BY <2>2
  <2> QED BY <2>1, <2>2, <2>3, ResolvedRow
<1> HIDE DEF row
<1>3. \A r \in rows : RowOf(st, r)
  BY <1>2
<1> HIDE DEF rows
<1>4. \A r \in MarkScanDuplicates(rows) : RowOf(st, r)
  BY <1>3, DuplicateRow
<1>5. job'[p] = [pc |-> next, selection |-> job[p].selection, want |-> job[p].want,
                 rows |-> MarkScanDuplicates(rows)]
  BY <1>1 DEF World
<1> QED BY <1>4, <1>5 DEF ScanFields

\* What p knows after a step of its own.
Knows(p) ==
    /\ Cache(p)' /\ Session(p)' /\ Rows(p)'
    /\ learnt' \in [Process -> [Port -> Sights \cup {None}]]
    /\ cache' = [q \in Process |-> cache'[q]]

\* The knowledge stays when the call goes on to a state without rows or session.
LEMMA GoesOn ==
    ASSUME Attachments, NEW p \in Process, UNCHANGED <<cache, learnt>>,
           job'[p].pc \notin {"attach", "remember", "sync", "ready"}
    PROVE  Knows(p)
<1>1. Cache(p)'
  BY DEF Attachments, Cache
<1>2. Session(p)' /\ Rows(p)'
  BY DEF Session, Rows
<1> QED BY <1>1, <1>2 DEF Knows, Attachments, World

\* It also stays with new rows.
LEMMA NewRows ==
    ASSUME Attachments, NEW p \in Process, UNCHANGED <<cache, learnt>>,
           job'[p].pc # "ready", ScanFields \subseteq DOMAIN job'[p],
           \A row \in job'[p].rows : RowOf(st', row)
    PROVE  Knows(p)
<1>1. Cache(p)'
  BY DEF Attachments, Cache
<1>2. Session(p)' /\ Rows(p)'
  BY DEF Session, Rows
<1> QED BY <1>1, <1>2 DEF Knows, Attachments, World

LEMMA PlainSteps ==
    ASSUME Attachments, NEW p \in Process,
           \/ \E scan : List(p, scan.selection, scan.want)
           \/ Sync(p) \/ PickDevice(p) \/ Operate(p) \/ \E d : OpenLocked(p, d)
    PROVE  Knows(p)
<1>1. UNCHANGED <<cache, learnt>>
  BY DEF List, Sync, PickDevice, Operate, OpenLocked, history
<1>2. PICK state : job' = [job EXCEPT ![p] = state]
                   /\ state.pc \in {"ensure", "read", "idle", "pick", "opening"}
  BY DEF List, Sync, PickDevice, Operate, OpenLocked, Become, Idle
<1>3. job'[p] = state
  BY <1>2 DEF Attachments, World
<1> QED BY <1>1, <1>2, <1>3, GoesOn

LEMMA EnsureStep ==
    ASSUME Attachments, NEW p \in Process, Ensure(p)
    PROVE  Knows(p)
<1>1. Store(st') /\ UNCHANGED <<cache, learnt>> /\ Resolve(p, st', <<>>, "sync")
  BY EnsureKeeps DEF Ensure, history, Attachments
<1> DEFINE row(entry) ==
              LET r == ResolveConnection(st', entry.end, None)
              IN  [end |-> entry.end, connected |-> entry.connected, seen |-> None,
                   why |-> r.why, device |-> r.device]
           rows == {row(entry) : entry \in job[p].list}
<1>2. job'[p] = [pc |-> "sync", selection |-> job[p].selection, want |-> job[p].want,
                 rows |-> MarkScanDuplicates(rows)]
  BY <1>1 DEF Resolve, Become, Attachments, World
<1>3. \A r \in rows : RowOf(st', r)
  BY MarkAssumption DEF RowOf
<1> HIDE DEF rows
<1>4. PICK s : s = st'
  OBVIOUS
<1>5. \A r \in MarkScanDuplicates(rows) : RowOf(s, r)
  BY <1>3, <1>4, DuplicateRow
<1> QED BY <1>1, <1>2, <1>4, <1>5, NewRows DEF ScanFields

LEMMA AutoAttachStep ==
    ASSUME Attachments, NEW p \in Process, AutoAttach(p)
    PROVE  Knows(p)
<1>1. /\ UNCHANGED <<cache, learnt, st>>
      /\ ScanFields \subseteq DOMAIN job[p] /\ \A row \in job[p].rows : RowOf(st, row)
  BY DEF AutoAttach, history, Attachments, Rows
<1>2. PICK state : /\ job' = [job EXCEPT ![p] = state]
                   /\ \/ state = [job[p] EXCEPT !.pc = "sync"]
                      \/ \E x, a, b : state = [pc |-> "remember", selection |-> a, want |-> b,
                                               rows |-> job[p].rows, end |-> x.end, device |-> x.device]
  <2> DEFINE unknown == {row \in job[p].rows : Open(row)}
             silent == {[end |-> row.end,
                         device |-> ResolveConnectionDecision(st, row, Cardinality(unknown))] : row \in unknown}
             found == {x \in silent : x.device # None}
  <2>1. \/ Become(p, [job[p] EXCEPT !.pc = "sync"])
        \/ \E x \in found :
              Become(p, [pc |-> "remember", selection |-> job[p].selection, want |-> job[p].want,
                         rows |-> job[p].rows, end |-> x.end, device |-> x.device])
    BY DEF AutoAttach
  <2> HIDE DEF found
  <2>2. CASE Become(p, [job[p] EXCEPT !.pc = "sync"])
    BY <2>2 DEF Become
  <2>3. ASSUME NEW x \in found,
               Become(p, [pc |-> "remember", selection |-> job[p].selection, want |-> job[p].want,
                          rows |-> job[p].rows, end |-> x.end, device |-> x.device])
        PROVE  \E state : /\ job' = [job EXCEPT ![p] = state]
                          /\ \E a, b : state = [pc |-> "remember", selection |-> a, want |-> b,
                                               rows |-> job[p].rows, end |-> x.end, device |-> x.device]
    <3> DEFINE state == [pc |-> "remember", selection |-> job[p].selection, want |-> job[p].want,
                         rows |-> job[p].rows, end |-> x.end, device |-> x.device]
    <3>1. job' = [job EXCEPT ![p] = state]
      BY <2>3 DEF Become
    <3>2. \E a, b : state = [pc |-> "remember", selection |-> a, want |-> b,
                              rows |-> job[p].rows, end |-> x.end, device |-> x.device]
      OBVIOUS
    <3> HIDE DEF state
    <3> QED BY <3>1, <3>2
  <2> QED BY <2>1, <2>2, <2>3
<1>3. job'[p] = state
  BY <1>2 DEF Attachments, World
<1>4. state.pc # "ready" /\ ScanFields \subseteq DOMAIN state /\ state.rows = job[p].rows
  BY <1>1, <1>2 DEF ScanFields
<1> QED BY <1>1, <1>3, <1>4, NewRows

\* The rows that are resolved by the mapping as it is now.
LEMMA RememberStep ==
    ASSUME Attachments, NEW p \in Process, RememberAttachment(p)
    PROVE  Knows(p)
<1>1. PICK s : s = st' /\ Store(s) /\ Keeps(s)
  BY RememberKeeps DEF Attachments
<1> DEFINE again(row) == IF row.why \in {"Absent", "Unknown"} /\ Remembered(s, row.end) # None
                            /\ MappingAgrees(s, row)
                         THEN [row EXCEPT !.why = "Resolved", !.device = Remembered(s, row.end)]
                         ELSE row
           rows == {again(row) : row \in job[p].rows}
<1>2. UNCHANGED <<cache, learnt>>
  BY DEF RememberAttachment, history
<1>3. job' = [job EXCEPT ![p] = [pc |-> "sync", selection |-> job[p].selection, want |-> job[p].want,
                                 rows |-> rows]]
  BY <1>1 DEF RememberAttachment, Become
<1>4. ASSUME NEW row \in job[p].rows
      PROVE  RowOf(s, again(row))
  <2>1. RowOf(s, row)
    BY <1>1, RowStays DEF RememberAttachment, Attachments, Rows
  <2>2. CASE row.why \in {"Absent", "Unknown"} /\ Remembered(s, row.end) # None /\ MappingAgrees(s, row)
    <3>1. PICK d : d = Remembered(s, row.end)
      OBVIOUS
    <3>2. d \in DOMAIN s.devices
      BY <2>2, <3>1 DEF Remembered
    <3>3. d \in Nat /\ d < s.next
      BY <1>1, <3>2 DEF Store, Valid
    <3>4. PICK r : r = [row EXCEPT !.why = "Resolved", !.device = d]
      OBVIOUS
    <3>5. {"seen", "why", "device"} \subseteq DOMAIN r /\ r.seen = row.seen /\ r.why = "Resolved"
          /\ r.device = d
      BY <2>1, <3>4 DEF RowOf
    <3>6. row.seen \in Token => s.devices[d].token \in {None, row.seen}
      BY <2>1, <2>2, <3>1 DEF RowOf, MappingAgrees
    <3>7. RowOf(s, r)
      BY <3>2, <3>3, <3>5, <3>6 DEF RowOf
    <3> QED BY <2>2, <3>1, <3>4, <3>7
  <2> QED BY <2>1, <2>2
<1> HIDE DEF again
<1>5. \A row \in rows : RowOf(s, row)
  BY <1>4
<1> HIDE DEF rows
<1>6. job'[p] = [pc |-> "sync", selection |-> job[p].selection, want |-> job[p].want, rows |-> rows]
  BY <1>3 DEF Attachments, World
<1> QED BY <1>1, <1>2, <1>5, <1>6, NewRows DEF ScanFields

LEMMA ReadStep ==
    ASSUME Attachments, NEW p \in Process, ReadMark(p)
    PROVE  Knows(p)
<1>1. PICK end \in Unread(p) :
          IF at[end.at] = None
          THEN Become(p, Idle) /\ UNCHANGED <<cache, learnt>>
          ELSE Remember(p, end, mark[at[end.at]]) /\ Learn(p, end.at) /\ UNCHANGED job
  BY DEF ReadMark
<1>2. job[p].pc = "read" /\ end.at \in Port
  BY <1>1 DEF ReadMark, Unread, Usb
<1>3. CASE at[end.at] = None
  <2>1. job'[p].pc = "idle"
    BY <1>1, <1>3 DEF Become, Idle, Attachments, World
  <2> QED BY <1>1, <1>3, <2>1, GoesOn
<1>4. CASE at[end.at] # None
  <2>1. /\ Cache(p)' /\ cache' = [q \in Process |-> cache'[q]]
        /\ learnt' \in [Process -> [Port -> Sights \cup {None}]]
    BY <1>1, <1>2, <1>4, ReadKeeps DEF Attachments
  <2>2. Session(p)' /\ Rows(p)'
    BY <1>1, <1>2, <1>4 DEF Session, Rows
  <2> QED BY <2>1, <2>2 DEF Knows
<1> QED BY <1>3, <1>4

\* What leaves the cache is what was not listed; what was listed is not forgotten.
LEMMA ResolveStep ==
    ASSUME Attachments, NEW p \in Process, ResolveAll(p)
    PROVE  Knows(p)
<1>1. PICK known : known = Evict(p)
  OBVIOUS
<1>2. /\ DOMAIN known \subseteq DOMAIN cache[p]
      /\ \A e \in DOMAIN known : /\ known[e] = cache[p][e]
                                 /\ \E x \in job[p].list : x.end = cache[p][e].end
  BY <1>1 DEF Evict
<1>3. DOMAIN known \subseteq Port
  BY <1>2 DEF Attachments, Cache
<1>4. cache' = [cache EXCEPT ![p] = known] /\ UNCHANGED st
  BY <1>1 DEF ResolveAll
<1>5. cache'[p] = known /\ cache' = [q \in Process |-> cache'[q]]
  BY <1>4 DEF Attachments, World
<1>6. PICK sights : /\ learnt' = [learnt EXCEPT ![p] = sights]
                    /\ sights \in [Port -> Sights \cup {None}]
                    /\ \A e \in Port : (\E x \in job[p].list : x.end.at = e) => sights[e] = learnt[p][e]
  <2> DEFINE gone(e) == Kind[e] \in Kinds(job[p].selection) /\ \A x \in job[p].list : x.end.at # e
             sights == [e \in Port |-> IF gone(e) THEN None ELSE learnt[p][e]]
  <2>1. learnt' = [learnt EXCEPT ![p] = sights]
    BY DEF ResolveAll
  <2>2. \A e \in Port : (\E x \in job[p].list : x.end.at = e) => ~gone(e)
    OBVIOUS
  <2> HIDE DEF gone
  <2>3. sights \in [Port -> Sights \cup {None}]
    BY DEF Attachments, World
  <2>4. \A e \in Port : (\E x \in job[p].list : x.end.at = e) => sights[e] = learnt[p][e]
    BY <2>2
  <2> HIDE DEF sights
  <2> QED BY <2>1, <2>3, <2>4
<1>7. learnt'[p] = sights /\ learnt' \in [Process -> [Port -> Sights \cup {None}]]
  BY <1>6 DEF Attachments, World
<1>8. Cache(p)'
  <2>1. ASSUME NEW e \in DOMAIN known
        PROVE  /\ e \in Port /\ known[e].end.at = e
               /\ sights[e] # None /\ sights[e].mark = known[e].seen
    <3>1. /\ e \in Port /\ cache[p][e].end.at = e
          /\ learnt[p][e] # None /\ learnt[p][e].mark = cache[p][e].seen
      BY <1>2, <2>1 DEF Attachments, Cache
    <3>2. sights[e] = learnt[p][e]
      BY <1>2, <1>6, <2>1, <3>1
    <3> QED BY <1>2, <2>1, <3>1, <3>2
  <2> QED BY <1>5, <1>7, <2>1 DEF Cache
<1>9. Resolve(p, st, known, "attach")
  BY <1>5 DEF ResolveAll
<1>10. /\ job'[p].pc = "attach" /\ ScanFields \subseteq DOMAIN job'[p]
       /\ \A row \in job'[p].rows : RowOf(st, row)
  BY <1>3, <1>9, ScanRows DEF Attachments
<1>11. Session(p)' /\ Rows(p)'
  BY <1>4, <1>10 DEF Session, Rows
<1> QED BY <1>5, <1>7, <1>8, <1>11 DEF Knows

\* authenticate_attachment: the session goes on if what was read there last is
\* the token of the device.
LEMMA AttachedStep ==
    ASSUME Attachments, NEW p \in Process, Attached(p)
    PROVE  Knows(p)
<1> DEFINE end == job[p].end
           unit == SessionUnit(end)
           ready == [pc |-> "ready", device |-> job[p].device, token |-> job[p].token,
                     end |-> end, unit |-> unit]
<1>1. \A state : Become(p, state) => job'[p] = state
  BY DEF Become, Attachments, World
<1>2. ASSUME Become(p, Idle), UNCHANGED <<cache, learnt>>
      PROVE  Knows(p)
  <2>1. job'[p].pc = "idle"
    BY <1>1, <1>2 DEF Idle
  <2> QED BY <1>2, <2>1, GoesOn
<1>3. ASSUME Become(p, ready), UNCHANGED <<cache, learnt>>,
             job[p].token # None /\ Usb(end)
                => learnt[p][end.at] # None /\ learnt[p][end.at].mark = job[p].token
      PROVE  Knows(p)
  <2>1. job'[p] = ready
    BY <1>1, <1>3
  <2>2. Session(p)'
    BY <1>3, <2>1 DEF Session
  <2>3. Rows(p)' /\ Cache(p)'
    BY <1>3, <2>1 DEF Rows, Cache, Attachments
  <2> QED BY <1>3, <2>2, <2>3 DEF Knows, Attachments, World
<1>4. CASE unit = None
  BY <1>2, <1>4 DEF Attached
<1>5. CASE unit # None /\ (job[p].token = None \/ ~Usb(end))
  BY <1>3, <1>5 DEF Attached
<1>6. CASE unit # None /\ job[p].token # None /\ Usb(end) /\ Cached(p, end)
  <2>1. /\ IF Authentic(p, cache[p][end.at].seen) THEN Become(p, ready) ELSE Become(p, Idle)
        /\ UNCHANGED <<cache, learnt>>
    BY <1>6 DEF Attached
  <2>2. learnt[p][end.at] # None /\ learnt[p][end.at].mark = cache[p][end.at].seen
    BY <1>6 DEF Cached, Attachments, Cache
  <2> QED BY <1>2, <1>3, <2>1, <2>2 DEF Authentic
<1>7. CASE unit # None /\ job[p].token # None /\ Usb(end) /\ ~Cached(p, end)
  <2>1. unit = at[end.at] /\ end.at \in Port
    BY <1>7 DEF SessionUnit, Usb
  <2>2. /\ Remember(p, end, mark[at[end.at]]) /\ Learn(p, end.at)
        /\ IF Authentic(p, mark[at[end.at]]) THEN Become(p, ready) ELSE Become(p, Idle)
    BY <1>7, <2>1 DEF Attached
  <2>3. at[end.at] # None
    BY <1>7, <2>1
  <2>4. PICK e : e = end
    OBVIOUS
  <2>5. /\ Cache(p)' /\ cache' = [q \in Process |-> cache'[q]]
        /\ learnt' \in [Process -> [Port -> Sights \cup {None}]]
        /\ learnt'[p][e.at] # None /\ learnt'[p][e.at].mark = mark[at[e.at]]
    BY <2>1, <2>2, <2>3, <2>4, ReadKeeps DEF Attachments
  <2>6. CASE Authentic(p, mark[at[end.at]])
    <3>1. job'[p].pc = "ready" /\ job'[p].end = e /\ job'[p].token = job[p].token
      BY <1>1, <2>2, <2>4, <2>6
    <3>2. Session(p)' /\ Rows(p)'
      BY <2>4, <2>5, <2>6, <3>1 DEF Session, Rows, Authentic
    <3> QED BY <2>5, <3>2 DEF Knows
  <2>7. CASE ~Authentic(p, mark[at[end.at]])
    <3>1. job'[p].pc = "idle"
      BY <1>1, <2>2, <2>7 DEF Idle
    <3>2. Session(p)' /\ Rows(p)'
      BY <3>1 DEF Session, Rows
    <3> QED BY <2>5, <3>2 DEF Knows
  <2> QED BY <2>6, <2>7
<1> QED BY <1>4, <1>5, <1>6, <1>7

LEMMA OwnStep ==
    ASSUME Attachments, Keeps(st'), NEW p \in Process, Acts(p)
    PROVE  Knows(p)
<1>1. CASE \E d : RememberResolution(p, d)
  <2>1. UNCHANGED <<cache, job, learnt>>
    BY <1>1 DEF RememberResolution, history
  <2>2. Untouched(p)
    BY <2>1 DEF Untouched
  <2>3. Cache(p)' /\ Session(p)' /\ Rows(p)'
    BY <2>2, Unchanging DEF Attachments
  <2> QED BY <2>1, <2>3 DEF Knows, Attachments, World
<1>2. CASE \/ \E scan : List(p, scan.selection, scan.want)
           \/ Sync(p) \/ PickDevice(p) \/ Operate(p) \/ \E d : OpenLocked(p, d)
  BY <1>2, PlainSteps
<1>3. CASE Ensure(p) \/ AutoAttach(p) \/ RememberAttachment(p)
  BY <1>3, EnsureStep, AutoAttachStep, RememberStep
<1>4. CASE ReadMark(p) \/ ResolveAll(p) \/ Attached(p)
  BY <1>4, ReadStep, ResolveStep, AttachedStep
<1> QED BY <1>1, <1>2, <1>3, <1>4 DEF Acts, Step

\* The steps of no process: the commands on saved mice, the user's hands, and
\* the ceremonies. No knowledge moves.
Outside == \/ \E d \in DOMAIN st.devices : SelectDevice(d) \/ \E force \in BOOLEAN : ForgetDevice(d, force)
           \/ \E e \in Port, u \in Unit \cup {None} : Plug(e, u)
           \/ \E b \in Radio : ComeOrGo(b)
           \/ \E d \in DOMAIN st.devices \cup {None}, t \in Token : SetupBegins(d, t)
           \/ SetupEnds

LEMMA OutsideStep ==
    ASSUME Attachments, Outside
    PROVE  UNCHANGED <<cache, job, learnt>> /\ World'
<1>1. UNCHANGED <<cache, job, learnt>>
  BY DEF Outside, SelectDevice, ForgetDevice, Plug, ComeOrGo, SetupBegins, SetupEnds, history
<1>2. at' \in [Port -> Unit \cup {None}]
  BY DEF Outside, SelectDevice, ForgetDevice, Plug, ComeOrGo, SetupBegins, SetupEnds, Attachments, World
<1>3. mark' \in [Unit -> SeenMarks]
  <2>1. CASE UNCHANGED mark
    BY <2>1 DEF Attachments, World
  <2>2. CASE SetupEnds /\ ~UNCHANGED mark
    <3>1. PICK u : mark' = [mark EXCEPT ![u] = st.setup.token]
      BY <2>2 DEF SetupEnds
    <3>2. st.setup.token \in SeenMarks
      BY <2>2 DEF SetupEnds, Attachments, Store, SeenMarks
    <3> QED BY <3>1, <3>2 DEF Attachments, World
  <2> QED BY <2>1, <2>2 DEF Outside, SelectDevice, ForgetDevice, Plug, ComeOrGo, SetupBegins
<1> QED BY <1>1, <1>2, <1>3 DEF Attachments, World

LEMMA ActsWorld ==
    ASSUME Attachments, NEW p \in Process, Acts(p), Knows(p)
    PROVE  World'
<1>1. UNCHANGED <<at, mark>>
  BY DEF Acts, Step, List, Ensure, ReadMark, ResolveAll, AutoAttach, RememberAttachment, Sync,
         PickDevice, Attached, Operate, RememberResolution, OpenLocked
<1>2. \/ UNCHANGED job
      \/ \E state : job' = [job EXCEPT ![p] = state]
  BY DEF Acts, Step, List, Ensure, Resolve, ReadMark, ResolveAll, AutoAttach, RememberAttachment, Sync,
         PickDevice, Attached, Operate, RememberResolution, OpenLocked, Become
<1>3. job' = [q \in Process |-> job'[q]]
  BY <1>2 DEF Attachments, World
<1> QED BY <1>1, <1>3 DEF Attachments, World, Knows

LEMMA AttachmentsStep ==
    ASSUME Attachments, [AttachmentNext]_attachmentVars
    PROVE  Attachments'
<1>1. CASE UNCHANGED attachmentVars
  BY <1>1 DEF attachmentVars, Attachments, World, Cache, Session, Rows
<1>2. CASE AttachmentNext
  <2>1. Keeps(st') /\ Store(st')
    BY <1>2, StoreStep DEF Attachments
  <2>2. CASE \E p \in Process : Acts(p)
    <3>1. PICK p \in Process : Acts(p)
      BY <2>2
    <3>2. Knows(p)
      BY <2>1, <3>1, OwnStep
    <3>3. World'
      BY <3>1, <3>2, ActsWorld
    <3>4. ASSUME NEW q \in Process
          PROVE  Cache(q)' /\ Session(q)' /\ Rows(q)'
      <4>1. CASE q = p
        BY <3>2, <4>1 DEF Knows
      <4>2. CASE q # p
        <5>1. Untouched(q)
          BY <3>1, <4>2, Elsewhere DEF Attachments
        <5> QED BY <2>1, <5>1, Unchanging DEF Attachments
      <4> QED BY <4>1, <4>2
    <3> QED BY <2>1, <3>3, <3>4 DEF Attachments
  <2>3. CASE Outside
    <3>1. UNCHANGED <<cache, job, learnt>> /\ World'
      BY <2>3, OutsideStep
    <3>2. \A q \in Process : Untouched(q)
      BY <3>1 DEF Untouched
    <3>3. \A q \in Process : Cache(q)' /\ Session(q)' /\ Rows(q)'
      BY <2>1, <3>2, Unchanging DEF Attachments
    <3> QED BY <2>1, <3>1, <3>3 DEF Attachments
  <2> QED BY <1>2, <2>2, <2>3 DEF AttachmentNext, Acts, Outside
<1> QED BY <1>1, <1>2

LEMMA AttachmentsAtFirst ==
    ASSUME AttachmentInit
    PROVE  Attachments
<1>1. World
  BY MarkAssumption DEF AttachmentInit, World, SeenMarks
<1>2. Store(st)
  <2>1. PICK name \in Saved :
            st = [mode |-> IF name = <<>> THEN "Legacy" ELSE "Persistent",
                  devices |-> [d \in DOMAIN name |-> NewDevice(name[d], NoEndpoints)],
                  next |-> Len(name) + 1, selected |-> None, map |-> <<>>, setup |-> None]
    BY DEF AttachmentInit
  <2>2. /\ name \in Seq(Token) /\ Len(name) \in Nat /\ DOMAIN name = 1 .. Len(name)
        /\ \A i, j \in DOMAIN name : name[i] = name[j] => i = j
        /\ \A i \in DOMAIN name : name[i] \in Token
    BY SavedAssumption
  <2> DEFINE devices == [d \in DOMAIN name |-> NewDevice(name[d], NoEndpoints)]
  <2>3. /\ DOMAIN devices = DOMAIN name
        /\ \A d \in DOMAIN devices : DeviceFields \subseteq DOMAIN devices[d] /\ devices[d].token = name[d]
    BY DEF NewDevice, DeviceFields
  <2>4. /\ Fields \subseteq DOMAIN st /\ st.devices = devices /\ st.next = Len(name) + 1
        /\ st.selected = None /\ DOMAIN st.map = {} /\ st.setup = None
        /\ st.mode = IF name = <<>> THEN "Legacy" ELSE "Persistent"
    BY <2>1 DEF Fields
  <2> HIDE DEF devices
  <2>5. st.mode = "Legacy" =>
           Cardinality(DOMAIN st.devices) <= 1 /\ \A d \in DOMAIN st.devices : st.devices[d].token = None
    <3>1. CASE name = <<>>
      <4>1. DOMAIN st.devices = {}
        BY <2>3, <2>4, <3>1
      <4> QED BY <4>1, FS_EmptySet
    <3>2. CASE name # <<>>
      BY <2>4, <3>2
    <3> QED BY <3>1, <3>2
  <2>6. \A d, e \in DOMAIN st.devices :
           st.devices[d].token # None /\ (st.devices[d].token = st.devices[e].token => d = e)
    BY <2>2, <2>3, <2>4, MarkAssumption
  <2>7. \A d \in DOMAIN st.devices : d \in Nat /\ d < st.next
    BY <2>2, <2>3, <2>4
  <2>8. Valid(st)
    BY <2>4, <2>5, <2>6, <2>7 DEF Valid
  <2> QED BY <2>2, <2>3, <2>4, <2>7, <2>8 DEF Store
<1>3. \A p \in Process : cache[p] = <<>> /\ job[p].pc = "idle"
  BY DEF AttachmentInit, Idle
<1>4. \A p \in Process : Cache(p) /\ Session(p) /\ Rows(p)
  BY <1>3 DEF Cache, Session, Rows
<1> QED BY <1>1, <1>2, <1>4 DEF Attachments

\* Scans, answers, plugging and ceremonies, of any number of processes, in any
\* order: what a process has cached is what it last read, the rows of a scan give
\* no mark to the device of another, and every commit passes the gate.
THEOREM AttachmentInvariance == AttachmentSpec => []Attachments
<1>1. AttachmentInit => Attachments
  BY AttachmentsAtFirst
<1>2. Attachments /\ [AttachmentNext]_attachmentVars => Attachments'
  BY AttachmentsStep
<1> QED BY <1>1, <1>2, PTL DEF AttachmentSpec

\* open_locked and authenticate_attachment: an operation on a mouse with a token
\* works on the mouse that carries it, unless a mouse was exchanged unseen.
THEOREM SessionsOnTheirMouse == AttachmentSpec => []SessionOnItsMouse
<1>1. Attachments => SessionOnItsMouse
  <2> SUFFICES ASSUME Attachments, NEW p \in Process,
                      job[p].pc = "ready", job[p].token # None, Usb(job[p].end),
                      learnt[p][job[p].end.at] \in {None, [unit |-> job[p].unit, mark |-> mark[job[p].unit]]}
               PROVE  mark[job[p].unit] = job[p].token
    BY DEF SessionOnItsMouse
  <2>1. learnt[p][job[p].end.at] # None /\ learnt[p][job[p].end.at].mark = job[p].token
    BY DEF Attachments, Session
  <2> QED BY <2>1
<1> QED BY <1>1, AttachmentInvariance, PTL

\* resolve_connection, resolve_endpoint and remembered_mapping_agrees: neither a
\* mapping nor a silent attachment takes a marked mouse for one with another mark.
THEOREM MarksDecide == AttachmentSpec => []MarkDecides
<1>1. Attachments => MarkDecides
  <2> SUFFICES ASSUME Attachments, NEW p \in Process, job[p].pc = "sync", NEW row \in job[p].rows,
                      row.why = "Resolved", row.seen \in Token, row.device \in DOMAIN st.devices
               PROVE  st.devices[row.device].token \in {None, row.seen}
    BY DEF MarkDecides
  <2>1. CASE st.mode = "Legacy"
    BY <2>1 DEF Attachments, Store, Valid
  <2>2. CASE st.mode # "Legacy"
    BY <2>2 DEF Attachments, Rows, RowOf
  <2> QED BY <2>1, <2>2
<1> QED BY <1>1, AttachmentInvariance, PTL

-----------------------------------------------------------------------------
(* A scan during which nothing was plugged.  Other processes go on: they     *)
(* attach, select and forget mice, but the mice stay where they are, and     *)
(* nobody gives out a token.                                                 *)

\* Only the scan of an installation without persistent identity adds a mouse.
Ensuring(p) == job[p].pc = "ensure" => st.mode = "Legacy"

Calmly(p) == calm[p] /\ job[p].selection = "Auto" /\ st.mode # "Legacy"
UsbEnds == [at : Port, print : {Descriptor[u] : u \in Unit}]

\* The list has the ports where the mice still are.
Listed(p) ==
    job[p].pc = "read" /\ Calmly(p) =>
        /\ \A e \in Port : at[e] # None => [end |-> Endpoint(e), connected |-> TRUE] \in job[p].list
        /\ \A x \in job[p].list : x.end.at \in Port => x.end \in UsbEnds /\ at[x.end.at] # None

\* A row with a mark is of a mouse at a port.
AtItsPort(p, row) ==
    /\ {"end", "seen", "why", "device"} \subseteq DOMAIN row
    /\ row.seen \in Token => /\ row.end \in UsbEnds /\ at[row.end.at] # None
                             /\ row.seen = learnt[p][row.end.at].mark

\* The row of a mouse at a port: if a device has its token, it is of that device.
Finds(s, token, row) ==
    /\ row.seen = token
    /\ s.setup = None /\ token \in Token =>
          \A d \in DOMAIN s.devices : s.devices[d].token = token => row.why = "Resolved" /\ row.device = d

Found(p) ==
    job[p].pc \in {"attach", "remember", "sync"} /\ Calmly(p) =>
        /\ \A row \in job[p].rows : AtItsPort(p, row)
        /\ \A e \in Port : at[e] # None =>
              \E row \in job[p].rows : row.end.at = e /\ Finds(st, learnt[p][e].mark, row)

Scanning ==
    /\ calm = [p \in Process |-> calm[p]]
    /\ \A p \in Process : Ensuring(p) /\ Listed(p) /\ Found(p)

\* What stays while a process is calm.
Still == /\ UNCHANGED <<at, mark>> /\ st'.mode = st.mode
         /\ st.mode # "Legacy" => Narrow(st')

\* A step that leaves every calm process calm.
Quiet == \/ \E q \in Process : Acts(q)
         \/ \E d \in DOMAIN st.devices : SelectDevice(d) \/ \E force \in BOOLEAN : ForgetDevice(d, force)

LEMMA StillStep ==
    ASSUME Attachments, \A q \in Process : Ensuring(q), Quiet
    PROVE  Still
<1>1. Store(st) /\ st'.mode = st.mode
  <2>1. AttachmentNext
    BY DEF Quiet, Acts, AttachmentNext
  <2> QED BY <2>1, StoreStep DEF Attachments, Keeps
<1>3. CASE UNCHANGED <<at, mark, st>>
  BY <1>1, <1>3, NothingKept DEF Still
<1>4. CASE \E q \in Process : Step(q)
  <2>1. PICK q \in Process : Step(q)
    BY <1>4
  <2>2. UNCHANGED <<at, mark>>
    BY <2>1 DEF Step, Ensure, ReadMark, ResolveAll, AutoAttach, RememberAttachment, Sync, PickDevice,
                Attached, Operate
  <2>3. CASE ReadMark(q) \/ ResolveAll(q) \/ AutoAttach(q) \/ Attached(q)
    BY <1>3, <2>2, <2>3 DEF ReadMark, ResolveAll, AutoAttach, Attached
  <2>4. CASE Ensure(q)
    BY <1>1, <2>2, <2>4 DEF Still, Ensuring, Ensure
  <2>5. CASE RememberAttachment(q) \/ Sync(q) \/ PickDevice(q) \/ Operate(q)
    BY <1>1, <2>2, <2>5, RememberKeeps, SyncKeeps, CommandKeeps DEF Still
  <2> QED BY <2>1, <2>3, <2>4, <2>5 DEF Step
<1>5. CASE \E q \in Process, d \in DOMAIN st.devices : RememberResolution(q, d)
  <2>1. PICK q \in Process, d \in DOMAIN st.devices : RememberResolution(q, d)
    BY <1>5
  <2>2. UNCHANGED <<at, mark>>
    BY <2>1 DEF RememberResolution
  <2> QED BY <1>1, <2>1, <2>2, RememberKeeps DEF Still
<1>6. CASE \E d \in DOMAIN st.devices : SelectDevice(d) \/ \E force \in BOOLEAN : ForgetDevice(d, force)
  <2>1. PICK d \in DOMAIN st.devices : SelectDevice(d) \/ \E force \in BOOLEAN : ForgetDevice(d, force)
    BY <1>6
  <2>2. UNCHANGED <<at, mark>>
    BY <2>1 DEF SelectDevice, ForgetDevice
  <2> QED BY <1>1, <2>1, <2>2, CommandKeeps DEF Still
<1>7. CASE \E q \in Process : \/ \E scan \in Scans : List(q, scan.selection, scan.want)
                              \/ \E d \in DOMAIN st.devices : OpenLocked(q, d)
  BY <1>3, <1>7 DEF List, OpenLocked
<1> QED BY <1>4, <1>5, <1>6, <1>7 DEF Quiet, Acts

\* A row that finds its device still does, when other devices are forgotten.
LEMMA FindsStill ==
    ASSUME Store(st), NEW s, Keeps(s), Narrow(s), NEW token, NEW row, Finds(st, token, row)
    PROVE  Finds(s, token, row)
<1>1. \A d \in DOMAIN s.devices : d \in DOMAIN st.devices /\ s.devices[d].token = st.devices[d].token
  BY StoreNumbers DEF Keeps, Narrow
<1> QED BY <1>1 DEF Finds, Narrow

\* The rows outlast every step that does not touch them.
LEMMA FoundStays ==
    ASSUME Store(st), Keeps(st'), Still, NEW p, Found(p), calm[p], learnt'[p] = learnt[p],
           job[p].pc \in {"attach", "remember", "sync"},
           job'[p].rows = job[p].rows, job'[p].selection = job[p].selection
    PROVE  Found(p)'
<1> SUFFICES ASSUME Calmly(p)'
             PROVE  /\ \A row \in job'[p].rows : AtItsPort(p, row)'
                    /\ \A e \in Port : at'[e] # None =>
                          \E row \in job'[p].rows : row.end.at = e /\ Finds(st, learnt[p][e].mark, row)'
  BY DEF Found
<1>1. Calmly(p) /\ Narrow(st') /\ UNCHANGED at
  BY DEF Calmly, Still
<1>2. \A row \in job[p].rows : AtItsPort(p, row)
  BY <1>1 DEF Found
<1>3. \A row \in job'[p].rows : AtItsPort(p, row)'
  BY <1>1, <1>2 DEF AtItsPort
<1>4. PICK s : s = st'
  OBVIOUS
<1>5. ASSUME NEW e \in Port, at[e] # None
      PROVE  \E row \in job[p].rows : row.end.at = e /\ Finds(s, learnt[p][e].mark, row)
  <2>1. PICK row \in job[p].rows : row.end.at = e /\ Finds(st, learnt[p][e].mark, row)
    BY <1>1, <1>5 DEF Found
  <2>2. Finds(s, learnt[p][e].mark, row)
    BY <1>1, <1>4, <2>1, FindsStill
  <2> QED BY <2>1, <2>2
<1>6. ASSUME NEW e \in Port, at'[e] # None
      PROVE  \E row \in job'[p].rows : row.end.at = e /\ Finds(st, learnt[p][e].mark, row)'
  <2>1. PICK row \in job'[p].rows : row.end.at = e /\ Finds(s, learnt[p][e].mark, row)
    BY <1>1, <1>5, <1>6
  <2> QED BY <1>4, <2>1 DEF Finds
<1> QED BY <1>3, <1>6

LEMMA ListedStays ==
    ASSUME Still, NEW p, Listed(p), calm[p], job'[p].pc = "read" => job'[p] = job[p]
    PROVE  Listed(p)'
<1> SUFFICES ASSUME job'[p].pc = "read", Calmly(p)' PROVE Listed(p)'
  BY DEF Listed
<1>1. job[p].pc = "read" /\ Calmly(p) /\ at' = at /\ job'[p] = job[p]
  BY DEF Calmly, Still
<1>2. \A e : Endpoint(e)' = Endpoint(e)
  BY <1>1 DEF Endpoint
<1> HIDE DEF Endpoint
<1> QED BY <1>1, <1>2 DEF Listed

\* SessionFactory::list: what is at the ports when the scan begins.
LEMMA ListScans ==
    ASSUME Attachments, NEW p \in Process, NEW selection, NEW want, List(p, selection, want)
    PROVE  Ensuring(p)' /\ Listed(p)' /\ Found(p)'
<1> DEFINE list == Listing(selection)
<1>1. /\ UNCHANGED <<at, st>>
      /\ job'[p] = [pc |-> IF st.mode = "Legacy" THEN "ensure" ELSE "read",
                    selection |-> selection, want |-> want, list |-> list]
  BY DEF List, Become, Attachments, World
<1>2. ASSUME selection = "Auto", NEW e \in Port, at[e] # None
      PROVE  [end |-> Endpoint(e), connected |-> TRUE] \in list
  <2>1. Kind[e] \in Kinds(selection)
    BY <1>2, KindAssumption DEF Kinds, Place
  <2> QED BY <1>2, <2>1 DEF Listing, UsbEndpoints
<1>3. ASSUME NEW x \in list, x.end.at \in Port
      PROVE  x.end \in UsbEnds /\ at[x.end.at] # None
  <2>1. CASE x \in UsbEndpoints(Kinds(selection))
    <3>1. PICK f \in Port : at[f] # None /\ x = [end |-> Endpoint(f), connected |-> TRUE]
      BY <2>1 DEF UsbEndpoints
    <3>2. at[f] \in Unit /\ f \notin Radio
      BY <3>1, KindAssumption DEF Attachments, World
    <3>3. x.end = [at |-> f, print |-> Descriptor[at[f]]]
      BY <3>1, <3>2 DEF Endpoint
    <3> QED BY <3>1, <3>2, <3>3 DEF UsbEnds
  <2>2. CASE x \in BleEndpoints(Kinds(selection))
    <3>1. PICK f \in Radio : x = [end |-> Endpoint(f), connected |-> f \in near]
      BY <2>2 DEF BleEndpoints
    <3>2. x.end.at = f
      BY <3>1 DEF Endpoint
    <3> QED BY <1>3, <3>2, KindAssumption
  <2> QED BY <2>1, <2>2 DEF Listing
<1> HIDE DEF list
<1>4. \A e : Endpoint(e)' = Endpoint(e)
  BY <1>1 DEF Endpoint
<1> HIDE DEF Endpoint
<1>5. Listed(p)'
  <2> SUFFICES ASSUME Calmly(p)' PROVE Listed(p)'
    BY DEF Listed
  <2>1. selection = "Auto" /\ job'[p].list = list
    BY <1>1 DEF Calmly
  <2> QED BY <1>1, <1>2, <1>3, <1>4, <2>1 DEF Listed
<1> QED BY <1>1, <1>5 DEF Ensuring, Found

\* resolve_valid_token: the owner of a token that no journal reserves is found.
LEMMA OwnerFound ==
    ASSUME Store(st), st.mode # "Legacy", st.setup = None, NEW end, Usb(end), NEW seen \in Token,
           NEW d \in DOMAIN st.devices, st.devices[d].token = seen
    PROVE  ResolveConnection(st, end, seen) = Resolved(d)
<1>1. Owners(st, seen) = {d}
  BY DEF Owners, Store, Valid
<1>2. Cardinality({d}) = 1 /\ Min({d}) = d
  <2>1. d =< d
    BY StoreNumbers
  <2>2. Min({d}) = d
    BY <2>1 DEF Min
  <2> QED BY <2>2, FS_Singleton
<1>3. ResolveValidToken(st, seen) = Resolved(d)
  BY <1>1, <1>2 DEF ResolveValidToken
<1>4. seen # None /\ seen # Invalid
  BY MarkAssumption
<1> QED BY <1>3, <1>4 DEF ResolveConnection

\* mark_scan_duplicates touches the unknown rows only.
LEMMA RowRemains ==
    ASSUME NEW rows, NEW r \in rows
    PROVE  \E row \in MarkScanDuplicates(rows) :
              row = r \/ (r.why = "Unknown" /\ row = [r EXCEPT !.why = "Duplicate"])
BY DEF MarkScanDuplicates

LEMMA RowFrom ==
    ASSUME NEW rows, NEW row \in MarkScanDuplicates(rows)
    PROVE  \E r \in rows : row = r \/ row = [r EXCEPT !.why = "Duplicate"]
BY DEF MarkScanDuplicates

\* The cache has what is at the ports, and the rows are resolved by it.
LEMMA ScanFinds ==
    ASSUME Attachments, NEW p \in Process, Listed(p), ResolveAll(p)
    PROVE  job'[p].pc = "attach" /\ Found(p)'
<1> DEFINE known == Evict(p)
           seen(entry) == IF entry.connected /\ entry.end.at \in DOMAIN known
                             /\ known[entry.end.at].end = entry.end
                          THEN known[entry.end.at].seen ELSE None
           answer(entry) == ResolveConnection(st, entry.end, seen(entry))
           row(entry) == [end |-> entry.end, connected |-> entry.connected, seen |-> seen(entry),
                          why |-> answer(entry).why, device |-> answer(entry).device]
           rows == {row(entry) : entry \in job[p].list}
           there(e) == [end |-> Endpoint(e), connected |-> TRUE]
<1>1. /\ UNCHANGED <<at, st, calm>> /\ job[p].pc = "read" /\ Unread(p) = {}
      /\ cache'[p] = known
  BY DEF ResolveAll, Attachments, World
<1>2. job'[p] = [pc |-> "attach", selection |-> job[p].selection, want |-> job[p].want,
                 rows |-> MarkScanDuplicates(rows)]
  <2>1. job' = [job EXCEPT ![p] =
                   [pc |-> "attach", selection |-> job[p].selection, want |-> job[p].want,
                    rows |-> MarkScanDuplicates(rows)]]
    BY <1>1 DEF ResolveAll, Resolve, Become
  <2> HIDE DEF rows
  <2> QED BY <2>1 DEF Attachments, World
<1>scan. job'[p].pc = "attach" /\ (Calmly(p)' => Calmly(p))
  BY <1>1, <1>2 DEF Calmly
<1> HIDE DEF known, seen, answer, row, rows, there
<1> SUFFICES ASSUME Calmly(p)
             PROVE  /\ \A r \in job'[p].rows : AtItsPort(p, r)'
                    /\ \A e \in Port : at'[e] # None =>
                          \E r \in job'[p].rows : r.end.at = e /\ Finds(st, learnt[p][e].mark, r)'
  BY <1>scan DEF Found
<1> USE DEF known, seen, answer, row, rows, there
<1>3. \A x \in job[p].list : x.end.at \in Port => learnt'[p][x.end.at] = learnt[p][x.end.at]
  BY DEF ResolveAll, Attachments, World
<1>4. \A e \in DOMAIN known : /\ e \in DOMAIN cache[p] /\ known[e] = cache[p][e]
                              /\ e \in Port /\ learnt[p][e].mark = known[e].seen
  BY DEF Evict, Attachments, Cache
<1>5. \A x \in job[p].list : x.end.at \in Port => x.end \in UsbEnds /\ at[x.end.at] # None
  BY <1>1 DEF Listed
<1>6. ASSUME NEW x \in job[p].list, seen(x) \in Token
      PROVE  x.end \in UsbEnds /\ at[x.end.at] # None /\ seen(x) = learnt'[p][x.end.at].mark
  <2>1. x.end.at \in DOMAIN known /\ seen(x) = known[x.end.at].seen
    BY <1>6, MarkAssumption
  <2> HIDE DEF known, seen
  <2> QED BY <1>3, <1>4, <1>5, <2>1
<1>7. ASSUME NEW e \in Port, at[e] # None
      PROVE  there(e) \in job[p].list /\ there(e).end.at = e /\ seen(there(e)) = learnt'[p][e].mark
  <2>1. there(e) \in job[p].list /\ Endpoint(e).at = e
    BY <1>1, <1>7 DEF Listed, Endpoint
  <2>2. Cached(p, Endpoint(e))
    BY <1>1, <1>7, <2>1 DEF Unread, Usb
  <2>3. PICK x : x = there(e) /\ x \in job[p].list /\ x.connected /\ x.end = Endpoint(e)
    BY <2>1
  <2>4. e \in DOMAIN known /\ known[e].end = Endpoint(e)
    BY <2>1, <2>2, <2>3 DEF Cached, Evict
  <2>5. seen(there(e)) = known[e].seen
    BY <2>1, <2>4
  <2> HIDE DEF known, seen
  <2> QED BY <1>3, <1>4, <2>1, <2>3, <2>4, <2>5
<1>8. \A x : /\ {"end", "seen", "why", "device"} \subseteq DOMAIN row(x)
             /\ row(x).end = x.end /\ row(x).seen = seen(x)
             /\ row(x).why = answer(x).why /\ row(x).device = answer(x).device
  OBVIOUS
<1> HIDE DEF known, seen, row, there
<1>9. ASSUME NEW r \in job'[p].rows
      PROVE  AtItsPort(p, r)'
  <2>1. PICK r1 \in rows : r = r1 \/ r = [r1 EXCEPT !.why = "Duplicate"]
    BY <1>2, <1>9, RowFrom
  <2>2. PICK x \in job[p].list : r1 = row(x)
    BY <2>1
  <2>3. /\ {"end", "seen", "why", "device"} \subseteq DOMAIN r /\ r.end = x.end /\ r.seen = seen(x)
    BY <1>8, <2>1, <2>2
  <2> QED BY <1>1, <1>6, <2>3 DEF AtItsPort
<1>10. ASSUME NEW e \in Port, at[e] # None
       PROVE  \E r \in job'[p].rows : r.end.at = e /\ Finds(st, learnt[p][e].mark, r)'
  <2>1. PICK x \in job[p].list : x = there(e) /\ x.end.at = e /\ seen(x) = learnt'[p][e].mark
    BY <1>7, <1>10
  <2>2. row(x) \in rows
    BY <2>1
  <2>3. PICK r1 : r1 = row(x)
    OBVIOUS
  <2>4. PICK r \in MarkScanDuplicates(rows) :
           r = r1 \/ (r1.why = "Unknown" /\ r = [r1 EXCEPT !.why = "Duplicate"])
    BY <2>2, <2>3, RowRemains
  <2>5. r.end.at = e /\ r.seen = learnt'[p][e].mark
    BY <1>8, <2>1, <2>3, <2>4
  <2>6. ASSUME st.setup = None, seen(x) \in Token,
               NEW d \in DOMAIN st.devices, st.devices[d].token = seen(x)
        PROVE  r.why = "Resolved" /\ r.device = d
    <3>1. Usb(x.end) /\ Store(st) /\ st.mode # "Legacy"
      BY <2>1 DEF Usb, Attachments, Calmly
    <3>2. PICK mark0 : mark0 = seen(x)
      OBVIOUS
    <3>3. PICK end : end = x.end
      OBVIOUS
    <3>4. ResolveConnection(st, end, mark0) = Resolved(d)
      BY <2>6, <3>1, <3>2, <3>3, OwnerFound
    <3>5. answer(x) = Resolved(d)
      BY <3>2, <3>3, <3>4
    <3>6. r1.why = "Resolved" /\ r1.device = d
      BY <1>8, <2>3, <3>5 DEF Resolved
    <3> QED BY <2>4, <3>6
  <2>7. Finds(st, learnt[p][e].mark, r)'
    BY <1>1, <2>1, <2>5, <2>6 DEF Finds
  <2>8. r \in job'[p].rows
    BY <1>2
  <2> HIDE DEF answer, rows
  <2> QED BY <2>5, <2>7, <2>8 DEF Finds
<1> HIDE DEF answer, rows
<1> QED BY <1>1, <1>9, <1>10 DEF Finds

\* auto_resolve_unknowns hands the rows on.
LEMMA AutoAttachFinds ==
    ASSUME Attachments, Still, NEW p \in Process, Found(p), AutoAttach(p)
    PROVE  job'[p].pc \in {"remember", "sync"} /\ Found(p)'
<1>1. /\ UNCHANGED <<calm, learnt, st>> /\ job[p].pc = "attach" /\ ScanFields \subseteq DOMAIN job[p]
  BY DEF AutoAttach, history, Attachments, Rows
<1>2. /\ job'[p].rows = job[p].rows /\ job'[p].selection = job[p].selection
      /\ job'[p].pc \in {"remember", "sync"}
  <2> DEFINE found == {x \in {[end |-> row.end, device |-> ResolveConnectionDecision(st, row,
                                  Cardinality({r \in job[p].rows : Open(r)}))] :
                              row \in {r \in job[p].rows : Open(r)}} : x.device # None}
  <2>1. \/ Become(p, [job[p] EXCEPT !.pc = "sync"])
        \/ \E x \in found :
              Become(p, [pc |-> "remember", selection |-> job[p].selection, want |-> job[p].want,
                         rows |-> job[p].rows, end |-> x.end, device |-> x.device])
    BY DEF AutoAttach
  <2> HIDE DEF found
  <2>2. \A state : Become(p, state) => job'[p] = state
    BY DEF Become, Attachments, World
  <2>3. CASE Become(p, [job[p] EXCEPT !.pc = "sync"])
    BY <1>1, <2>2, <2>3 DEF ScanFields
  <2>4. ASSUME NEW x \in found,
               Become(p, [pc |-> "remember", selection |-> job[p].selection, want |-> job[p].want,
                          rows |-> job[p].rows, end |-> x.end, device |-> x.device])
        PROVE  /\ job'[p].rows = job[p].rows /\ job'[p].selection = job[p].selection
               /\ job'[p].pc \in {"remember", "sync"}
    BY <2>2, <2>4
  <2> QED BY <2>1, <2>3, <2>4
<1>3. Store(st) /\ Keeps(st')
  BY <1>1, NothingKept DEF Attachments, Keeps
<1>4. CASE calm[p]
  BY <1>1, <1>2, <1>3, <1>4, FoundStays
<1>5. CASE ~calm[p]
  BY <1>1, <1>2, <1>5 DEF Found, Calmly
<1> QED BY <1>2, <1>4, <1>5

\* The rows that are resolved again had no device.
LEMMA RememberFinds ==
    ASSUME Attachments, Still, NEW p \in Process, Found(p), RememberAttachment(p)
    PROVE  job'[p].pc = "sync" /\ Found(p)'
<1>1. PICK s : s = st' /\ Store(s) /\ Keeps(s) /\ Narrow(s)
  BY RememberKeeps DEF Attachments
<1> DEFINE again(row) == IF row.why \in {"Absent", "Unknown"} /\ Remembered(s, row.end) # None
                            /\ MappingAgrees(s, row)
                         THEN [row EXCEPT !.why = "Resolved", !.device = Remembered(s, row.end)]
                         ELSE row
           rows == {again(row) : row \in job[p].rows}
<1>2. UNCHANGED <<at, calm, learnt>> /\ job[p].pc = "remember" /\ st'.mode = st.mode
  BY <1>1 DEF RememberAttachment, history, Keeps
<1>3. job'[p] = [pc |-> "sync", selection |-> job[p].selection, want |-> job[p].want, rows |-> rows]
  <2>1. job' = [job EXCEPT ![p] =
                   [pc |-> "sync", selection |-> job[p].selection, want |-> job[p].want, rows |-> rows]]
    BY <1>1 DEF RememberAttachment, Become
  <2> HIDE DEF again, rows
  <2> QED BY <2>1 DEF Attachments, World
<1> HIDE DEF again, rows
<1>4. (Calmly(p)' => Calmly(p)) /\ job'[p].rows = rows /\ job'[p].pc = "sync"
  BY <1>2, <1>3 DEF Calmly
<1> SUFFICES ASSUME Calmly(p)
             PROVE  /\ \A r \in rows : AtItsPort(p, r)'
                    /\ \A e \in Port : at'[e] # None =>
                          \E r \in rows : r.end.at = e /\ Finds(st, learnt[p][e].mark, r)'
  BY <1>4 DEF Found
<1>5. ASSUME NEW row \in job[p].rows
      PROVE  AtItsPort(p, again(row))'
  <2>1. AtItsPort(p, row)
    BY <1>2, <1>5 DEF Found
  <2>2. PICK r : r = again(row)
    OBVIOUS
  <2>3. /\ {"end", "seen", "why", "device"} \subseteq DOMAIN r /\ r.end = row.end /\ r.seen = row.seen
    BY <2>1, <2>2 DEF AtItsPort, again
  <2>4. AtItsPort(p, r)'
    BY <1>2, <2>1, <2>3 DEF AtItsPort
  <2> QED BY <2>2, <2>4
<1>6. ASSUME NEW e \in Port, at[e] # None
      PROVE  \E r \in rows : r.end.at = e /\ Finds(s, learnt[p][e].mark, r)
  <2>1. PICK row \in job[p].rows : row.end.at = e /\ Finds(st, learnt[p][e].mark, row)
    BY <1>2, <1>6 DEF Found
  <2>2. Finds(s, learnt[p][e].mark, row) /\ AtItsPort(p, row)
    BY <1>1, <1>2, <2>1, FindsStill DEF Attachments, Found
  <2>3. again(row) \in rows
    BY <2>1 DEF rows
  <2>4. PICK r : r = again(row)
    OBVIOUS
  <2>5. r.end = row.end /\ r.seen = row.seen /\ (row.why = "Resolved" => r = row)
    BY <2>2, <2>4 DEF AtItsPort, again
  <2>6. Finds(s, learnt[p][e].mark, r)
    BY <2>2, <2>5 DEF Finds
  <2> QED BY <2>1, <2>3, <2>4, <2>5, <2>6
<1>7. ASSUME NEW e \in Port, at'[e] # None
      PROVE  \E r \in rows : r.end.at = e /\ Finds(st, learnt[p][e].mark, r)'
  <2>1. PICK r \in rows : r.end.at = e /\ Finds(s, learnt[p][e].mark, r)
    BY <1>2, <1>6, <1>7
  <2>2. Finds(st, learnt[p][e].mark, r)'
    BY <1>1, <1>2, <2>1 DEF Finds
  <2> QED BY <2>1, <2>2
<1>8. \A r \in rows : AtItsPort(p, r)'
  BY <1>5 DEF rows
<1> QED BY <1>7, <1>8

\* p's scan after a step of its own.
LEMMA OwnScan ==
    ASSUME Attachments, Still, NEW p \in Process, Ensuring(p), Listed(p), Found(p), Acts(p)
    PROVE  Ensuring(p)' /\ Listed(p)' /\ Found(p)'
<1>1. \A state : Become(p, state) => job'[p] = state
  BY DEF Become, Attachments, World
<1>2. ASSUME job'[p].pc \notin {"ensure", "read", "attach", "remember", "sync"}
      PROVE  Ensuring(p)' /\ Listed(p)' /\ Found(p)'
  BY <1>2 DEF Ensuring, Listed, Found
<1>3. CASE \E scan \in Scans : List(p, scan.selection, scan.want)
  BY <1>3, ListScans
<1>4. CASE Ensure(p)
  <2>1. job'[p].pc = "sync" /\ st'.mode = "Legacy"
    BY <1>1, <1>4 DEF Ensure, Resolve, Ensuring, Still
  <2> QED BY <2>1 DEF Ensuring, Listed, Found, Calmly
<1>5. CASE ReadMark(p)
  <2>1. job[p].pc = "read" /\ calm' = calm /\ (job'[p] = job[p] \/ job'[p] = Idle)
    BY <1>1, <1>5 DEF ReadMark
  <2>2. CASE job'[p] = Idle
    BY <1>2, <2>2 DEF Idle
  <2>3. CASE job'[p] = job[p] /\ calm[p]
    BY <2>1, <2>3, ListedStays DEF Ensuring, Found
  <2>4. CASE job'[p] = job[p] /\ ~calm[p]
    BY <2>1, <2>4 DEF Ensuring, Listed, Found, Calmly
  <2> QED BY <2>1, <2>2, <2>3, <2>4
<1>6. CASE ResolveAll(p)
  BY <1>6, ScanFinds DEF Ensuring, Listed
<1>7. CASE AutoAttach(p)
  <2>1. job'[p].pc \in {"remember", "sync"} /\ Found(p)'
    BY <1>7, AutoAttachFinds
  <2> QED BY <2>1 DEF Ensuring, Listed
<1>8. CASE RememberAttachment(p)
  <2>1. job'[p].pc = "sync" /\ Found(p)'
    BY <1>8, RememberFinds
  <2> QED BY <2>1 DEF Ensuring, Listed
<1>9. CASE Sync(p) \/ PickDevice(p) \/ Operate(p) \/ Attached(p)
  <2>1. job'[p].pc \in {"idle", "pick", "ready"}
    BY <1>1, <1>9 DEF Sync, PickDevice, Operate, Attached, Idle
  <2> QED BY <1>2, <2>1
<1>10. CASE \E d \in DOMAIN st.devices : OpenLocked(p, d)
  <2>1. job'[p].pc = "opening"
    BY <1>1, <1>10 DEF OpenLocked
  <2> QED BY <1>2, <2>1
<1>11. CASE \E d \in DOMAIN st.devices : RememberResolution(p, d)
  <2>1. job'[p].pc = "idle"
    BY <1>11 DEF RememberResolution, Idle
  <2> QED BY <1>2, <2>1
<1> QED BY <1>3, <1>4, <1>5, <1>6, <1>7, <1>8, <1>9, <1>10, <1>11 DEF Acts, Step

LEMMA CalmSteps ==
    ASSUME Scanning, AttachmentNext
    PROVE  /\ calm' = [p \in Process |-> calm'[p]]
           /\ \A p \in Process :
                 /\ calm'[p] => Quiet
                 /\ calm'[p] => calm[p] \/ \E scan \in Scans : List(p, scan.selection, scan.want)
<1>1. CASE UNCHANGED calm /\ Quiet
  BY <1>1 DEF Scanning
<1>2. CASE \E q \in Process, scan \in Scans : List(q, scan.selection, scan.want)
  <2>1. PICK q \in Process, scan \in Scans : List(q, scan.selection, scan.want)
    BY <1>2
  <2>2. calm' = [calm EXCEPT ![q] = TRUE]
    BY <2>1 DEF List
  <2>3. Quiet
    BY <2>1 DEF Quiet, Acts
  <2> QED BY <2>1, <2>2, <2>3 DEF Scanning
<1>3. CASE calm' = [p \in Process |-> FALSE]
  BY <1>3
<1>4. CASE \/ \E q \in Process : \/ Step(q)
                                 \/ \E d \in DOMAIN st.devices : RememberResolution(q, d) \/ OpenLocked(q, d)
           \/ \E d \in DOMAIN st.devices :
                 SelectDevice(d) \/ \E force \in BOOLEAN : ForgetDevice(d, force)
  <2>1. Quiet
    BY <1>4 DEF Quiet, Acts
  <2>2. UNCHANGED calm
    BY <1>4 DEF Step, Ensure, ReadMark, ResolveAll, AutoAttach, RememberAttachment, Sync, PickDevice,
                Attached, Operate, RememberResolution, OpenLocked, SelectDevice, ForgetDevice, history
  <2> QED BY <1>1, <2>1, <2>2
<1>5. CASE \/ \E e \in Port, u \in Unit \cup {None} : Plug(e, u)
           \/ \E b \in Radio : ComeOrGo(b)
           \/ \E d \in DOMAIN st.devices \cup {None}, t \in Token : SetupBegins(d, t)
           \/ SetupEnds
  BY <1>3, <1>5 DEF Plug, ComeOrGo, SetupBegins, SetupEnds
<1> QED BY <1>2, <1>4, <1>5 DEF AttachmentNext

LEMMA ScanningStep ==
    ASSUME Attachments, Scanning, [AttachmentNext]_attachmentVars
    PROVE  Scanning'
<1>1. CASE UNCHANGED attachmentVars
  BY <1>1 DEF attachmentVars, Scanning, Ensuring, Listed, Found, Calmly, AtItsPort, Finds, Endpoint
<1>2. CASE AttachmentNext
  <2> SUFFICES ASSUME NEW p \in Process PROVE Ensuring(p)' /\ Listed(p)' /\ Found(p)'
    BY <1>2, CalmSteps DEF Scanning
  <2>1. Quiet => Still
    BY StillStep DEF Scanning
  <2>2. Keeps(st') /\ Store(st)
    BY <1>2, StoreStep DEF Attachments
  <2>3. CASE Acts(p)
    <3>1. Still
      BY <2>1, <2>3 DEF Quiet
    <3> QED BY <2>3, <3>1, OwnScan DEF Scanning
  <2>4. CASE ~Acts(p)
    <3>1. Untouched(p)
      <4>1. CASE \E q \in Process : Acts(q)
        BY <2>4, <4>1, Elsewhere DEF Attachments
      <4>2. CASE Outside
        BY <4>2, OutsideStep DEF Untouched
      <4> QED BY <1>2, <4>1, <4>2 DEF AttachmentNext, Acts, Outside
    <3>2. Ensuring(p)'
      BY <2>2, <3>1 DEF Untouched, Ensuring, Scanning, Keeps
    <3>3. CASE ~calm'[p]
      BY <3>2, <3>3 DEF Listed, Found, Calmly
    <3>4. CASE calm'[p]
      <4>1. Quiet /\ calm[p]
        BY <1>2, <2>4, <3>4, CalmSteps DEF Acts
      <4>2. Still
        BY <2>1, <4>1
      <4>3. Listed(p)'
        BY <3>1, <4>1, <4>2, ListedStays DEF Untouched, Scanning
      <4>4. Found(p)'
        <5>1. CASE job[p].pc \in {"attach", "remember", "sync"}
          BY <2>2, <3>1, <4>1, <4>2, <5>1, FoundStays DEF Untouched, Scanning
        <5>2. CASE job[p].pc \notin {"attach", "remember", "sync"}
          BY <3>1, <5>2 DEF Untouched, Found
        <5> QED BY <5>1, <5>2
      <4> QED BY <3>2, <4>3, <4>4
    <3> QED BY <3>3, <3>4
  <2> QED BY <2>3, <2>4
<1> QED BY <1>1, <1>2

LEMMA ScanningAtFirst ==
    ASSUME AttachmentInit
    PROVE  Scanning
<1>1. calm = [p \in Process |-> FALSE] /\ \A p \in Process : job[p].pc = "idle"
  BY DEF AttachmentInit, Idle
<1> QED BY <1>1 DEF Scanning, Ensuring, Listed, Found

\* The first of a set of numbers is the one below them all.
LEMMA LeastIs ==
    ASSUME NEW S, S \subseteq Nat, NEW m \in S, \A y \in S : m =< y
    PROVE  Min(S) = m
<1>1. Min(S) \in S /\ \A y \in S : Min(S) =< y
  BY DEF Min
<1>2. Min(S) =< m /\ m =< Min(S) /\ m \in Nat /\ Min(S) \in Nat
  BY <1>1
<1> QED BY <1>2

\* sync_endpoint_associations leaves a mouse that was found with the places of
\* this scan only, and a place at a port goes before one of Bluetooth.
LEMMA SyncReaches ==
    ASSUME Attachments, NEW p \in Process, Found(p), Sync(p), job[p].selection = "Auto", calm[p],
           \A f \in Port : Informed(p, f),
           NEW e \in Port, NEW d \in DOMAIN st.devices, Known(e, d), st.setup = None,
           st.devices[d].pref = None, OnlyByMark(p, d)
    PROVE  LET end == SelectedEndpoint(st'.devices[d])
           IN  end # None /\ Usb(end) /\ Known(end.at, d)
<1> DEFINE token == st.devices[d].token
           found(c) == {row \in job[p].rows : row.device = c}
           synced(c) == SyncedDevice(st.devices[c], found(c), Kinds(job[p].selection))
           devices == [c \in DOMAIN st.devices |->
                          IF found(c) = {} THEN st.devices[c] ELSE synced(c)]
           s == [st EXCEPT !.devices = devices]
           now(k) == {row.end : row \in {r \in found(d) : Kind[r.end.at] = k}}
           new == synced(d)
<1>1. Store(st) /\ Valid(st) /\ token \in Token /\ st.mode # "Legacy"
  BY MarkAssumption DEF Attachments, Store, Valid, Known
<1>2. Commit(s) /\ UNCHANGED <<at, mark>> /\ job[p].pc = "sync"
  BY DEF Sync
<1>3. /\ \A row \in job[p].rows : AtItsPort(p, row)
      /\ \A f \in Port : at[f] # None =>
              \E row \in job[p].rows : row.end.at = f /\ Finds(st, learnt[p][f].mark, row)
  BY <1>1, <1>2 DEF Found, Calmly
<1>4. ASSUME NEW f \in Port, at[f] # None
      PROVE  learnt[p][f].mark = mark[at[f]]
  <2>1. learnt[p][f] = [unit |-> at[f], mark |-> mark[at[f]]]
    BY <1>4 DEF Informed
  <2> QED BY <2>1

\* A row of the device is of a mouse that carries its token now.
<1>5. ASSUME NEW row \in found(d)
      PROVE  row.end \in UsbEnds /\ row.end # None /\ Known(row.end.at, d)
  <2>1. row \in job[p].rows /\ row.seen = token
    BY <1>5 DEF OnlyByMark
  <2>2. row.end \in UsbEnds /\ at[row.end.at] # None /\ row.seen = learnt[p][row.end.at].mark
    BY <1>1, <1>3, <2>1 DEF AtItsPort
  <2>3. row.end.at \in Port
    BY <2>2 DEF UsbEnds
  <2>4. row.end # None
    BY <2>2, MarkAssumption DEF UsbEnds, Place
  <2> QED BY <1>1, <1>4, <2>1, <2>2, <2>3, <2>4 DEF Known
\* The mouse at e has one.
<1>6. PICK row0 \in found(d) : row0.end.at = e
  <2>1. at[e] # None /\ mark[at[e]] = token
    BY DEF Known
  <2>2. PICK row \in job[p].rows : row.end.at = e /\ Finds(st, learnt[p][e].mark, row)
    BY <1>3, <2>1
  <2>3. row.device = d
    BY <1>1, <1>4, <2>1, <2>2 DEF Finds
  <2> QED BY <2>2, <2>3
<1>7. /\ new.pref = None
      /\ \A k \in {"Wired", "Receiver"} :
            /\ now(k) # {} => new.eps[k] \in now(k)
            /\ now(k) = {} => new.eps[k] = None
  <2>1. DeviceFields \subseteq DOMAIN st.devices[d]
    BY <1>1, StoreNumbers
  <2>2. new = [st.devices[d] EXCEPT !.eps = [k \in AllKinds |->
                  IF now(k) # {} THEN CHOOSE end \in now(k) : TRUE
                  ELSE IF k = "Ble" \/ k \notin AllKinds THEN st.devices[d].eps[k] ELSE None]]
    BY DEF SyncedDevice, Kinds
  <2> HIDE DEF now, new
  <2>3. new.pref = None /\ new.eps = [k \in AllKinds |->
                  IF now(k) # {} THEN CHOOSE end \in now(k) : TRUE
                  ELSE IF k = "Ble" \/ k \notin AllKinds THEN st.devices[d].eps[k] ELSE None]
    BY <2>1, <2>2 DEF DeviceFields
  <2>4. ASSUME NEW k \in {"Wired", "Receiver"}
        PROVE  /\ now(k) # {} => new.eps[k] \in now(k)
               /\ now(k) = {} => new.eps[k] = None
    <3>1. new.eps[k] = IF now(k) # {} THEN CHOOSE end \in now(k) : TRUE ELSE None
      BY <2>3, <2>4 DEF AllKinds
    <3> QED BY <3>1
  <2> QED BY <2>3, <2>4
<1>8. \A k \in {"Wired", "Receiver"} : \A end \in now(k) :
         end # None /\ end.at \in Port /\ Known(end.at, d) /\ Kind[end.at] = k
  BY <1>5 DEF UsbEnds
<1>9. Kind[e] \in {"Wired", "Receiver"} /\ now(Kind[e]) # {}
  <2>1. Kind[e] \in {"Wired", "Receiver"}
    BY KindAssumption DEF AllKinds, Place
  <2> QED BY <1>6, <2>1
<1>10. st'.devices[d] = new
  <2>1. /\ s.selected = st.selected /\ s.map = st.map /\ s.next = st.next /\ s.mode = st.mode
        /\ s.devices = devices
    BY <1>1 DEF Store, Fields
  <2>2. ASSUME NEW c \in DOMAIN st.devices
        PROVE  synced(c).token = st.devices[c].token
    BY <1>1, StoreNumbers DEF SyncedDevice, DeviceFields
  <2>3. /\ DOMAIN devices = DOMAIN st.devices
        /\ \A c \in DOMAIN st.devices : devices[c] = IF found(c) = {} THEN st.devices[c] ELSE synced(c)
    OBVIOUS
  <2> HIDE DEF devices, synced, found, s
  <2>4. Valid(s)
    BY <1>1, <2>1, <2>2, <2>3 DEF Valid
  <2>5. st' = s
    BY <1>2, <2>4 DEF Commit
  <2>6. found(d) # {}
    BY <1>6
  <2> QED BY <2>1, <2>3, <2>5, <2>6 DEF new
<1> HIDE DEF new, now, found, synced, devices, s
<1> DEFINE present == {i \in DOMAIN Transports : new.eps[Transports[i]] # None}
<1>11. /\ DOMAIN Transports = 1 .. 3 /\ Transports[1] = "Wired" /\ Transports[2] = "Receiver"
  BY DEF Transports
<1>12. SelectedEndpoint(new) = IF present = {} THEN None ELSE new.eps[Transports[Min(present)]]
  BY <1>7 DEF SelectedEndpoint
<1>13. \E k \in {"Wired", "Receiver"} : SelectedEndpoint(new) = new.eps[k] /\ new.eps[k] # None
  <2>1. CASE 1 \in present
    <3>1. Min(present) = 1
      <4>1. present \subseteq Nat /\ \A y \in present : 1 =< y
        BY <1>11
      <4> HIDE DEF present
      <4> QED BY <2>1, <4>1, LeastIs
    <3> QED BY <1>11, <1>12, <2>1, <3>1
  <2>2. CASE 1 \notin present
    <3>1. 2 \in present
      BY <1>7, <1>8, <1>9, <1>11, <2>2
    <3>2. Min(present) = 2
      <4>1. present \subseteq Nat /\ \A y \in present : 2 =< y
        BY <1>11, <2>2
      <4> HIDE DEF present
      <4> QED BY <3>1, <4>1, LeastIs
    <3> QED BY <1>11, <1>12, <3>1, <3>2
  <2> QED BY <2>1, <2>2
<1>14. \A k \in {"Wired", "Receiver"} : new.eps[k] # None => new.eps[k] \in now(k)
  BY <1>7
<1> QED BY <1>8, <1>10, <1>13, <1>14 DEF Usb

\* The step that ends a scan is sync_endpoint_associations.
LEMMA ScanEnds ==
    ASSUME Attachments, AttachmentNext, NEW p \in Process, job[p].pc = "sync", job'[p].pc # "sync"
    PROVE  Sync(p)
<1>1. job'[p] # job[p]
  OBVIOUS
<1>2. ~Outside
  BY <1>1, OutsideStep
<1>3. Acts(p)
  <2>1. PICK q \in Process : Acts(q)
    BY <1>2 DEF AttachmentNext, Acts, Outside
  <2> QED BY <1>1, <2>1, Elsewhere DEF Attachments, Untouched
<1>4. job[p] # Idle
  BY DEF Idle
<1> QED BY <1>1, <1>3, <1>4 DEF Acts, Step, List, Ensure, ReadMark, ResolveAll, AutoAttach, RememberAttachment,
                   PickDevice, Attached, Operate, RememberResolution, OpenLocked

\* resolve_connections, auto_resolve_unknowns and sync_endpoint_associations: a
\* scan during which nothing was plugged leads to every saved mouse at a port,
\* whatever other processes did to state.json meanwhile.
THEOREM FoundMiceAreReached == AttachmentSpec => FoundMouseIsReached
<1> DEFINE Reaches ==
       \A p \in Process :
          job[p].pc = "sync" /\ job'[p].pc # "sync" /\ job[p].selection = "Auto" /\ calm[p]
             /\ (\A f \in Port : Informed(p, f))
          => \A e \in Port, d \in DOMAIN st.devices :
                Known(e, d) /\ st.setup = None /\ st.devices[d].pref = None /\ OnlyByMark(p, d)
                => LET end == SelectedEndpoint(st'.devices[d])
                   IN  end # None /\ Usb(end) /\ Known(end.at, d)
<1>1. Attachments /\ Scanning /\ [AttachmentNext]_attachmentVars => (Attachments /\ Scanning)'
  BY AttachmentsStep, ScanningStep
<1>2. AttachmentInit => Attachments /\ Scanning
  BY AttachmentsAtFirst, ScanningAtFirst
<1>3. Attachments /\ Scanning /\ [AttachmentNext]_attachmentVars => [Reaches]_attachmentVars
  <2> SUFFICES ASSUME Attachments, Scanning, AttachmentNext,
                      NEW p \in Process, job[p].pc = "sync", job'[p].pc # "sync",
                      job[p].selection = "Auto", calm[p], \A f \in Port : Informed(p, f),
                      NEW e \in Port, NEW d \in DOMAIN st.devices,
                      Known(e, d), st.setup = None, st.devices[d].pref = None, OnlyByMark(p, d)
               PROVE  LET end == SelectedEndpoint(st'.devices[d])
                      IN  end # None /\ Usb(end) /\ Known(end.at, d)
    OBVIOUS
  <2>1. Sync(p)
    BY ScanEnds
  <2>2. Found(p)
    BY DEF Scanning
  <2> QED BY <2>1, <2>2, SyncReaches
<1> HIDE DEF Reaches
<1>4. AttachmentSpec => [][Reaches]_attachmentVars
  BY <1>1, <1>2, <1>3, PTL DEF AttachmentSpec
<1> QED BY <1>4 DEF Reaches, FoundMouseIsReached
=============================================================================
