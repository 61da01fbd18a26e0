------------------------------- MODULE StateStore -------------------------------
(***************************************************************************)
(* The disk backend of crates/attack-shark-x3-manager/src/state/store.rs:  *)
(* processes (x3ctl invocations, the GUI) that change one state.json under *)
(* the try-lock state.lock, through a temporary file, fsync, rename and    *)
(* fsync of the directory; crashes between any two of those steps, I/O     *)
(* errors, and power losses.                                               *)
(*                                                                         *)
(* The file system is external: a rename is atomic for the processes, and  *)
(* a power loss keeps a prefix of the directory operations made since the  *)
(* directory was last synced.  The directory itself exists and is durable. *)
(* Only Unix syncs it: elsewhere sync_parent does nothing and succeeds.    *)
(***************************************************************************)
EXTENDS Naturals, Option

CONSTANTS
    Proc,      \* the processes sharing the state directory
    MaxEdits   \* bound: edits each process makes

ASSUME MaxEditsAssumption == MaxEdits \in Nat

\* An edit is one transaction that changes the document.
Edit == Proc \X (1..MaxEdits)

\* The bytes of a file: the edits they include, whether load_state accepts
\* them, and whether they were fsynced.
Content == [edits : SUBSET Edit, loadable : BOOLEAN, synced : BOOLEAN]
Directory == [file : {None} \cup Content, backups : SUBSET Content]
ASSUME NoneAssumption == None \notin Proc \cup Content

Torn == [edits |-> {}, loadable |-> FALSE, synced |-> TRUE]

VARIABLES
    unix,      \* the platform, which of the two sync_parent is built: never changes
    dir,       \* the directory as the processes see it
    survivors, \* the directories a power loss may leave
    lock,      \* the holder of state.lock
    pc, base, work, edit,  \* per process: step, loaded edits, edits to write, own edit
    temp,      \* per process: the temporary file
    serial,    \* per process: edits made so far
    told       \* edits whose commit returned Ok

disk == <<dir, survivors>>
txn == <<base, work, edit, temp, serial>>
vars == <<unix, disk, lock, pc, txn, told>>

Steps == {"idle", "locked", "loaded", "changed", "temp", "synced", "renamed",
          "discard", "backup"}

TypeOK ==
    /\ unix \in BOOLEAN
    /\ dir \in Directory /\ survivors \in SUBSET Directory /\ dir \in survivors
    /\ lock \in Proc \cup {None}
    /\ pc \in [Proc -> Steps]
    /\ base \in [Proc -> SUBSET Edit] /\ work \in [Proc -> SUBSET Edit]
    /\ edit \in [Proc -> SUBSET Edit]
    /\ temp \in [Proc -> {None} \cup Content]
    /\ serial \in [Proc -> 0..MaxEdits]
    /\ told \in SUBSET Edit

Init ==
    /\ unix \in BOOLEAN
    /\ dir = [file |-> None, backups |-> {}] /\ survivors = {dir}
    /\ lock = None /\ pc = [p \in Proc |-> "idle"]
    /\ base = [p \in Proc |-> {}] /\ work = [p \in Proc |-> {}]
    /\ edit = [p \in Proc |-> {}] /\ temp = [p \in Proc |-> None]
    /\ serial = [p \in Proc |-> 0] /\ told = {}

Goto(p, step) == pc' = [pc EXCEPT ![p] = step]
EditsIn(file) == IF file = None THEN {} ELSE file.edits
Backups(d) == UNION {b.edits : b \in d.backups}
Loadable(file) == file # None => file.loadable

\* The transaction is over: its memory and its guard are dropped.
Release(p) ==
    /\ lock' = IF lock = p THEN None ELSE lock
    /\ Goto(p, "idle")
    /\ base' = [base EXCEPT ![p] = {}] /\ work' = [work EXCEPT ![p] = {}]
    /\ edit' = [edit EXCEPT ![p] = {}] /\ temp' = [temp EXCEPT ![p] = None]
    /\ UNCHANGED serial

\* One directory operation: seen at once, but not yet safe from a power loss.
Change(d) == dir' = d /\ survivors' = survivors \cup {d}

\* sync_parent: the fsync of the directory on Unix, Ok(()) elsewhere.
Durable(d) == survivors' = IF unix THEN {d} ELSE survivors \cup {d}

-----------------------------------------------------------------------------
\* LockGuard::try_acquire. A busy lock is an error the caller gets at once:
\* nothing changes, so that outcome is a stutter.
AcquireLock(p) ==
    /\ pc[p] = "idle" /\ lock = None
    /\ lock' = p
    /\ \E step \in {"locked", "discard"} : Goto(p, step)
    /\ UNCHANGED <<disk, txn, told>>

\* StateStore::transaction after the lock: reload the latest state.
LoadState(p) ==
    /\ pc[p] = "locked" /\ Loadable(dir.file)
    /\ base' = [base EXCEPT ![p] = EditsIn(dir.file)]
    /\ Goto(p, "loaded")
    /\ UNCHANGED <<disk, lock, work, edit, temp, serial, told>>

\* The closure changes the loaded document.
Mutate(p) ==
    /\ pc[p] = "loaded" /\ serial[p] < MaxEdits
    /\ LET e == <<p, serial[p] + 1>>
       IN  work' = [work EXCEPT ![p] = base[p] \cup {e}] /\ edit' = [edit EXCEPT ![p] = {e}]
    /\ serial' = [serial EXCEPT ![p] = @ + 1]
    /\ Goto(p, "changed")
    /\ UNCHANGED <<disk, lock, base, temp, told>>

\* The transaction ends without replacing the file: the file does not load, the
\* document is unchanged, the closure failed, validate refuses the result,
\* discard_unreadable finds a loadable file, or any I/O step fails (and removes
\* the temporary file it was writing).
EndWithoutRename(p) ==
    /\ pc[p] \in Steps \ {"idle", "renamed"}
    /\ Release(p)
    /\ UNCHANGED <<disk, told>>

\* write_atomic: write_all, sync_all, rename, sync_parent.
WriteTemp(p) ==
    /\ pc[p] = "changed"
    /\ temp' = [temp EXCEPT ![p] = [edits |-> work[p], loadable |-> TRUE, synced |-> FALSE]]
    /\ Goto(p, "temp")
    /\ UNCHANGED <<disk, lock, base, work, edit, serial, told>>

SyncTemp(p) ==
    /\ pc[p] = "temp"
    /\ temp' = [temp EXCEPT ![p].synced = TRUE]
    /\ Goto(p, "synced")
    /\ UNCHANGED <<disk, lock, base, work, edit, serial, told>>

\* Faulty variant: the new file replaces the old one before it is synced.
ReplaceBeforeSync(p) ==
    /\ pc[p] \in {"temp", "synced"}
    /\ Change([dir EXCEPT !.file = temp[p]])
    /\ temp' = [temp EXCEPT ![p] = None]
    /\ Goto(p, "renamed")
    /\ UNCHANGED <<lock, base, work, edit, serial, told>>

AtomicReplace(p) ==
    /\ pc[p] = "synced"
    /\ Change([dir EXCEPT !.file = temp[p]])
    /\ temp' = [temp EXCEPT ![p] = None]
    /\ Goto(p, "renamed")
    /\ UNCHANGED <<lock, base, work, edit, serial, told>>

\* The commit reports success once sync_parent returns; on Unix that takes a
\* synced directory, and a failed sync is an error although the new document is
\* already in place.
SyncParent(p) ==
    /\ pc[p] = "renamed"
    /\ \/ Durable(dir) /\ told' = told \cup edit[p]
       \/ unix /\ UNCHANGED <<survivors, told>>
    /\ Release(p)
    /\ UNCHANGED dir

\* discard_unreadable: copy the unreadable bytes aside (the sync of the
\* directory is best effort), then write the empty document.
CreateBackup(p) ==
    /\ pc[p] = "discard" /\ ~Loadable(dir.file)
    /\ LET copied == [dir EXCEPT !.backups = @ \cup {[dir.file EXCEPT !.synced = TRUE]}]
       IN  Change(copied) \/ (dir' = copied /\ Durable(copied))
    /\ Goto(p, "backup")
    /\ UNCHANGED <<lock, txn, told>>

ResetDocument(p) ==
    /\ pc[p] = "backup" \/ (pc[p] = "discard" /\ dir.file = None)
    /\ work' = [work EXCEPT ![p] = {}] /\ edit' = [edit EXCEPT ![p] = {}]
    /\ Goto(p, "changed")
    /\ UNCHANGED <<disk, lock, base, temp, serial, told>>

-----------------------------------------------------------------------------
\* The process dies: the operating system drops its lock, its temporary file
\* stays behind under a name no other process reads.
Crash(p) ==
    /\ pc[p] # "idle"
    /\ Release(p)
    /\ UNCHANGED <<disk, told>>

PowerLoss ==
    /\ \E d \in survivors :
          dir' = IF d.file # None /\ ~d.file.synced THEN [d EXCEPT !.file = Torn] ELSE d
    /\ survivors' = {dir'}
    /\ lock' = None /\ pc' = [p \in Proc |-> "idle"]
    /\ base' = [p \in Proc |-> {}] /\ work' = [p \in Proc |-> {}]
    /\ edit' = [p \in Proc |-> {}] /\ temp' = [p \in Proc |-> None]
    /\ UNCHANGED <<serial, told>>

\* A program of another schema generation, under the same lock, rewrites the
\* document in a form this one does not load.
OtherGeneration ==
    /\ lock = None /\ dir.file # None /\ dir.file.loadable
    /\ dir' = [dir EXCEPT !.file.loadable = FALSE]
    /\ Durable(dir')
    /\ UNCHANGED <<lock, pc, txn, told>>

Next ==
    /\ unix' = unix
    /\ \/ \E p \in Proc :
             \/ AcquireLock(p) \/ LoadState(p) \/ Mutate(p) \/ EndWithoutRename(p)
             \/ WriteTemp(p) \/ SyncTemp(p) \/ AtomicReplace(p) \/ SyncParent(p)
             \/ CreateBackup(p) \/ ResetDocument(p) \/ Crash(p)
       \/ PowerLoss
       \/ OtherGeneration

Spec == Init /\ [][Next]_vars

-----------------------------------------------------------------------------

\* The store implements AtomicStore: transactions of different processes never
\* overwrite each other, what a discard replaces is set aside first, and a crash
\* or a power loss leaves whole transactions. On Unix what a commit reported
\* saved outlives a power loss; elsewhere sync_parent syncs nothing, and a power
\* loss may undo reported commits as well.
Abstract == INSTANCE AtomicStore WITH
    doc <- EditsIn(dir.file),
    kept <- Backups(dir),
    known <- told,
    past <- {[doc |-> EditsIn(d.file), kept |-> Backups(d)] : d \in survivors},
    durable <- unix
ImplementsAtomicStore == Abstract!Spec
=============================================================================
