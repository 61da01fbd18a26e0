------------------------------ MODULE Verification ------------------------------
(***************************************************************************)
(* Persistence verification and full refresh of one mouse over USB:        *)
(* verify_profile_reload, verify_power_cycle and refresh_all_profiles.     *)
(* A reload check and a refresh switch the profiles of the mouse and put   *)
(* its metadata back; a power-cycle check gives up its session and the     *)
(* operation lock while the user unplugs the mouse, finds the mouse again  *)
(* and rereads it.  Only a check may claim that a value survives.          *)
(*                                                                         *)
(* The firmware (docs/transports/usb-hid.md) and the user are external: a  *)
(* write changes the live record of the profile that is loaded and is      *)
(* saved to flash later, or lost when another profile is loaded or the     *)
(* power goes first.                                                       *)
(***************************************************************************)
EXTENDS Naturals, FiniteSets

CONSTANTS
    MaxId,               \* the number of profile slots (five on the mouse)
    Image, Rate, Port,
    Kept, Factory,       \* the records that are written, and those stored at first
    Home,                \* the port that is saved at first
    MaxOps, MaxEvents,   \* bounds: checks and refreshes; other operations, user actions
    None

ASSUME MaxIdAssumption == MaxId \in Nat \ {0}
ASSUME HomeAssumption == Home \in Port

Profile == 1..MaxId
Record == [image : Image, rate : Rate]
ASSUME RecordsAssumption == Kept \subseteq Record /\ Factory \in [Profile -> Record]

Metadata == {m \in [current : Profile, maximum : Profile] : m.current <= m.maximum}
Mice == {"own", "other"}   \* the saved mouse, and another of the same model

ASSUME AbsentAssumption == None \notin Port \cup Record \cup Mice

INSTANCE Evidence WITH Value <- Record, Time <- {0}

VARIABLES
    flash,       \* the saved record of each profile
    live, alias, \* the working record, and the profile it belongs to
    unsaved,     \* the working record still awaits its deferred save
    meta,        \* the metadata of the mouse
    at,          \* where each mouse is plugged in, or None
    persistent,  \* persistent identity is enabled: the own mouse is marked
    locator,     \* the saved endpoint
    evidence,    \* the evidence of each profile
    op, last,    \* the running operation, and how the last one ended
    ops, events,
    \* History, read by the properties only:
    excused      \* profiles whose claim the manager does not answer for

firmware == <<flash, live, alias, unsaved, meta>>
bounds == <<ops, events>>
vars == <<firmware, at, persistent, locator, evidence, op, last, bounds, excused>>

Idle == [pc |-> "idle"]
Partial == [image : Image, rate : {None} \cup Rate]
Running ==
    [pc : {"image", "rate", "away", "expand", "activate", "restore", "gone", "back",
           "reopen", "commit"},
     kind : {"reload", "power", "refresh"}, target : Profile, original : Metadata,
     first : {None} \cup Record,    \* the image captured before the check
     seen : {None} \cup Partial,    \* the profile being read
     caught : [Profile -> {None} \cup Record],
     agrees : BOOLEAN,              \* the maximum is the one of the first read
     failed : BOOLEAN,              \* an error awaits the restoration
     session : Mice \cup {None},
     expired : BOOLEAN,             \* POWER_CYCLE_TIMEOUT has elapsed
     \* History, since the operation began: the user changed the mouse; another
     \* operation wrote, or another mouse was reread.
     moved : BOOLEAN, raced : BOOLEAN]

TypeOK ==
    /\ flash \in [Profile -> Record] /\ live \in Record /\ alias \in Profile
    /\ unsaved \in BOOLEAN /\ meta \in Metadata
    /\ at \in [Mice -> Port \cup {None}] /\ locator \in Port
    /\ evidence \in [Profile -> Resource]
    /\ op \in {Idle} \cup Running
    /\ last \in {None, "done", "mismatch", "failed", "unrestored", "died"}
    /\ excused \subseteq Profile

Nothing == [q \in Profile |-> None]

Init ==
    /\ flash = Factory /\ meta \in Metadata
    /\ live = flash[meta.current] /\ alias = meta.current /\ unsaved = FALSE
    /\ persistent \in BOOLEAN
    /\ locator = Home /\ at \in [Mice -> Port \cup {None}]
    /\ at["own"] = locator /\ at["other"] # locator
    /\ evidence = [q \in Profile |-> Empty]
    /\ op = Idle /\ last = None
    /\ ops = 0 /\ events = 0
    /\ excused = {}

-----------------------------------------------------------------------------
(* The firmware. *)

\* A deferred save ends before a load, or the load makes it moot.
Settled == {flash} \cup (IF unsaved THEN {[flash EXCEPT ![alias] = live]} ELSE {})

Load(q) ==
    /\ flash' \in Settled
    /\ live' = flash'[q] /\ alias' = q /\ unsaved' = FALSE

\* A targeted section access loads its target unless it is loaded already.
Target(q) == IF alias = q THEN UNCHANGED <<flash, live, alias, unsaved>> ELSE Load(q)

Change(q, rec) ==
    /\ flash' \in IF alias = q THEN {flash} ELSE Settled
    /\ live' = rec /\ alias' = q /\ unsaved' = TRUE

DeferredSave ==
    /\ unsaved
    /\ flash' = [flash EXCEPT ![alias] = live] /\ unsaved' = FALSE
    /\ UNCHANGED <<live, alias, meta, at, persistent, locator, evidence, op, last, bounds,
                   excused>>

\* The session's write_profile_metadata: the maximum is raised first and lowered
\* last, so that the current profile is enabled at every step.
Raised(to) == IF to.maximum > meta.maximum THEN [meta EXCEPT !.maximum = to.maximum] ELSE meta
Steps(to) == {meta, Raised(to), [Raised(to) EXCEPT !.current = to.current], to}

Reach(m) ==
    /\ meta' = m
    /\ IF m.current # meta.current THEN Load(m.current)
       ELSE UNCHANGED <<flash, live, alias, unsaved>>

-----------------------------------------------------------------------------
(* The operations.  All but the waits hold the operation lock of the mouse. *)

Waiting == op # Idle /\ op.pc \in {"gone", "back", "reopen"}
Unlocked == op = Idle \/ Waiting
Reads == op # Idle /\ op.session # None

End(how) == op' = Idle /\ last' = how
Go(new) == op' = new /\ last' = None

\* Faulty variant: the check stays on the loaded profile.
AlternateIsTarget(m, q) == {q}

\* alternate_profile: the current profile, or the first other one.
Alternate(m, q) ==
    IF m.current # q THEN {m.current}
    ELSE {away \in 1..m.maximum : away # q /\ \A r \in 1..(away - 1) : r = q}

Fresh(kind, q) ==
    [pc |-> "image", kind |-> kind, target |-> q, original |-> meta, first |-> None,
     seen |-> None, caught |-> Nothing, agrees |-> TRUE, failed |-> FALSE, session |-> "own",
     expired |-> FALSE, moved |-> FALSE, raced |-> FALSE]

Begin ==
    /\ op = Idle /\ ops < MaxOps /\ ops' = ops + 1
    /\ at["own"] = locator
    /\ UNCHANGED <<firmware, at, persistent, locator, evidence, events, excused>>

BeginReload(q) ==
    /\ q <= meta.maximum /\ Alternate(meta, q) # {}
    /\ Begin /\ Go(Fresh("reload", q))

BeginPowerCycle(q) == Begin /\ Go(Fresh("power", q))

\* capture_all_profiles, from refresh_all_profiles: the current profile is first.
BeginRefresh ==
    /\ Begin
    /\ Go([Fresh("refresh", meta.current) EXCEPT
               !.pc = IF meta.maximum # MaxId THEN "expand" ELSE "image"])

-----------------------------------------------------------------------------
(* A complete read: the snapshot, which loads its target, then the live rate. *)

\* What the session reads: the other mouse may hold anything.
LiveImage == IF op.session = "own" THEN {live'.image} ELSE Image
LiveRate == IF op.session = "own" THEN {live.rate} ELSE Rate
SameMaximum ==
    IF op.session = "own" /\ op.kind # "refresh" THEN {meta.maximum = op.original.maximum}
    ELSE IF op.session = "own" THEN {TRUE} ELSE BOOLEAN

\* A refresh refuses a snapshot of a mouse whose profile was switched.
Expected ==
    op.kind = "refresh" => meta = [current |-> op.target, maximum |-> MaxId]

\* Faulty variant: a failed capture returns at once.
FailAtOnce == End("failed")

\* After a failure behind the first transition, the metadata is put back first.
Fail ==
    IF op.kind = "refresh" \/ (op.kind = "reload" /\ op.first # None)
    THEN Go([op EXCEPT !.pc = "restore", !.failed = TRUE])
    ELSE End("failed")

ReadImage ==
    /\ Reads /\ op.pc = "image"
    /\ IF op.session = "own" THEN Target(op.target)
       ELSE UNCHANGED <<flash, live, alias, unsaved>>
    /\ IF Expected
       THEN \E i \in LiveImage, agrees \in SameMaximum :
                Go([op EXCEPT !.pc = "rate", !.seen = [image |-> i, rate |-> None],
                              !.agrees = agrees])
       ELSE Fail
    /\ UNCHANGED <<meta, at, persistent, locator, evidence, bounds, excused>>

\* The profile that the walk of a refresh visits after q.
Rest == {r \in Profile : op.caught[r] = None /\ r # op.target}
NextInWalk == CHOOSE r \in Rest : \A s \in Rest : r <= s

\* The session and the lock are dropped before the wait.
Await(rec) == [op EXCEPT !.pc = "gone", !.first = rec, !.seen = None, !.session = None]

AfterRead(rec) ==
    CASE op.kind = "refresh" /\ Rest # {} ->
             [op EXCEPT !.pc = "activate", !.caught[op.target] = rec, !.target = NextInWalk]
      [] op.kind = "refresh" /\ Rest = {} ->
             [op EXCEPT !.pc = "restore", !.caught[op.target] = rec]
      [] op.kind = "reload" /\ op.first = None -> [op EXCEPT !.pc = "away", !.first = rec]
      [] op.kind = "reload" /\ op.first # None ->
             [op EXCEPT !.pc = "restore", !.caught[op.target] = rec]
      [] op.kind = "power" /\ op.first = None -> Await(rec)
      [] op.kind = "power" /\ op.first # None ->
             [op EXCEPT !.pc = "commit", !.caught[op.target] = rec]

ReadRate ==
    /\ Reads /\ op.pc = "rate"
    /\ \E r \in LiveRate : Go(AfterRead([image |-> op.seen.image, rate |-> r]))
    /\ UNCHANGED <<firmware, at, persistent, locator, evidence, bounds, excused>>

-----------------------------------------------------------------------------
(* The metadata writes of a check and of a refresh. *)

AwayFrom(q) ==
    [current |-> CHOOSE away \in Alternate(op.original, q) : TRUE, maximum |-> op.original.maximum]

\* What each metadata write wants, and where the operation goes with it.
Wish ==
    CASE op.pc = "away" -> AwayFrom(op.target)
      [] op.pc = "expand" -> [op.original EXCEPT !.maximum = MaxId]
      [] op.pc = "activate" /\ op.kind = "reload" -> [op.original EXCEPT !.current = op.target]
      [] op.pc = "activate" /\ op.kind = "refresh" -> [current |-> op.target, maximum |-> MaxId]
      [] op.pc = "restore" -> op.original

\* write_exact_metadata: every step of the write may be the last one reached.
WriteMetadata ==
    /\ Reads /\ op.pc \in {"away", "expand", "activate", "restore"}
    /\ \E m \in Steps(Wish) :
        /\ Reach(m)
        /\ \/ /\ m = Wish
              /\ CASE op.pc = "away" -> Go([op EXCEPT !.pc = "activate"])
                   [] op.pc \in {"expand", "activate"} -> Go([op EXCEPT !.pc = "image"])
                   [] op.pc = "restore" /\ op.failed -> End("failed")
                   [] op.pc = "restore" /\ ~op.failed ->
                          Go([op EXCEPT !.pc = "commit"])
           \/ IF op.pc = "restore" THEN End("unrestored") ELSE Fail
    /\ UNCHANGED <<at, persistent, locator, evidence, bounds, excused>>

\* A read fails, or the mouse was unplugged; a restoration then fails as well.
ReadFails ==
    /\ op # Idle /\ op.pc \in {"image", "rate"}
    /\ Fail
    /\ UNCHANGED <<firmware, at, persistent, locator, evidence, bounds, excused>>

WriteHasNoSession ==
    /\ op # Idle /\ op.session = None /\ op.pc \in {"away", "expand", "activate", "restore"}
    /\ IF op.pc = "restore" THEN End("unrestored") ELSE Fail
    /\ UNCHANGED <<firmware, at, persistent, locator, evidence, bounds, excused>>

-----------------------------------------------------------------------------
(* The waits of a power-cycle check, without session and lock. *)

Listed == {at[mouse] : mouse \in Mice} \ {None}
Stay == UNCHANGED <<op, last>>

\* Faulty variant: a mouse that stays plugged in is waited for without end.
PollGoneForever ==
    /\ op # Idle /\ op.pc = "gone"
    /\ IF locator \notin Listed THEN Go([op EXCEPT !.pc = "back", !.expired = FALSE])
       ELSE Stay
    /\ UNCHANGED <<firmware, at, persistent, locator, evidence, bounds, excused>>

\* One round of wait_for_disappearance.
PollGone ==
    /\ op # Idle /\ op.pc = "gone"
    /\ IF locator \notin Listed THEN Go([op EXCEPT !.pc = "back", !.expired = FALSE])
       ELSE IF op.expired THEN End("failed") ELSE Stay
    /\ UNCHANGED <<firmware, at, persistent, locator, evidence, bounds, excused>>

\* authenticated_candidate: the one candidate with the saved mark.  Without
\* identity, the saved endpoint, or else the only mouse of the model.
Authenticated == {at["own"]} \ {None}
LegacyRebind ==
    IF locator \in Listed THEN {locator}
    ELSE IF Cardinality(Listed) = 1 THEN Listed ELSE {}
Reappeared == IF persistent THEN Authenticated ELSE LegacyRebind

\* update_locator.
UpdateLocator == locator' \in Reappeared

\* One round of wait_for_reappearance.
PollBack ==
    /\ op # Idle /\ op.pc = "back"
    /\ IF Reappeared # {}
       THEN UpdateLocator /\ Go([op EXCEPT !.pc = "reopen"])
       ELSE (IF op.expired THEN End("failed") ELSE Stay) /\ UNCHANGED locator
    /\ UNCHANGED <<firmware, at, persistent, evidence, bounds, excused>>

\* open_locked refuses an endpoint without the saved mark.
Reopen ==
    /\ op # Idle /\ op.pc = "reopen"
    /\ \/ \E mouse \in Mice :
            /\ at[mouse] = locator /\ (persistent => mouse = "own")
            /\ Go([op EXCEPT !.pc = "image", !.session = mouse, !.raced = @ \/ mouse = "other"])
       \/ End("failed")
    /\ UNCHANGED <<firmware, at, persistent, locator, evidence, bounds, excused>>

\* POWER_CYCLE_TIMEOUT passes.
ClockRuns ==
    /\ op # Idle /\ op.pc \in {"gone", "back"} /\ ~op.expired
    /\ Go([op EXCEPT !.expired = TRUE])
    /\ UNCHANGED <<firmware, at, persistent, locator, evidence, bounds, excused>>

-----------------------------------------------------------------------------
(* The end of an operation. *)

Claimed == [reload |-> "ProfileReloadVerified", power |-> "PowerCycleVerified"]
Survived == op.agrees /\ op.caught[op.target] = op.first

\* persist_profile_refresh, persist_profile_observation.
Reconciled(q) ==
    IF op.caught[q] = None THEN evidence[q]
    ELSE IF op.kind # "refresh" /\ Survived
    THEN MarkOrInvalidate(ReconcileObservation(evidence[q], op.caught[q], 0), Claimed[op.kind], 0)
    ELSE ReconcileObservation(evidence[q], op.caught[q], 0)

Commit ==
    /\ op # Idle /\ op.pc = "commit"
    /\ evidence' = [q \in Profile |-> Reconciled(q)]
    /\ End(IF op.kind = "refresh" \/ Survived THEN "done" ELSE "mismatch")
    /\ excused' = IF op.moved \/ op.raced THEN excused \cup {op.target}
                  ELSE excused \ {op.target}
    /\ UNCHANGED <<firmware, at, persistent, locator, bounds>>

\* A busy state.lock, or the death of the process.
OperationStops ==
    /\ op # Idle
    /\ \/ op.pc = "commit" /\ End("failed")
       \/ End("died")
    /\ UNCHANGED <<firmware, at, persistent, locator, evidence, bounds, excused>>

-----------------------------------------------------------------------------
(* The other operations, of this or another process, while the lock is free. *)

Event == events < MaxEvents /\ events' = events + 1 /\ UNCHANGED ops

Other ==
    /\ Unlocked /\ at["own"] = locator
    /\ Event
    /\ op' = IF op = Idle THEN op ELSE [op EXCEPT !.raced = TRUE]
    /\ UNCHANGED <<at, persistent, locator, last, excused>>

\* apply_profile_update, with or without readback.
WriteProfile(q, rec, readback) ==
    /\ Other
    /\ Change(q, rec) /\ UNCHANGED meta
    /\ evidence' = [evidence EXCEPT ![q] = IF readback THEN RecordReadbackWrite(@, rec, rec, 0)
                                           ELSE RecordAckWrite(@, rec, 0)]

\* activate_profile and set_profile_metadata.
SetMetadata(to) ==
    /\ Other
    /\ Reach(to)
    /\ UNCHANGED evidence

-----------------------------------------------------------------------------
(* The user. *)

Touch ==
    /\ at["own"] # None /\ Event
    /\ op' = IF op = Idle THEN op ELSE [op EXCEPT !.moved = TRUE]
    /\ UNCHANGED <<at, persistent, locator, evidence, last>>

TouchMouse(i) ==
    /\ Touch
    /\ Change(alias, [live EXCEPT !.image = i])
    /\ excused' = excused \cup {alias}
    /\ UNCHANGED meta

SwitchProfile(q) ==
    /\ Touch /\ q <= meta.maximum /\ q # meta.current
    /\ Reach([meta EXCEPT !.current = q])
    /\ UNCHANGED excused

\* The user unplugs a mouse and, as the tool asks, turns it off: the own mouse
\* loads its current profile when it comes back.
Unplug(mouse) ==
    /\ at[mouse] # None /\ Event
    /\ at' = [at EXCEPT ![mouse] = None]
    /\ IF mouse = "own" THEN Load(meta.current) ELSE UNCHANGED <<flash, live, alias, unsaved>>
    /\ op' = IF op # Idle /\ op.session = mouse THEN [op EXCEPT !.session = None] ELSE op
    /\ UNCHANGED <<meta, persistent, locator, evidence, last, excused>>

Plug(mouse, port) ==
    /\ at[mouse] = None /\ port \notin Listed
    /\ IF mouse = "own" THEN UNCHANGED bounds ELSE Event
    /\ at' = [at EXCEPT ![mouse] = port]
    /\ UNCHANGED <<firmware, persistent, locator, evidence, op, last, excused>>

-----------------------------------------------------------------------------
OwnStep ==
    \/ ReadImage \/ ReadRate \/ WriteMetadata \/ ReadFails \/ WriteHasNoSession
    \/ PollGone \/ PollBack \/ Reopen \/ Commit

Environment ==
    \/ DeferredSave \/ OperationStops
    \/ \E q \in Profile :
          \/ \E rec \in Kept, readback \in BOOLEAN : WriteProfile(q, rec, readback)
          \/ SwitchProfile(q)
    \/ \E to \in Metadata : SetMetadata(to)
    \/ \E i \in Image : TouchMouse(i)
    \/ \E mouse \in Mice : Unplug(mouse) \/ \E port \in Port : Plug(mouse, port)

Next ==
    \/ \E q \in Profile : BeginReload(q) \/ BeginPowerCycle(q)
    \/ BeginRefresh
    \/ OwnStep \/ ClockRuns \/ Environment

\* Every call of an operation returns, and time passes.
Spec == Init /\ [][Next]_vars /\ WF_vars(OwnStep) /\ WF_vars(ClockRuns)

-----------------------------------------------------------------------------
\* A reload check or a refresh that ends without telling that the restoration
\* failed leaves the mouse with the metadata it found, whichever of its steps
\* failed.  (The user's own switching, and the death of the process, excepted.)
MetadataRestored ==
    [][op # Idle /\ op' = Idle /\ op.kind # "power" /\ last' \in {"done", "mismatch", "failed"}
         /\ ~op.moved => meta' = op.original]_vars

\* A claim that a value survives is true: the flash of the profile holds the
\* value, although a write is saved late and may be lost.  (Excused are profiles
\* changed by the user or, during the wait of a check, by another operation, and
\* in legacy mode a check that reread another mouse.)
ClaimsAreSaved ==
    \A q \in Profile \ excused :
        Claims(evidence[q]) => flash[q] = evidence[q].desired.value

\* No operation waits for ever, whatever is plugged in.
OperationEnds == (op # Idle) ~> (op = Idle)
=============================================================================
