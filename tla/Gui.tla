----------------------------------- MODULE Gui -----------------------------------
(***************************************************************************)
(* The graphical frontend: the UI thread, the queue of its commands, the   *)
(* worker thread that owns the manager, and what reaches the worker from   *)
(* the loaded mouse and from the USB hotplug watcher.                      *)
(*                                                                         *)
(* A worker action is the part of a handler between two points at which    *)
(* the other threads can be seen to act.  The manager is seen through what *)
(* its calls answer, which depends on what is plugged in and on failures;  *)
(* its own steps are modelled in Attachment, ProfileUpdate, Verification   *)
(* and IdentityCeremony.  Of the settings the window shows only the mouse  *)
(* they are of is kept: unsaved edits only forbid clicks that the model    *)
(* allows.  UI events that only rewrite a text, a list or telemetry are    *)
(* left out.  There are at least two saved mice, so no endpoint is attached *)
(* to the only one.                                                        *)
(***************************************************************************)
EXTENDS Naturals, Sequences, FiniteSets, SequencesExt, Option

CONSTANTS Mice,        \* the saved mice, each with an endpoint of its own
          First,       \* the one with the smallest id
          Wired,       \* the endpoints on a wire
          Radio,       \* those on Bluetooth; the rest are on USB
          Order,       \* the unassociated endpoints, in scan order
          Starts,      \* the endpoints plugged in at the start, those marked
                       \* with a token nobody owns, the saved selection,
                       \* whether there is a hotplug watcher, and how much of
                       \* the bounds below is used up
          Operations,  \* the commands the user gives to the loaded mouse
          QueueSize,   \* commands the channel holds (32 in the code)
          MaxUser,     \* actions of the user
          MaxWorld,    \* mice plugged in, unplugged, switched off and on
          MaxFailures  \* calls that fail although the mouse is there

Strangers == ToSet(Order)
Endpoints == Mice \cup Strangers

VARIABLES
    world,   \* endpoints plugged in, enumerated, switched off; the counters
    store,   \* state.json: the selection, the owner of the token of each
             \* stamped stranger, the endpoint mapping, the journal
    topo,    \* the hotplug watcher, its queue, the refresh deadline
    cmds, ui, inbox,  \* the command queue, the window, its undelivered events
    events,  \* of the subscribed mouse: the endpoint of its session, the events
             \* on their way, and whether the session is lost
    w        \* the worker's local variables

guiVars == <<world, store, topo, cmds, ui, inbox, events, w>>

-----------------------------------------------------------------------------
(* What the manager's calls see. *)

\* Strangers whose token is nobody's, in scan order.
Unknown == SelectSeq(Order, LAMBDA e : e \in world.settled /\ store.owner[e] = None)

\* The mouse that works at an endpoint, by its token or by the mapping.
Holder(e) == CASE e \in Mice -> e
               [] e \in Strangers /\ store.owner[e] # None -> store.owner[e]
               [] OTHER -> store.map[e]

\* The mouse a scan takes it for.  The mapping decides for a single unknown
\* endpoint, and not during a ceremony.
Owner(e) == IF e \in ToSet(Unknown) /\ (Len(Unknown) > 1 \/ store.journal # None)
            THEN None ELSE Holder(e)

\* The mice a scan lists as connected, those at an endpoint, those that answer.
Listed == {Owner(e) : e \in world.settled} \ {None}
HoldersOf(E) == {Holder(e) : e \in E} \ {None}
Reached == HoldersOf(world.settled \ world.off)

\* The list of the window: the mice of the last scan.
DevicesShown == HoldersOf(w.visible)

\* What the poll compares.
Topology == world.settled

\* A marked endpoint offers its adoption, another one the other ceremonies.
Adopts(e) == e \in world.marked

\* entries_from_connections.
Unassociated == SelectSeq(Unknown, LAMBDA e : Owner(e) = None)

\* resolve_scan: with two saved mice each endpoint is asked about, but for a
\* remembered one: that is attached to the first saved mouse.
Recalled == SelectSeq(Unassociated, LAMBDA e : store.map[e] # None /\ e \notin world.marked)
PendingEndpoints == SelectSeq(Unassociated, LAMBDA e : e \notin ToSet(Recalled))
Attached == [store EXCEPT !.map = [e \in Strangers |-> IF e \in ToSet(Recalled) THEN First ELSE @[e]]]

Fails == /\ world.failures < MaxFailures
         /\ world' = [world EXCEPT !.failures = @ + 1]

ReadWorks(m) == m \in Reached /\ UNCHANGED world
ReadFails(m) == (m \notin Reached /\ UNCHANGED world) \/ Fails

\* resolve_device(None): the saved selection, else the only mouse, else the
\* only one on a wire.
Resolvable ==
    LET onWire == {Owner(e) : e \in world.settled \cap Wired} \ {None}
    IN  IF store.chosen \in Listed THEN {store.chosen}
        ELSE IF Cardinality(Listed) = 1 THEN Listed
        ELSE IF Cardinality(onWire) = 1 THEN onWire ELSE {}

-----------------------------------------------------------------------------
(* Commands, UI events, and the plans of the operations on a mouse. *)

Cmd(kind) == [kind |-> kind, mouse |-> None, row |-> None]
OnMouse(kind, m) == [Cmd(kind) EXCEPT !.mouse = m]
OnRow(kind, m, e) == [kind |-> kind, mouse |-> m, row |-> e]

Coalescable(c) == c.kind \in {"Refresh", "AutoRefresh"}

UiEvent(t) == [t |-> t, m |-> None]
EventOf(t, m) == [t |-> t, m |-> m]
Emit(list) == inbox' = inbox \o list

\* An operation: the event a failed call emits, whether it announces itself,
\* drops the subscription and holds a new one at the end, reloads after a
\* failed call as well, and clears the context when the reload fails.
Plan(failed, busy, drops, insists, clears) ==
    [failed |-> failed, busy |-> busy, drops |-> drops, insists |-> insists, clears |-> clears]

SelectProfile == Plan("Error", TRUE, FALSE, FALSE, FALSE)
Apply == Plan("Error", TRUE, TRUE, TRUE, FALSE)
Discard == Plan("Error", TRUE, FALSE, TRUE, FALSE)
AddProfile == Plan("Error", TRUE, FALSE, FALSE, FALSE)
RenameProfile == Plan("OperationError", FALSE, FALSE, FALSE, FALSE)
HideProfile == Plan("Error", TRUE, FALSE, FALSE, FALSE)
RefreshAllProfiles == Plan("OperationError", FALSE, FALSE, FALSE, TRUE)
InvalidateState == Plan("OperationError", FALSE, FALSE, FALSE, FALSE)
VerifyProfile == Plan("Error", TRUE, FALSE, FALSE, FALSE)
VerifyPowerCycle == Plan("Error", TRUE, TRUE, FALSE, FALSE)

Plans == [SelectProfile |-> SelectProfile, Apply |-> Apply, Discard |-> Discard,
          AddProfile |-> AddProfile, RenameProfile |-> RenameProfile,
          HideProfile |-> HideProfile, RefreshAllProfiles |-> RefreshAllProfiles,
          InvalidateState |-> InvalidateState, VerifyProfile |-> VerifyProfile,
          VerifyPowerCycle |-> VerifyPowerCycle]

ASSUME GuiAssumption ==
    /\ Cardinality(Mice) >= 2 /\ Mice \cap Strangers = {} /\ None \notin Endpoints
    /\ First \in Mice /\ Wired \subseteq Endpoints /\ Radio \subseteq Mice \ Wired
    /\ Starts \subseteq [plugged : SUBSET Endpoints, marked : SUBSET Strangers,
                           chosen : Mice \cup {None}, watcher : BOOLEAN,
                           acts : Nat, changes : Nat, failures : Nat]
    /\ Operations \subseteq DOMAIN Plans

\* Commands that change the profile list are refused over BLE and at the ends
\* of the list: the handler answers OperationError and calls nothing.
Refusable == {"AddProfile", "RenameProfile", "HideProfile", "VerifyProfile", "VerifyPowerCycle"}

-----------------------------------------------------------------------------
(* Pieces the handlers share. *)

NoEvents == [at |-> None, q |-> <<>>, lost |-> FALSE]
\* A session at an endpoint where the mouse answers.
SessionsOf(m) == {[NoEvents EXCEPT !.at = e] : e \in {d \in world.settled \ world.off : Holder(d) = m}}

Done(v) == [v EXCEPT !.pc = "Idle", !.cmd = None]
Then(v, c) == [Done(v) EXCEPT !.pending = c]

\* clear_loaded_context.
Cleared(v) == [v EXCEPT !.loaded = None, !.sub = None]
ClearContext(v) == w' = Cleared(v) /\ events' = NoEvents

\* Faulty variant: the old subscription is kept when there is no new one.
HoldLoosely(v, m) ==
    \/ w' = [v EXCEPT !.loaded = m, !.sub = m] /\ events' \in SessionsOf(m) /\ UNCHANGED world
    \/ w' = [v EXCEPT !.loaded = m] /\ Fails /\ UNCHANGED events

\* subscribe_and_hold: the events of m from now on, or silently none.
Hold(v, m) ==
    \/ w' = [v EXCEPT !.loaded = m, !.sub = m] /\ events' \in SessionsOf(m) /\ UNCHANGED world
    \/ w' = [v EXCEPT !.loaded = m, !.sub = None] /\ events' = NoEvents /\ Fails

\* The handler ends with one event and changes nothing else.
Answer(v, list) ==
    w' = Done(v) /\ Emit(list) /\ UNCHANGED <<world, store, topo, cmds, ui, events>>

Doing(kinds) == w.pc = "Do" /\ w.cmd.kind \in kinds

-----------------------------------------------------------------------------
(* The worker loop: the biased select. *)

Busying == {"Refresh", "AutoRefresh", "BeginCeremony", "Reconnected"}
           \cup {k \in DOMAIN Plans : Plans[k].busy}

\* The handler of c begins with Busy: it finds what it needs.  The row of a
\* BeginCeremony is its place in the worker's latest list.
Announces(c) ==
    /\ c.kind \in Busying
    /\ w.manager \/ Coalescable(c)
    /\ c.kind \in DOMAIN Plans => w.loaded # None
    /\ c.kind = "BeginCeremony" => c.row = None \/ c.row \in DOMAIN w.rows

\* The command put aside comes before the queue.
Take ==
    /\ w.pc = "Idle" /\ (w.pending # None \/ cmds # <<>>)
    /\ LET c == IF w.pending # None THEN w.pending ELSE Head(cmds)
       IN  /\ w' = [w EXCEPT !.pc = "Do", !.cmd = c, !.pending = None, !.swallowed = FALSE]
           /\ cmds' = IF w.pending # None THEN cmds ELSE Tail(cmds)
           /\ Emit(IF Announces(c) THEN <<UiEvent("Busy")>> ELSE <<>>)
    /\ UNCHANGED <<world, store, topo, ui, events>>

\* Faulty variant: any ready arm of the select may be taken.
FreeAnyArm == w.pc = "Idle"

\* No command waits: the later arms of the select are polled.
Free == w.pc = "Idle" /\ w.pending = None /\ cmds = <<>>

\* An event of the subscribed mouse: handle_device_event.
TakeEvent ==
    /\ Free /\ events.q # <<>>
    /\ LET kind == Head(events.q)
           rest == [events EXCEPT !.q = Tail(@)]
       IN  \/ /\ kind = "Off" /\ events' = rest
              /\ w' = IF w.loaded = None THEN w ELSE [w EXCEPT !.loaded = None, !.sel = None]
              /\ Emit(IF w.loaded = None THEN <<>> ELSE <<UiEvent("Error")>>)
           \/ /\ kind = "On" /\ events' = rest
              /\ w' = [w EXCEPT !.pending = Cmd("AutoRefresh")] /\ Emit(<<>>)
           \/ /\ kind = "Closed"
              /\ ClearContext(IF w.loaded = None THEN w ELSE [w EXCEPT !.sel = None])
              /\ Emit(IF w.loaded = None THEN <<>> ELSE <<UiEvent("Error")>>)
           \/ /\ kind = "Changed" /\ events' = rest
              /\ w' = IF w.loaded = None THEN w ELSE [w EXCEPT !.pc = "Event"]
              /\ Emit(<<>>)
    /\ UNCHANGED <<world, store, topo, cmds, ui>>

\* The mouse reports another profile or stage: the profile is read first.
FollowChange ==
    /\ w.pc = "Event"
    /\ \/ ReadWorks(w.loaded) /\ Emit(<<EventOf("EventSnapshot", w.loaded)>>)
       \/ ReadFails(w.loaded) /\ Emit(<<UiEvent("Error")>>)
    /\ w' = Done(w)
    /\ UNCHANGED <<store, topo, cmds, ui, events>>

\* Faulty variant: a mouse that leaves needs no refresh.
ArrivalDeadline(change) == IF change = "Connected" THEN "Settled" ELSE topo.deadline

TopologyDeadline(change) == IF change = "Connected" THEN "Settled" ELSE "Now"

TakeTopology ==
    /\ Free /\ events.q = <<>> /\ topo.queue # <<>>
    /\ topo' = [topo EXCEPT !.queue = Tail(@), !.deadline = TopologyDeadline(Head(topo.queue))]
    /\ UNCHANGED <<world, store, cmds, ui, inbox, events, w>>

\* HOTPLUG_SETTLE_DELAY is taken to outlast the enumeration of a mouse.
Deadline ==
    /\ Free /\ events.q = <<>> /\ topo.queue = <<>>
    /\ \/ topo.deadline = "Now"
       \/ topo.deadline = "Settled" /\ world.plugged = world.settled
    /\ topo' = [topo EXCEPT !.deadline = None]
    /\ w' = [w EXCEPT !.pending = Cmd("AutoRefresh")]
    /\ UNCHANGED <<world, store, cmds, ui, inbox, events>>

\* Every two seconds, where there is no watcher.
Poll ==
    /\ Free /\ events.q = <<>> /\ ~topo.watch /\ w.manager /\ Topology # w.visible
    /\ w' = [w EXCEPT !.visible = Topology, !.pending = Cmd("AutoRefresh")]
    /\ UNCHANGED <<world, store, topo, cmds, ui, inbox, events>>

-----------------------------------------------------------------------------
(* Refresh and its kin. *)

Asked(list) == IF list = <<>> THEN <<>> ELSE <<UiEvent("Ask")>>
Noticed(list) == IF list = <<>> THEN <<>> ELSE <<UiEvent("AutoAttached")>>

\* ceremony_view: the step the popup asks for.  None closes it.
Prompt(journal) == IF journal = None THEN None ELSE IF journal.subject = None THEN "Reconnected" ELSE "Stamp"
Progress == EventOf("CeremonyProgress", Prompt(store.journal'))

\* Faulty variant: a ceremony in progress is not shown again.
ResumedQuietly == <<>>

\* emit_current_ceremony.
Resumed == IF store.journal = None THEN <<>> ELSE <<EventOf("CeremonyProgress", Prompt(store.journal))>>


Subscribed == [topo EXCEPT !.watch = topo.available]

\* Open the manager, subscribe to the watcher, and scan: the first two may
\* fail, and the last.
Discover ==
    /\ Doing({"Refresh", "AutoRefresh"})
    /\ \/ /\ Fails /\ Emit(<<UiEvent("Error")>>) /\ UNCHANGED <<store, topo>>
          /\ ClearContext([w EXCEPT !.pc = "Coalesce", !.manager = FALSE, !.sel = None])
       \/ /\ Fails /\ Emit(<<UiEvent("Error")>>) /\ topo' = Subscribed /\ UNCHANGED store
          /\ ClearContext([w EXCEPT !.pc = "Coalesce", !.manager = TRUE, !.rows = <<>>, !.visible = {}])
       \/ /\ topo' = Subscribed
          /\ \/ /\ store' = Attached /\ UNCHANGED world
                /\ Emit(Noticed(Recalled) \o Asked(PendingEndpoints) \o Resumed)
             \/ /\ Recalled # <<>> /\ Fails /\ UNCHANGED store
                /\ Emit(Asked(PendingEndpoints) \o Resumed)
          /\ w' = [w EXCEPT !.pc = "Load", !.manager = TRUE, !.visible = Topology,
                            !.rows = Unassociated, !.asks = PendingEndpoints,
                            !.hint = IF store.journal = None THEN @ ELSE None]
          /\ UNCHANGED events
    /\ UNCHANGED <<cmds, ui>>

\* Resolve one mouse without guessing, select it, read it, and hold its events.
Load ==
    /\ w.pc = "Load"
    /\ LET v == [w EXCEPT !.pc = "Coalesce"]
           snapshot == IF w.cmd.kind = "AutoRefresh" THEN "EventSnapshot" ELSE "Snapshot"
       IN  \/ \E m \in Resolvable \cap Reached :
                 /\ Hold([v EXCEPT !.sel = m], m) /\ Emit(<<EventOf(snapshot, m)>>)
                 /\ store' = [store EXCEPT !.chosen = m]
           \/ \E m \in Resolvable :
                 /\ ReadFails(m) /\ ClearContext([v EXCEPT !.sel = m]) /\ Emit(<<UiEvent("Error")>>)
                 /\ store' = [store EXCEPT !.chosen = m]
           \/ /\ Resolvable = {} /\ ClearContext(v) /\ Emit(<<UiEvent("Error")>>)
              /\ UNCHANGED <<world, store>>
    /\ UNCHANGED <<topo, cmds, ui>>

\* The refreshes queued behind a refresh are dropped, and the first other
\* command is put aside.  A refresh of the user that is dropped here was sent
\* after the window had the answer, or is answered by it.
Coalesce ==
    /\ w.pc = "Coalesce"
    /\ LET rest == SelectInSeq(cmds, LAMBDA c : ~Coalescable(c))
       IN  /\ cmds' = IF rest = 0 THEN <<>> ELSE SubSeq(cmds, rest + 1, Len(cmds))
           /\ w' = [Then(w, IF rest = 0 THEN None ELSE cmds[rest])
                       EXCEPT !.swallowed = (cmds # <<>> /\ rest # 1)]
    /\ UNCHANGED <<world, store, topo, ui, inbox, events>>

SelectDevice ==
    /\ Doing({"SelectDevice"})
    /\ LET m == w.cmd.mouse
           v == [Done(w) EXCEPT !.sel = m]
       IN  \/ ~w.manager /\ Answer(w, <<UiEvent("Error")>>)
           \/ w.manager /\ Fails /\ w' = Done(w) /\ Emit(<<UiEvent("OperationError")>>)
              /\ UNCHANGED <<store, topo, cmds, ui, events>>
           \/ /\ w.manager /\ store' = [store EXCEPT !.chosen = m]
              /\ \/ /\ m \notin Listed
                    /\ w' = v /\ Emit(<<UiEvent("OperationError")>>) /\ UNCHANGED <<world, events>>
                 \/ m \in Reached /\ Hold(v, m) /\ Emit(<<EventOf("Snapshot", m)>>)
                 \/ /\ m \in Listed /\ ReadFails(m)
                    /\ ClearContext(v) /\ Emit(<<UiEvent("OperationError")>>)
              /\ UNCHANGED <<topo, cmds, ui>>

-----------------------------------------------------------------------------
(* Operations on the loaded mouse. *)

Refused ==
    /\ Doing(DOMAIN Plans)
    /\ \/ (~w.manager \/ w.loaded = None) /\ Answer(w, <<UiEvent("Error")>>)
       \/ w.manager /\ w.loaded # None /\ w.cmd.kind \in Refusable /\ Answer(w, <<UiEvent("OperationError")>>)

\* The operation itself; a profile to reload is left in v.loaded.
Call ==
    /\ Doing(DOMAIN Plans) /\ w.manager /\ w.loaded # None
    /\ LET plan == Plans[w.cmd.kind]
           v == IF plan.drops THEN [w EXCEPT !.sub = None] ELSE w
       IN  /\ events' = IF plan.drops THEN NoEvents ELSE events
           /\ \/ w' = [v EXCEPT !.pc = "Reload"] /\ UNCHANGED <<world, inbox>>
              \/ /\ ~plan.insists /\ ReadFails(w.loaded)
                 /\ w' = Done(v) /\ Emit(<<UiEvent(plan.failed)>>)
    /\ UNCHANGED <<store, topo, cmds, ui>>

Reload ==
    /\ w.pc = "Reload"
    /\ LET plan == Plans[w.cmd.kind]
       IN  \/ /\ w.loaded \in Reached /\ Emit(<<EventOf("Snapshot", w.loaded)>>)
              /\ IF plan.drops THEN Hold(Done(w), w.loaded) ELSE w' = Done(w) /\ UNCHANGED <<world, events>>
           \/ /\ ReadFails(w.loaded) /\ Emit(<<UiEvent("Error")>>)
              /\ IF plan.clears THEN ClearContext(Done(w)) ELSE w' = Done(w) /\ UNCHANGED events
    /\ UNCHANGED <<store, topo, cmds, ui>>

\* Imports into the selected mouse, which need not be the loaded one.
Import ==
    /\ Doing({"Import"})
    /\ \/ ~w.manager /\ Answer(w, <<UiEvent("Error")>>)
       \/ w.manager /\ Answer(w, <<UiEvent("OperationError")>>)
       \/ /\ w.manager /\ w.sel # None /\ w.sel = w.loaded
          /\ \/ ReadWorks(w.loaded) /\ Emit(<<EventOf("Snapshot", w.loaded)>>)
             \/ ReadFails(w.loaded) /\ Emit(<<UiEvent("Error")>>)
          /\ w' = Done(w) /\ UNCHANGED <<store, topo, cmds, ui, events>>

Export ==
    Doing({"Export"}) /\ Answer(w, <<UiEvent(IF w.manager THEN "OperationError" ELSE "Error")>>)

-----------------------------------------------------------------------------
(* Answers about unassociated endpoints, and ceremonies. *)

\* The popup always answers for the first endpoint of the latest list.
DecidePendingEndpoint ==
    /\ Doing({"DecidePendingEndpoint"})
    /\ IF w.asks = <<>> THEN Answer(w, <<UiEvent("OperationError")>>)
       ELSE /\ w' = Then(w, OnRow("DecideEndpoint", w.cmd.mouse, Head(w.asks)))
            /\ UNCHANGED <<world, store, topo, cmds, ui, inbox, events>>

\* Attach the endpoint to a saved mouse, or begin a ceremony: a marked mouse
\* is never attached to a saved one.
DecideEndpoint ==
    /\ Doing({"DecideEndpoint"})
    /\ LET m == w.cmd.mouse
           e == w.cmd.row
       IN  IF ~w.manager THEN Answer(w, <<UiEvent("Error")>>)
           ELSE IF m # None /\ e \notin world.marked
           THEN \/ /\ store' = [store EXCEPT !.map[e] = m]
                   /\ Emit(<<UiEvent("AutoAttached")>>) /\ w' = Then(w, Cmd("Refresh"))
                   /\ UNCHANGED <<world, topo, cmds, ui, events>>
                \/ /\ Fails /\ w' = Done(w) /\ Emit(<<UiEvent("OperationError")>>)
                   /\ UNCHANGED <<store, topo, cmds, ui, events>>
           ELSE IF e \in ToSet(w.rows)
           THEN /\ \E i \in DOMAIN w.rows :
                      w.rows[i] = e /\ w' = Then(w, OnRow("BeginCeremony", None, i))
                /\ UNCHANGED <<world, store, topo, cmds, ui, inbox, events>>
           ELSE Answer(w, <<UiEvent("OperationError")>>)

\* A ceremony of another command, or one left behind, is resumed instead.
BeginCeremony ==
    /\ Doing({"BeginCeremony"})
    /\ LET i == w.cmd.row
           listed == i = None \/ i \in DOMAIN w.rows
           e == IF i = None THEN None ELSE w.rows[i]
       IN  \/ ~w.manager /\ Answer(w, <<UiEvent("Error")>>)
           \/ w.manager /\ ~listed /\ Answer(w, <<UiEvent("CeremonyError")>>)
           \/ /\ w.manager /\ listed /\ store.journal = None
              /\ store' = [store EXCEPT !.journal = [adopts |-> Adopts(e), subject |-> None]]
              /\ w' = [Done(w) EXCEPT !.hint = IF e = None THEN @ ELSE e]
              /\ Emit(<<Progress>>) /\ UNCHANGED <<world, topo, cmds, ui, events>>
           \/ /\ w.manager /\ listed /\ store.journal # None
              /\ w' = [Done(w) EXCEPT !.hint = None] /\ Emit(Resumed)
              /\ UNCHANGED <<world, store, topo, cmds, ui, events>>
           \/ /\ w.manager /\ listed /\ Fails
              /\ w' = [Done(w) EXCEPT !.hint = None] /\ Emit(<<UiEvent("CeremonyError")>>)
              /\ UNCHANGED <<store, topo, cmds, ui, events>>

\* matches_kind: adoption takes marked endpoints, the others unmarked ones.
Eligible(list) == SelectSeq(list, LAMBDA e : store.journal # None
                                             /\ Adopts(e) = store.journal.adopts)

\* presented_endpoint: the hinted endpoint if it is eligible, else the first.
Presented(list) ==
    IF Eligible(list) = <<>> THEN None
    ELSE IF w.hint \in ToSet(Eligible(list)) THEN w.hint ELSE Head(Eligible(list))

\* CeremonyAction Reconnected: scan, and capture the endpoint presented.
Reconnected ==
    /\ Doing({"Reconnected"}) /\ w.manager
    /\ \/ /\ Fails /\ w' = Done(w) /\ Emit(<<UiEvent("CeremonyError")>>)
          /\ UNCHANGED <<store, topo, cmds, ui, events>>
       \/ LET e == Presented(Unassociated)
              captures == e # None /\ store.journal.subject = None
          IN  /\ store' = IF captures THEN [store EXCEPT !.journal.subject = e] ELSE store
              /\ w' = [Done(w) EXCEPT !.rows = Unassociated, !.hint = IF captures THEN None ELSE @]
              /\ Emit(<<IF captures THEN Progress ELSE UiEvent("CeremonyError")>>)
              /\ UNCHANGED <<world, topo, cmds, ui, events>>

\* CeremonyAction Stamp or Adopt, and Cancel: the last calls of a ceremony.
Conclude ==
    /\ Doing({"Stamp", "Cancel"}) /\ w.manager
    /\ LET j == store.journal
           stamps == w.cmd.kind = "Stamp"
           works == j # None /\ (stamps => j.subject # None /\ j.subject \in world.settled)
       IN  \/ /\ works
              /\ store' = [store EXCEPT !.journal = None,
                                        !.owner = IF stamps THEN [@ EXCEPT ![j.subject] = j.subject] ELSE @]
              /\ w' = [w EXCEPT !.pc = "Finish", !.hint = None]
              /\ UNCHANGED <<world, inbox>>
           \/ /\ IF works THEN Fails ELSE UNCHANGED world
              /\ w' = Done(w) /\ Emit(<<UiEvent("CeremonyError")>>) /\ UNCHANGED store
    /\ UNCHANGED <<topo, cmds, ui, events>>

NoManager ==
    Doing({"Reconnected", "Stamp", "Cancel"}) /\ ~w.manager /\ Answer(w, <<UiEvent("Error")>>)

\* handle_ceremony_progress after the last call: scan and reload.
Finish ==
    /\ w.pc = "Finish"
    /\ LET v == [Done(w) EXCEPT !.rows = Unassociated]
           progress == EventOf("CeremonyProgress", None)
       IN  \/ Fails /\ w' = Done(w) /\ Emit(<<progress>>) /\ UNCHANGED events
           \/ /\ w.loaded = None /\ w' = v /\ Emit(<<progress>>) /\ UNCHANGED <<world, events>>
           \/ /\ w.loaded # None /\ w.loaded \in Reached
              /\ Hold(v, w.loaded) /\ Emit(<<EventOf("Snapshot", w.loaded), progress>>)
           \/ /\ w.loaded # None /\ ReadFails(w.loaded)
              /\ w' = v /\ Emit(<<UiEvent("OperationError"), progress>>) /\ UNCHANGED events
    /\ UNCHANGED <<store, topo, cmds, ui>>

Worker ==
    \/ Take \/ TakeEvent \/ FollowChange \/ TakeTopology \/ Deadline \/ Poll
    \/ Discover \/ Load \/ Coalesce \/ SelectDevice
    \/ Refused \/ Call \/ Reload \/ Import \/ Export
    \/ DecidePendingEndpoint \/ DecideEndpoint
    \/ BeginCeremony \/ Reconnected \/ Conclude \/ NoManager \/ Finish

-----------------------------------------------------------------------------
(* The UI thread: the callbacks and apply_event. *)

\* queue_command: a full queue drops the command.
Queue(c) == cmds' = IF Len(cmds) < QueueSize THEN Append(cmds, c) ELSE cmds

Gives(c, busy) ==
    /\ ui.acts < MaxUser /\ Queue(c)
    /\ ui' = [ui EXCEPT !.acts = @ + 1, !.busy = busy]
    /\ UNCHANGED <<world, store, topo, inbox, events, w>>

Ready == ui.ready /\ ~ui.busy

Operates == \E k \in Operations \ {"Apply"} : Ready /\ Gives(Cmd(k), TRUE)

\* request_save, with the values of the window.
Saves == "Apply" \in Operations /\ Ready /\ Gives(Cmd("Apply"), TRUE)

SelectsDevice == \E m \in DevicesShown :
    ~ui.busy /\ Gives(OnMouse("SelectDevice", m), TRUE)

Refreshes == ~ui.busy /\ Gives(Cmd("Refresh"), TRUE)
Files == \E k \in {"Import", "Export"} : ~ui.busy /\ Gives(Cmd(k), TRUE)

\* The popup closes on the answer even if the window is busy.
Answers == \E m \in Mice \cup {None} :
    /\ ui.ask /\ ui.acts < MaxUser
    /\ IF ui.busy THEN ui' = [ui EXCEPT !.acts = @ + 1, !.ask = FALSE] /\ UNCHANGED cmds
       ELSE /\ ui' = [ui EXCEPT !.acts = @ + 1, !.ask = FALSE, !.busy = TRUE]
            /\ Queue(OnMouse("DecidePendingEndpoint", m))
    /\ UNCHANGED <<world, store, topo, inbox, events, w>>

\* The callbacks of ceremonies leave the window ready for the next click.
AddsMouse == ~ui.busy /\ ui.prompt = None /\ Gives(Cmd("BeginCeremony"), FALSE)

\* A row of the list shown, which need not be the worker's latest.
SetsUpRow == \E i \in DOMAIN Order :
    ~ui.busy /\ ui.prompt = None /\ Gives(OnRow("BeginCeremony", None, i), FALSE)

Ceremonies == \E k \in {ui.prompt, "Cancel"} :
    ~ui.busy /\ ui.prompt # None /\ Gives(Cmd(k), FALSE)

User ==
    \/ Operates \/ Saves \/ SelectsDevice \/ Refreshes \/ Files
    \/ Answers \/ AddsMouse \/ SetsUpRow \/ Ceremonies

\* clear_live_state.
ClearLive(u) == [u EXCEPT !.busy = FALSE, !.ready = FALSE]

\* Faulty variant: a window that is ready keeps its title.
ApplySnapshotOver(u, m) == [u EXCEPT !.busy = FALSE, !.ready = TRUE, !.shown = IF u.ready THEN @ ELSE m]

ApplySnapshot(u, m) == [u EXCEPT !.busy = FALSE, !.ready = TRUE, !.shown = m]

Applied(u, e) ==
    CASE e.t = "Busy" -> [u EXCEPT !.busy = TRUE]
      [] e.t = "Error" -> ClearLive(u)
      [] e.t \in {"OperationError", "AutoAttached", "CeremonyError"} -> [u EXCEPT !.busy = FALSE]
      [] e.t = "Ask" -> [u EXCEPT !.busy = FALSE, !.ask = TRUE]
      [] e.t = "CeremonyProgress" -> [u EXCEPT !.busy = FALSE, !.prompt = e.m]
      [] e.t \in {"Snapshot", "EventSnapshot"} -> ApplySnapshot(u, e.m)

ApplyEvent ==
    /\ inbox # <<>> /\ inbox' = Tail(inbox) /\ ui' = Applied(ui, Head(inbox))
    /\ UNCHANGED <<world, store, topo, cmds, events, w>>

-----------------------------------------------------------------------------
(* The mice. *)

Changes == world.changes < MaxWorld
\* The watcher is that of the operating system for USB.
Heard(e, change) ==
    IF topo.watch /\ e \notin Radio THEN [topo EXCEPT !.queue = Append(@, change)] ELSE topo

Plug(e) ==
    /\ Changes /\ e \notin world.plugged
    /\ world' = [world EXCEPT !.plugged = @ \cup {e}, !.changes = @ + 1]
    /\ topo' = Heard(e, "Connected")
    /\ UNCHANGED <<store, cmds, ui, inbox, events, w>>

Settle(e) ==
    /\ e \in world.plugged \ world.settled
    /\ world' = [world EXCEPT !.settled = @ \cup {e}]
    /\ UNCHANGED <<store, topo, cmds, ui, inbox, events, w>>

Unplug(e) ==
    /\ Changes /\ e \in world.plugged
    /\ world' = [world EXCEPT !.plugged = @ \ {e}, !.settled = @ \ {e}, !.off = @ \ {e}, !.changes = @ + 1]
    /\ topo' = Heard(e, "Disconnected")
    /\ events' = IF events.at = e /\ e \notin Radio THEN [events EXCEPT !.lost = TRUE] ELSE events
    /\ UNCHANGED <<store, cmds, ui, inbox, w>>

\* The driver's reader fails, and the stream of events ends.  A session over
\* Bluetooth has none.
LoseSession ==
    /\ events.lost /\ events' = [events EXCEPT !.q = Append(@, "Closed"), !.lost = FALSE]
    /\ UNCHANGED <<world, store, topo, cmds, ui, inbox, w>>

Pushed(e, kind) == IF events.at = e THEN [events EXCEPT !.q = Append(@, kind)] ELSE events

\* A mouse is switched off, or on again, behind its receiver.
Switch(e) ==
    /\ Changes \/ e \in world.off
    /\ e \in world.settled \ Radio /\ Holder(e) # None
    /\ world' = IF e \in world.off THEN [world EXCEPT !.off = @ \ {e}]
                ELSE [world EXCEPT !.off = @ \cup {e}, !.changes = @ + 1]
    /\ events' = Pushed(e, IF e \in world.off THEN "On" ELSE "Off")
    /\ UNCHANGED <<store, topo, cmds, ui, inbox, w>>

\* The user presses the profile or DPI button of a mouse on USB.
Press(e) ==
    /\ Changes /\ e \in world.settled \ (world.off \cup Radio) /\ Holder(e) # None
    /\ world' = [world EXCEPT !.changes = @ + 1]
    /\ events' = Pushed(e, "Changed")
    /\ UNCHANGED <<store, topo, cmds, ui, inbox, w>>

World == (\E e \in Endpoints : Plug(e) \/ Settle(e) \/ Unplug(e) \/ Switch(e) \/ Press(e)) \/ LoseSession

-----------------------------------------------------------------------------

GuiInit ==
    /\ \E s \in Starts :
          /\ world = [plugged |-> s.plugged, settled |-> s.plugged, off |-> {},
                       marked |-> s.marked, changes |-> s.changes, failures |-> s.failures]
          /\ store = [chosen |-> s.chosen, owner |-> [e \in Strangers |-> None],
                       map |-> [e \in Strangers |-> None], journal |-> None]
          /\ topo = [available |-> s.watcher, watch |-> FALSE, queue |-> <<>>, deadline |-> None]
          /\ ui = [busy |-> TRUE, ready |-> FALSE, shown |-> None, ask |-> FALSE,
                   prompt |-> None, acts |-> s.acts]
    /\ cmds = <<Cmd("Refresh")>> /\ inbox = <<>> /\ events = NoEvents
    /\ w = [pc |-> "Idle", cmd |-> None, manager |-> FALSE, loaded |-> None, sub |-> None, sel |-> None,
            pending |-> None, asks |-> <<>>, rows |-> <<>>, hint |-> None, visible |-> {}, swallowed |-> FALSE]

GuiNext == Worker \/ User \/ ApplyEvent \/ World

Fairness ==
    /\ WF_guiVars(Worker) /\ WF_guiVars(ApplyEvent) /\ WF_guiVars(LoseSession)
    /\ \A e \in Endpoints : WF_guiVars(Settle(e))

GuiSpec == GuiInit /\ [][GuiNext]_guiVars /\ Fairness

-----------------------------------------------------------------------------
(* Properties. *)

Kinds == {"Refresh", "AutoRefresh", "SelectDevice", "Import", "Export", "DecidePendingEndpoint",
          "DecideEndpoint", "BeginCeremony", "Reconnected", "Stamp", "Cancel"} \cup DOMAIN Plans
Commands == [kind : Kinds, mouse : Mice \cup {None}, row : Strangers \cup {None} \cup DOMAIN Order]
Owned == Endpoints \cup {None}

\* Types: every command is one the worker handles, and the queue keeps its bound.
GuiTypes ==
    /\ ToSet(cmds) \subseteq Commands /\ Len(cmds) <= QueueSize
    /\ {w.cmd, w.pending} \subseteq Commands \cup {None}
    /\ {w.loaded, w.sub, w.sel, ui.shown, store.chosen} \subseteq Owned
    /\ store.owner \in [Strangers -> Owned] /\ store.map \in [Strangers -> Mice \cup {None}]
    /\ world.settled \subseteq world.plugged /\ world.off \subseteq world.settled
    /\ ToSet(w.asks) \cup ToSet(w.rows) \subseteq Strangers

\* The worker never follows the events of another mouse than the one it has
\* loaded: the loaded mouse, its receiver and its subscription go together
\* through switches, reloads, disconnects and the failures of each.
EventsOfLoaded == w.loaded # None /\ w.sub # None => w.sub = w.loaded

\* When the worker rests and the window has shown everything, a window that is
\* ready names the loaded mouse: what the user changes is what is written.
WindowNamesLoaded ==
    w.pc = "Idle" /\ inbox = <<>> /\ ui.ready /\ w.loaded # None => ui.shown = w.loaded

\* The one command the worker can put aside is never overwritten, by a refresh
\* that an event, the watcher, a deadline or the poll asks for, nor by another
\* command: it leaves its place only by being carried out.
PendingTaken ==
    [][w.pending # None => w'.pending = w.pending \/ (w'.pending = None /\ w'.cmd = w.pending)]_guiVars

\* The window does not stay busy for ever: every command ends in an event that
\* releases it, whatever fails.  The exception is a Refresh sent in the moment
\* between the answer to another refresh and the coalescing that drops it.
BusyEnds == ui.busy ~> (~ui.busy \/ w.swallowed)

\* A loaded mouse that is gone does not stay loaded, whether or not the worker
\* could subscribe to its events.  With a watcher that holds of a mouse on USB:
\* the watcher is of nothing else (worker.rs:1601), the poll is off (worker.rs:
\* 1582), and a session over Bluetooth has no events to end (backend.rs:46).
\* Without one it holds of a mouse that the last scan or poll has seen: the poll
\* cannot tell that one came and went between two of its ticks.
Stale == w.loaded # None /\ w.loaded \notin HoldersOf(world.settled)
Observed == IF topo.watch THEN w.loaded \notin Radio ELSE w.loaded \in DevicesShown
GoneIsNoticed == (Stale /\ Observed) ~> ~Stale

=============================================================================
