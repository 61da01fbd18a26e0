-------------------------------- MODULE Attachment --------------------------------
(***************************************************************************)
(* Discovery and attachment of the manager: which saved mouse a connected   *)
(* endpoint is taken for, and which mouse an operation then reaches.  A     *)
(* scan lists the endpoints, reads the mark of each USB endpoint it has no  *)
(* cached mark of, resolves every connection, attaches a single unknown     *)
(* one, and saves the endpoints of the mice it found.  Mice are plugged and *)
(* unplugged between any two of these steps, and another process, with a    *)
(* cache of its own, changes the same state.json.                           *)
(*                                                                          *)
(* A mark is a token, None (no watermark), or Invalid, which stands for     *)
(* malformed marks, unknown versions and the all-zero token: the code       *)
(* treats the three alike, but for the reason it shows.                     *)
(***************************************************************************)
EXTENDS Naturals, Sequences, FiniteSets, FiniteSetsExt, Option

CONSTANTS
    Process,     \* each with a manager and its cache
    Unit, Token,
    Port,        \* USB ports and receivers
    Radio,       \* BLE platform ids
    Kind,        \* the transport of each of them
    Descriptor,       \* the VID, PID and serial number a mouse shows at a port
    Marks,       \* the marks the mice may carry at first
    Saved,       \* the mice that may be saved at first: sequences of their tokens
    Scans,       \* the scans in use: the transport selection, and what for: None,
                 \* or a device to open (Anyone: the user names none)
    MaxChanges, MaxDevices  \* bounds: mice plugged and ceremonies begun; device ids

Transports == <<"Wired", "Receiver", "Ble">>     \* in the order of TransportKind
AllKinds == {"Wired", "Receiver", "Ble"}
Place == Port \cup Radio
Invalid == "Invalid"
Anyone == 0                    \* device ids begin at 1

ASSUME KindAssumption ==
    /\ Kind \in [Place -> AllKinds]
    /\ \A e \in Place : (e \in Radio) = (Kind[e] = "Ble")
    /\ Port \cap Radio = {}

ASSUME MarkAssumption ==
    /\ None \notin Token /\ Invalid \notin Token
    /\ None \notin [unit : Unit, mark : Token \cup {None, Invalid}]
    /\ None \notin [at : Place, print : Radio \cup {Descriptor[u] : u \in Unit}]
    /\ Marks \subseteq [Unit -> Token \cup {None, Invalid}]

ASSUME SavedAssumption ==
    \A name \in Saved : /\ name \in Seq(Token)
                        /\ \A i, j \in DOMAIN name : name[i] = name[j] => i = j

VARIABLES
    at,       \* the mouse at each port, or None
    near,     \* the radios in reach
    mark,     \* the mark of the current profile of each mouse
    st,       \* state.json: mode, devices, next id, selected device, endpoint mapping, journal
    cache,    \* per process: identity_cache
    view,     \* per process: the open endpoints of its last completed scan
    job,      \* per process: the call it is in
    changes,
    \* History, read by the properties only:
    learnt,   \* the mouse and mark a process last read at a port it has not seen empty since
    calm      \* per process: nothing was plugged, and no ceremony ran, since its scan began

attachmentVars == <<at, near, mark, st, cache, view, job, changes, learnt, calm>>
history == <<learnt, calm>>

Idle == [pc |-> "idle"]
Become(p, state) == job' = [job EXCEPT ![p] = state]
Usb(end) == end.at \in Port

-----------------------------------------------------------------------------
(* DeviceIdentity, and the gate of every commit. *)

NoEndpoints == [k \in AllKinds |-> None]
NewDevice(token, eps) == [token |-> token, eps |-> eps, pref |-> None, evidence |-> FALSE]

\* device_has_evidence: a desired or an observed value of any resource.
HasEvidence(s, d) == s.devices[d].evidence

\* selected_endpoint: the preferred transport, else wired, receiver, BLE.
SelectedEndpoint(device) ==
    IF device.pref # None /\ device.eps[device.pref] # None THEN device.eps[device.pref]
    ELSE LET present == {i \in DOMAIN Transports : device.eps[Transports[i]] # None}
         IN  IF present = {} THEN None ELSE device.eps[Transports[Min(present)]]

Valid(s) ==
    /\ s.selected = None \/ s.selected \in DOMAIN s.devices
    /\ \A f \in DOMAIN s.map : s.map[f] \in DOMAIN s.devices
    /\ \A d \in DOMAIN s.devices : d < s.next
    /\ IF s.mode = "Legacy"
       THEN Cardinality(DOMAIN s.devices) <= 1 /\ \A d \in DOMAIN s.devices : s.devices[d].token = None
       ELSE \A d, e \in DOMAIN s.devices :
               s.devices[d].token # None /\ (s.devices[d].token = s.devices[e].token => d = e)

Commit(s) == st' = IF Valid(s) THEN s ELSE st

AddDevice(s, device) ==
    [s EXCEPT !.devices = [d \in DOMAIN s.devices \cup {s.next} |->
                              IF d = s.next THEN device ELSE s.devices[d]],
              !.next = @ + 1]

-----------------------------------------------------------------------------
(* What is connected. *)

Endpoint(e) == [at |-> e, print |-> IF e \in Radio THEN e ELSE Descriptor[at[e]]]
Occupied(e) == IF e \in Radio THEN e \in near ELSE at[e] # None
Kinds(selection) == IF selection = "Auto" THEN AllKinds ELSE {selection}

UsbEndpoints(kinds) ==
    {[end |-> Endpoint(e), connected |-> TRUE] : e \in {f \in Port : Kind[f] \in kinds /\ at[f] # None}}

\* Paired radios are listed also when out of reach.
BleEndpoints(kinds) ==
    {[end |-> Endpoint(e), connected |-> e \in near] : e \in {f \in Radio : Kind[f] \in kinds}}

\* SessionFactory::list.
Listing(selection) == UsbEndpoints(Kinds(selection)) \cup BleEndpoints(Kinds(selection))

\* endpoint_fingerprint: no path, which a replug changes.
Fingerprint(end) == <<Kind[end.at], end.print>>

Cached(p, end) == end.at \in DOMAIN cache[p] /\ cache[p][end.at].end = end

Remember(p, end, seen) ==
    cache' = [cache EXCEPT ![p] = [e \in DOMAIN @ \cup {end.at} |->
                                      IF e = end.at THEN [end |-> end, seen |-> seen] ELSE @[e]]]

Learn(p, e) == learnt' = [learnt EXCEPT ![p][e] = [unit |-> at[e], mark |-> mark[at[e]]]]

-----------------------------------------------------------------------------
(* resolve_connection, resolve_valid_token and mark_scan_duplicates *)

Owners(s, token) == {d \in DOMAIN s.devices : s.devices[d].token = token}
Unresolved(why) == [why |-> why, device |-> None]
Resolved(d) == [why |-> "Resolved", device |-> d]

ResolveValidToken(s, token) ==
    CASE s.setup # None /\ s.setup.token = token -> Unresolved("ReservedByJournal")
      [] OTHER -> CASE Owners(s, token) = {} -> Unresolved("Unknown")
                    [] Cardinality(Owners(s, token)) = 1 -> Resolved(Min(Owners(s, token)))
                    [] OTHER -> Unresolved("Duplicate")

ResolveConnection(s, end, seen) ==
    IF s.mode = "Legacy" /\ s.devices # <<>> THEN Resolved(Min(DOMAIN s.devices))
    ELSE IF Usb(end)
    THEN CASE seen = None -> Unresolved("Absent")
           [] seen = Invalid -> Unresolved("Malformed")
           [] OTHER -> ResolveValidToken(s, seen)
    ELSE LET known == {d \in DOMAIN s.devices : s.devices[d].eps["Ble"] = end}
         IN  IF known = {} THEN Unresolved("Absent") ELSE Resolved(Min(known))

\* Two connections of one transport with the same unknown token.
MarkScanDuplicates(rows) ==
    {IF row.why = "Unknown" /\ \E r \in rows : /\ r # row /\ r.why = "Unknown" /\ r.seen = row.seen
                                               /\ Kind[r.end.at] = Kind[row.end.at]
     THEN [row EXCEPT !.why = "Duplicate"] ELSE row : row \in rows}

ResolutionCandidates(s) == {[device |-> d, stored |-> HasEvidence(s, d)] : d \in DOMAIN s.devices}

\* resolve_endpoint (its fingerprint_known is FALSE in the manager): the one
\* saved mouse is attached in silence, but over BLE only if something is stored
\* about it.
SilentCandidate(s, transport, unknown) ==
    LET silent == {c \in ResolutionCandidates(s) : transport = "Ble" => c.stored}
    IN  IF unknown < 2 /\ Cardinality(DOMAIN s.devices) = 1 /\ silent # {}
        THEN Min(DOMAIN s.devices) ELSE None

\* remembered_device_in.
Remembered(s, end) ==
    IF Fingerprint(end) \in DOMAIN s.map /\ s.map[Fingerprint(end)] \in DOMAIN s.devices
    THEN s.map[Fingerprint(end)] ELSE None

\* Faulty variant: the token the endpoint presents is not looked at.
MappingAlwaysAgrees(s, row) == TRUE

\* remembered_mapping_agrees.
MappingAgrees(s, row) ==
    \/ row.why # "Unknown" \/ Remembered(s, row.end) = None
    \/ s.devices[Remembered(s, row.end)].token \in {None, row.seen}

\* The mouse an unknown row is attached to, or None.
ResolveConnectionDecision(s, row, unknown) ==
    IF Remembered(s, row.end) # None /\ MappingAgrees(s, row) THEN Remembered(s, row.end)
    ELSE SilentCandidate(s, Kind[row.end.at], unknown)

Open(row) == row.connected /\ row.why \in {"Absent", "Unknown"}

\* upsert_endpoint and remember_endpoint_mapping.
Attach(s, end, d) ==
    [s EXCEPT !.devices[d].eps[Kind[end.at]] = end,
              !.map = [f \in DOMAIN @ \cup {Fingerprint(end)} |->
                          IF f = Fingerprint(end) THEN d ELSE @[f]]]

-----------------------------------------------------------------------------
AttachmentTypes ==
    /\ at \in [Port -> Unit \cup {None}] /\ near \subseteq Radio
    /\ mark \in [Unit -> Token \cup {None, Invalid}]
    /\ Valid(st)
    /\ \A p \in Process :
          /\ job[p].pc \in {"idle", "ensure", "read", "attach", "remember", "sync", "pick", "opening", "ready"}
          /\ \A e \in DOMAIN cache[p] : e \in Port /\ cache[p][e].end.at = e
    /\ \A d \in DOMAIN st.devices, k \in AllKinds :
          st.devices[d].eps[k] # None => Kind[st.devices[d].eps[k].at] = k

AttachmentInit ==
    /\ at \in [Port -> Unit \cup {None}] /\ near = Radio
    /\ \A e, f \in Port : at[e] = at[f] /\ Kind[e] = Kind[f] /\ at[e] # None => e = f
    /\ mark \in Marks
    /\ \E name \in Saved :
          st = [mode |-> IF name = <<>> THEN "Legacy" ELSE "Persistent",
                devices |-> [d \in DOMAIN name |-> NewDevice(name[d], NoEndpoints)],
                next |-> Len(name) + 1, selected |-> None, map |-> <<>>, setup |-> None]
    /\ cache = [p \in Process |-> <<>>] /\ view = [p \in Process |-> {}]
    /\ job = [p \in Process |-> Idle]
    /\ changes = 0
    /\ learnt = [p \in Process |-> [e \in Port |-> None]] /\ calm = [p \in Process |-> FALSE]

-----------------------------------------------------------------------------
(* discover, for itself (want = None) or for resolve_device. *)

List(p, selection, want) ==
    /\ job[p] = Idle
    /\ Become(p, [pc |-> IF st.mode = "Legacy" THEN "ensure" ELSE "read",
                  selection |-> selection, want |-> want, list |-> Listing(selection)])
    /\ calm' = [calm EXCEPT ![p] = TRUE]
    /\ UNCHANGED <<at, near, mark, st, cache, view, changes, learnt>>

Resolve(p, s, known, next) ==
    LET seen(entry) == IF entry.connected /\ entry.end.at \in DOMAIN known
                          /\ known[entry.end.at].end = entry.end
                       THEN known[entry.end.at].seen ELSE None
        row(entry) == LET r == ResolveConnection(s, entry.end, seen(entry))
                      IN  [end |-> entry.end, connected |-> entry.connected, seen |-> seen(entry),
                           why |-> r.why, device |-> r.device]
    IN  Become(p, [pc |-> next, selection |-> job[p].selection, want |-> job[p].want,
                   rows |-> MarkScanDuplicates({row(entry) : entry \in job[p].list})])

\* ensure_legacy_mouse: in its own transaction, it looks for a device again.
Ensure(p) ==
    /\ job[p].pc = "ensure"
    /\ LET eps(k) == LET listed == {x.end : x \in {y \in job[p].list : Kind[y.end.at] = k}}
                     IN  IF listed = {} THEN None ELSE CHOOSE end \in listed : TRUE
           s == IF st.devices # <<>> \/ job[p].list = {} THEN st
                ELSE AddDevice(st, NewDevice(None, [k \in AllKinds |-> eps(k)]))
       IN  Commit(s) /\ Resolve(p, st', <<>>, "sync")
    /\ UNCHANGED <<at, near, mark, cache, view, changes, history>>

Unread(p) == {x.end : x \in {y \in job[p].list : Usb(y.end) /\ y.connected /\ ~Cached(p, y.end)}}

\* read_endpoint_identity: a mouse that is gone by now fails the scan.
ReadMark(p) ==
    /\ job[p].pc = "read"
    /\ \E end \in Unread(p) :
          IF at[end.at] = None
          THEN Become(p, Idle) /\ UNCHANGED <<cache, learnt>>
          ELSE Remember(p, end, mark[at[end.at]]) /\ Learn(p, end.at) /\ UNCHANGED job
    /\ UNCHANGED <<at, near, mark, st, view, changes, calm>>

\* Faulty variant: an endpoint that disappears stays in the cache.
EvictNothing(p) == cache[p]

\* Only what this scan has listed stays in the cache.
Evict(p) ==
    LET kept == {e \in DOMAIN cache[p] :
                    \E x \in job[p].list : x.connected /\ x.end = cache[p][e].end}
    IN  [e \in kept |-> cache[p][e]]

ResolveAll(p) ==
    /\ job[p].pc = "read" /\ Unread(p) = {}
    /\ cache' = [cache EXCEPT ![p] = Evict(p)]
    /\ Resolve(p, st, cache'[p], "attach")
    /\ learnt' = [learnt EXCEPT ![p] = [e \in Port |->
                  IF Kind[e] \in Kinds(job[p].selection) /\ \A x \in job[p].list : x.end.at # e
                  THEN None ELSE @[e]]]
    /\ UNCHANGED <<at, near, mark, st, view, changes, calm>>

\* auto_resolve_unknowns: more than one unknown connection is left to the user.
AutoAttach(p) ==
    /\ job[p].pc = "attach"
    /\ LET unknown == {row \in job[p].rows : Open(row)}
           silent == {[end |-> row.end,
                       device |-> ResolveConnectionDecision(st, row, Cardinality(unknown))] : row \in unknown}
           found == {x \in silent : x.device # None}
       IN  IF st.setup # None \/ Cardinality(unknown) # 1 \/ found = {}
           THEN Become(p, [job[p] EXCEPT !.pc = "sync"])
           ELSE \E x \in found :
                   Become(p, [pc |-> "remember", selection |-> job[p].selection, want |-> job[p].want,
                              rows |-> job[p].rows, end |-> x.end, device |-> x.device])
    /\ UNCHANGED <<at, near, mark, st, cache, view, changes, history>>

\* The attachment is saved, if the device still exists, and the open rows are
\* resolved by the mapping as it is then.
RememberAttachment(p) ==
    /\ job[p].pc = "remember"
    /\ Commit(IF job[p].device \in DOMAIN st.devices THEN Attach(st, job[p].end, job[p].device) ELSE st)
    /\ LET again(row) == IF row.why \in {"Absent", "Unknown"} /\ Remembered(st', row.end) # None
                            /\ MappingAgrees(st', row)
                         THEN [row EXCEPT !.why = "Resolved", !.device = Remembered(st', row.end)]
                         ELSE row
       IN  Become(p, [pc |-> "sync", selection |-> job[p].selection, want |-> job[p].want,
                      rows |-> {again(row) : row \in job[p].rows}])
    /\ UNCHANGED <<at, near, mark, cache, view, changes, history>>

\* Faulty variant: no endpoint is dropped.
SyncedKeepingAll(device, found, scanned) ==
    [device EXCEPT !.eps = [k \in AllKinds |->
        LET now == {row.end : row \in {r \in found : Kind[r.end.at] = k}}
        IN  IF now # {} THEN CHOOSE end \in now : TRUE ELSE device.eps[k]]]

\* sync_endpoint_associations: the USB endpoints of the scanned transports are
\* replaced, BLE ones only updated; a device no row resolves to keeps its own.
SyncedDevice(device, found, scanned) ==
    [device EXCEPT !.eps = [k \in AllKinds |->
        LET now == {row.end : row \in {r \in found : Kind[r.end.at] = k}}
        IN  IF now # {} THEN CHOOSE end \in now : TRUE
            ELSE IF k = "Ble" \/ k \notin scanned THEN device.eps[k] ELSE None]]

Sync(p) ==
    /\ job[p].pc = "sync"
    /\ LET found(d) == {row \in job[p].rows : row.device = d}
           synced(d) == SyncedDevice(st.devices[d], found(d), Kinds(job[p].selection))
       IN  Commit([st EXCEPT !.devices = [d \in DOMAIN st.devices |->
                                              IF found(d) = {} THEN @[d] ELSE synced(d)]])
    /\ view' = [view EXCEPT ![p] = {row.end : row \in {r \in job[p].rows : Open(r)}}]
    /\ Become(p, IF job[p].want = None THEN Idle
                 ELSE [pc |-> "pick", selection |-> job[p].selection, want |-> job[p].want,
                       rows |-> {r \in job[p].rows : r.connected /\ r.why = "Resolved"}])
    /\ UNCHANGED <<at, near, mark, cache, changes, history>>

-----------------------------------------------------------------------------
(* resolve_device and the commands on saved devices. *)

\* aggregate_discovered_devices, as far as resolve_device reads it.
Connected(p) == {d \in DOMAIN st.devices : \E row \in job[p].rows : row.device = d}
OnWire(p) == {d \in Connected(p) : \E row \in job[p].rows : row.device = d /\ Kind[row.end.at] = "Wired"}

\* The device named, else the selected one, else the only one connected, else
\* the only one on a wire; None is NoDevice, DeviceNotFound, ...
Choice(p, want) ==
    CASE want # Anyone -> IF want \in Connected(p) THEN want ELSE None
      [] st.selected \in Connected(p) -> st.selected
      [] Cardinality(Connected(p)) = 1 -> Min(Connected(p))
      [] Cardinality(OnWire(p)) = 1 -> Min(OnWire(p))
      [] OTHER -> None

\* An exact transport becomes the preferred one; a device that was not named is
\* selected. The caller then opens the device.
PickDevice(p) ==
    /\ job[p].pc = "pick"
    /\ LET d == Choice(p, job[p].want)
           preferred == IF job[p].selection = "Auto" THEN st
                        ELSE [st EXCEPT !.devices[d].pref = job[p].selection]
       IN  Commit(IF d = None THEN st
                  ELSE IF job[p].want = Anyone THEN [preferred EXCEPT !.selected = d] ELSE preferred)
    /\ Become(p, Idle)
    /\ UNCHANGED <<at, near, mark, cache, view, changes, history>>

SelectDevice(d) ==
    /\ Commit([st EXCEPT !.selected = d])
    /\ UNCHANGED <<at, near, mark, cache, view, job, changes, history>>

\* remember_resolution: the user answers a row of a view that may be old, or
\* the window attaches a remembered one (Gui).
RememberResolution(p, d) ==
    /\ job[p] = Idle
    /\ \E end \in view[p] : Commit(Attach(st, end, d))
    /\ UNCHANGED <<at, near, mark, cache, view, job, changes, history>>

WithoutDevice(s, d) == [s EXCEPT !.devices = [e \in DOMAIN @ \ {d} |-> @[e]],
                                 !.selected = IF @ = d THEN None ELSE @]

\* The mapping keeps the device it names: the gate then refuses the commit.
ForgetDevice(d, force) ==
    /\ st.next <= MaxDevices
    /\ HasEvidence(st, d) => force
    /\ Commit(WithoutDevice(st, d))
    /\ UNCHANGED <<at, near, mark, cache, view, job, changes, history>>

-----------------------------------------------------------------------------
(* open_locked *)

Blocked(d) == st.setup # None /\ st.setup.device = d

OpenLocked(p, d) ==
    /\ job[p] = Idle
    /\ \A q \in Process : job[q].pc \in {"opening", "ready"} => job[q].device # d   \* operation.lock
    /\ ~Blocked(d) /\ SelectedEndpoint(st.devices[d]) # None
    /\ Become(p, [pc |-> "opening", device |-> d, token |-> st.devices[d].token,
                  end |-> SelectedEndpoint(st.devices[d])])
    /\ UNCHANGED <<at, near, mark, st, cache, view, changes, history>>

Authentic(p, seen) == seen = job[p].token

\* SessionFactory::open: what works at the endpoint now, or None.
SessionUnit(end) == IF ~Occupied(end.at) THEN None ELSE IF Usb(end) THEN at[end.at] ELSE end.at

\* authenticate_attachment: a cached mark of the same endpoint is as good as a
\* read one. A mouse without a token, and BLE, are not asked.
Attached(p) ==
    /\ job[p].pc = "opening"
    /\ LET end == job[p].end
           unit == SessionUnit(end)
           ready == Become(p, [pc |-> "ready", device |-> job[p].device, token |-> job[p].token,
                               end |-> end, unit |-> unit])
       IN  IF unit = None THEN Become(p, Idle) /\ UNCHANGED <<cache, learnt>>
           ELSE IF job[p].token = None \/ ~Usb(end) THEN ready /\ UNCHANGED <<cache, learnt>>
           ELSE IF Cached(p, end)
           THEN /\ IF Authentic(p, cache[p][end.at].seen) THEN ready ELSE Become(p, Idle)
                /\ UNCHANGED <<cache, learnt>>
           ELSE /\ Remember(p, end, mark[unit]) /\ Learn(p, end.at)
                /\ IF Authentic(p, mark[unit]) THEN ready ELSE Become(p, Idle)
    /\ UNCHANGED <<at, near, mark, st, view, changes, calm>>

\* The operation saves evidence, unless the session is dead by now.
Operate(p) ==
    /\ job[p].pc = "ready"
    /\ IF SessionUnit(job[p].end) = job[p].unit /\ job[p].device \in DOMAIN st.devices
       THEN Commit([st EXCEPT !.devices[job[p].device].evidence = TRUE]) ELSE UNCHANGED st
    /\ Become(p, Idle)
    /\ UNCHANGED <<at, near, mark, cache, view, changes, history>>

-----------------------------------------------------------------------------
(* The user, and the ceremonies of IdentityCeremony as far as they matter. *)

Plug(e, u) ==
    /\ changes < MaxChanges /\ changes' = changes + 1
    /\ (at[e] = None) = (u # None)
    /\ u # None => \A f \in Port : at[f] = u => Kind[f] # Kind[e]
    /\ at' = [at EXCEPT ![e] = u]
    /\ UNCHANGED <<near, mark, st, cache, view, job, learnt>>
    /\ calm' = [p \in Process |-> FALSE]

ComeOrGo(b) ==
    /\ changes < MaxChanges /\ changes' = changes + 1
    /\ near' = IF b \in near THEN near \ {b} ELSE near \cup {b}
    /\ UNCHANGED <<at, mark, st, cache, view, job, learnt>>
    /\ calm' = [p \in Process |-> FALSE]

\* A ceremony for a new mouse (d = None), or to restore d, begins; its journal
\* reserves a fresh token, or the old one.
SetupBegins(d, t) ==
    /\ changes < MaxChanges /\ changes' = changes + 1
    /\ st.mode = "Persistent" /\ st.setup = None
    /\ IF d = None THEN Owners(st, t) = {} /\ \A u \in Unit : mark[u] # t
       ELSE t = st.devices[d].token
    /\ Commit([st EXCEPT !.setup = [device |-> d, token |-> t]])
    /\ UNCHANGED <<at, near, mark, cache, view, job, learnt>>
    /\ calm' = [p \in Process |-> FALSE]

\* It is cancelled, or an unmarked mouse at a port has the token now.
SetupEnds ==
    /\ st.setup # None
    /\ LET done == [st EXCEPT !.setup = None]
       IN  \/ Commit(done) /\ UNCHANGED mark
          \/ \E e \in Port :
                /\ st.setup.device = None /\ st.next <= MaxDevices
                /\ at[e] # None /\ mark[at[e]] = None
                /\ mark' = [mark EXCEPT ![at[e]] = st.setup.token]
                /\ Commit(AddDevice(done, NewDevice(st.setup.token,
                                         [NoEndpoints EXCEPT ![Kind[e]] = Endpoint(e)])))
    /\ UNCHANGED <<at, near, cache, view, job, changes, learnt>>
    /\ calm' = [p \in Process |-> FALSE]

Step(p) ==
    \/ Ensure(p) \/ ReadMark(p) \/ ResolveAll(p) \/ AutoAttach(p) \/ RememberAttachment(p)
    \/ Sync(p) \/ PickDevice(p) \/ Attached(p) \/ Operate(p)

AttachmentNext ==
    \/ \E p \in Process :
          \/ \E scan \in Scans : List(p, scan.selection, scan.want)
          \/ Step(p)
          \/ \E d \in DOMAIN st.devices : RememberResolution(p, d) \/ OpenLocked(p, d)
    \/ \E d \in DOMAIN st.devices : SelectDevice(d) \/ \E force \in BOOLEAN : ForgetDevice(d, force)
    \/ \E e \in Port, u \in Unit \cup {None} : Plug(e, u)
    \/ \E b \in Radio : ComeOrGo(b)
    \/ \E d \in DOMAIN st.devices \cup {None}, t \in Token : SetupBegins(d, t)
    \/ SetupEnds

AttachmentSpec == AttachmentInit /\ [][AttachmentNext]_attachmentVars

-----------------------------------------------------------------------------
\* An operation on a mouse with a token works on the mouse that carries it,
\* whatever was plugged where while it was found and opened, unless a mouse was
\* exchanged between two scans of the process.
SessionOnItsMouse ==
    \A p \in Process :
        job[p].pc = "ready" /\ job[p].token # None /\ Usb(job[p].end)
           /\ learnt[p][job[p].end.at] \in {None, [unit |-> job[p].unit, mark |-> mark[job[p].unit]]}
        => mark[job[p].unit] = job[p].token

\* A mapping, a silent attachment or an answer never makes a scan take a mouse
\* with a token for a saved mouse with another one.
MarkDecides ==
    \A p \in Process : job[p].pc = "sync" =>
        \A row \in job[p].rows :
            row.why = "Resolved" /\ row.seen \in Token /\ row.device \in DOMAIN st.devices
            => st.devices[row.device].token \in {None, row.seen}

\* After a scan during which nothing was plugged, a saved mouse that is connected
\* is reached by what is saved about it, wherever it was before; unless an
\* unmarked mouse was attached to the same device, or a mouse was exchanged
\* between two scans.
Known(e, d) == at[e] # None /\ mark[at[e]] \in Token /\ mark[at[e]] = st.devices[d].token
Informed(p, e) == at[e] # None => learnt[p][e] = [unit |-> at[e], mark |-> mark[at[e]]]
OnlyByMark(p, d) == \A row \in job[p].rows : row.device = d => row.seen = st.devices[d].token
FoundMouseIsReached ==
    [][\A p \in Process :
          job[p].pc = "sync" /\ job'[p].pc # "sync" /\ job[p].selection = "Auto" /\ calm[p]
             /\ (\A f \in Port : Informed(p, f))
          => \A e \in Port, d \in DOMAIN st.devices :
                Known(e, d) /\ st.setup = None /\ st.devices[d].pref = None /\ OnlyByMark(p, d)
                => LET end == SelectedEndpoint(st'.devices[d])
                   IN  end # None /\ Usb(end) /\ Known(end.at, d)]_attachmentVars

=============================================================================
