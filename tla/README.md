# A verification project for the Attack Shark X3 driver

The repository drives an Attack Shark X3 mouse from two frontends (`x3ctl`,
`x3-gui`) over one library, `attack-shark-x3-manager`, which keeps durable state
beside the mouse: what each profile should hold, how far that is verified, and
which physical mouse is which. Several processes share that state, the mouse
keeps its own, the user changes it with the buttons and plugs it in and out, and
every operation can stop between two steps. These TLA+ modules model that core;
TLC checks it on small instances and TLAPS proves part of it for all of them.

Paths below are relative to `crates/attack-shark-x3-manager/src` unless they
start with `crates` or `docs`. `driver/` and `protocol/` are those of
`crates/attack-shark-x3/src`.

## Inventory

| Component | State | Operations | What makes it correct |
|---|---|---|---|
| Evidence model (`state/model.rs`, `resources/state.rs`) | desired and observed value of each resource, application and persistence verification, times | acknowledged write, readback write, reconciled read, import, invalidate, mark as persistent | evidence always passes the commit gate; a persistence claim never outlives its readback |
| State store (`state/store.rs`) | `state.json`, `state.lock`, backups, temporary files | load, transaction and commit, discard unreadable | complete files only, no lost transaction, durable once reported where the directory is synced |
| Operation lock (`state/store.rs`) | `device-<id>.lock` | acquire with deadline, drop | one operation per mouse; no endless wait |
| Profile update (`manager.rs`, `resources/`) | none of its own: mouse, evidence, draft | `apply_profile_update`, `read_profile`, single-section updates | evidence is true of the mouse, no lost update |
| Section operations (`resources/`) | none | read, full, partial and stored update, import | a partial update changes what it names; what is left on the mouse is readable |
| Polling rate (`resources/settings.rs`) | live image and alias in the firmware | read, status, update, composite update, unverified BLE write | only the intended image is saved; rates belong to their profile |
| Identity ceremonies (`manager.rs`, `state/model.rs`) | journal, tokens, devices, marks on the mice | begin, reconnect, stamp, adopt, finalize, cancel, associate | a token on one mouse, devices completely stamped, ceremonies resumable |
| Discovery and attachment (`manager.rs`, `device.rs`) | identity cache, endpoint mapping, selected device | scan, discover, resolve, open, forget, register | never the wrong mouse; a found mouse can be reached |
| Persistence verification (`verification.rs`) | the image captured before | profile reload, power cycle | no claim without an actual reload; the metadata is put back |
| All-profile refresh (`refresh.rs`) | original metadata | capture, restore, persist | metadata restored whatever fails; no partial commit |
| Driver worker (`driver/worker.rs`, `driver/handle.rs`) | queue of 32 requests, open transport, mailbox of the mouse | submit, reply, armed read with retries, shutdown | an answer is the state of the mouse; every request answered |
| Device events (`driver/worker.rs`, `driver/handle.rs`, `driver/usb.rs`, `events.rs`) | input channel, battery cache, bridge channel | choose the input collection, read input, read battery, subscribe, forward, drop | input of the selected mouse, no level overlooked, no silent loss, everything ends |
| BLE driver (`driver/ble.rs`, `driver/ble/windows.rs`) | connection, session lock, inbox of notifications | open, write and await the acknowledgement, disconnect, drop | an acknowledgement belongs to its write; a damaged session stays closed |
| Protocol codecs (`protocol/`) | none | encode, decode, mark | round trips, damaged reports refused |
| GUI (`crates/x3-gui/src`) | command queue, loaded mouse, subscription, pending command, asks, window | commands, refresh, selection, ceremony, hot plug | the window shows the loaded mouse; no command lost; never busy for ever |
| Command line (`crates/x3ctl/src`) | none | one invocation, one process | |
| Simulator, diagnostics | | test doubles, reports | |

**How they interact.** A frontend calls a `DeviceManager` operation. It takes the
operation lock of the mouse, loads the state, opens a session (one driver worker
on one endpoint, or one BLE session), talks to the mouse, and commits evidence in
one transaction of the state store. Ceremonies do the same without the operation
lock. Which endpoint is opened was decided by the last scan. Processes share only
the state directory and the mouse; the mouse tells nobody when its user changes
it. A GUI keeps a second session open for input events, and refreshes on them.

**What is hard.** Two steps (hardware, evidence) that cannot be one; crashes
between them; a lock that is polled with a deadline and another that is not
polled at all; checks on a loaded copy and commits in a later transaction; a
firmware that saves whichever image is live, and later; a one-shot mailbox;
acknowledgements without a transaction number; times from a wall clock that may
jump; identities that are only as good as the last time the mark was read; mice
exchanged between a scan and an opening. `PROJECT.json` lists the hazards at
their lines, each with the properties that would catch it going wrong.

## Modules

| Module | Models |
|---|---|
| `Evidence` | the mutators of a resource and the commit gate, as operators |
| `ResourceEvidence` | the evidence of one profile under every handler that changes it |
| `Option` | `None`, which the modules of optional values share |
| `AtomicStore` | what the store promises: whole transactions, durable when reported on a platform that can make them so |
| `StateStore` | the disk protocol of the store, step by step, with crashes and power losses |
| `StateStoreProofs` | the proof that it implements `AtomicStore`, and those about the evidence it stores and the mice it saves (`Attachment`) |
| `ProfileUpdate` | updates and reads of a profile by several processes |
| `ProfileUpdateProofs` | the proofs about it |
| `PollingRate` | rate operations on the live image of the firmware |
| `Reports` | the bytes of the five configuration reports and of the watermark, as operators |
| `PollingRateProofs` | the proofs about the rate operations, and what the reports guarantee for every byte |
| `SectionUpdate` | operations on one section, over a wire that damages and confuses reports |
| `Verification` | persistence checks and the all-profile refresh, on firmware that saves late |
| `VerificationProofs` | the proofs about it |
| `IdentityCeremony` | the ceremonies, journal and stamps |
| `IdentityCeremonyProofs` | the proofs that a token reaches a second mouse only by the exchange of a mouse being stamped, and that what the journal records is on the mice |
| `Attachment` | scans, identity cache, endpoint mapping, resolution and opening |
| `DriverWorker` | handle, request queue, worker thread, armed reads through the one-shot mailbox |
| `DriverWorkerProofs` | the proofs about it |
| `InputReports` | the choice of the input collection and the decoding of input reports |
| `InputEvents` | input thread, battery cache and readers, bridge task, subscriber |
| `InputEventsProofs` | the proofs about both, and about the window of `Gui` |
| `BleDriver` | a Bluetooth session, its callers and its notifications |
| `BleDriverProofs` | the proofs about it, and about the operations of `SectionUpdate` and the codecs they use |
| `Gui` | the window, the worker and its commands, hot-plug notices |
| `MC...` | instances for TLC |

`ResourceEvidence`, `ProfileUpdate`, `PollingRate` and `Verification` take the
operators of `Evidence` with `INSTANCE`, so that the same gate and the same
mutators stand behind every claim; `SectionUpdate` and `InputEvents` extend the
codecs they use; `StateStore` takes `AtomicStore` with a refinement mapping.
`Gui` sees the manager through what its calls answer: those answers are what
`Attachment`, `ProfileUpdate`, `Verification` and `IdentityCeremony` model.

Each module opens with what it abstracts. In every one an action is one step
between two points at which something else may happen (a lock, an `await` on the
hardware, a transaction), and a call that fails is an alternative or an action of
its own. `TypeOK` of each module documents the types of its variables (`EvidenceType` in
`ResourceEvidence`, whose specification is `EvidenceSpec`; `GuiTypes` and
`AttachmentTypes` beside `GuiSpec` and `AttachmentSpec`, and `SectionTypes` beside
`SectionSpec`). It is proved, alone or
within the inductive invariant, but for `GuiTypes` and `AttachmentTypes`, whose invariants carry the
parts of it they need; and model-checked for `DriverWorker` and `InputEvents`, where
it also bounds the queue and the values of events. Definitions introduced as *faulty variants* are not part of the
specifications: they are bugs of the kind the code could have, kept to show that
each property detects one.

### Correspondence

- **Evidence.** `Wanted` and `Seen` are `DesiredState` and `ObservedState`. A
  value is opaque. The times are any subset of the integers. `ExplicitDefaults`
  is a source no handler writes and is left out.
- **StateStore.** A document is the set of edits it includes, so that a lost
  update is a missing edit. `pc` follows `transaction`, the closure,
  `write_atomic` and its four system calls. A busy lock returns an error at once
  and is a stutter. `survivors` holds the directories a power loss may leave:
  after a rename or a new file, both the old and the new one, until the
  directory is synced; a file that was never synced may come back torn. `unix`
  is which `sync_parent` is built: one syncs the directory, the other returns
  `Ok(())` and leaves `survivors` as it is (`Durable`).
- **ProfileUpdate.** A section is a function from fields to values. `"Live"`
  reads the mouse, `"Stored"` is the evidence (BLE, or the stored policy),
  `"Draft"` is the snapshot a frontend passes to
  `apply_profile_update_from_snapshot`. `stale` and `moved` are history: no
  action reads them.
- **PollingRate.** The firmware is taken from `docs/protocols/06-polling-rate.md`:
  a section access loads its target, a write saves the complete live record
  under the alias, a rate access loads nothing. Operations that are not about
  the rate are single steps, which the operation lock justifies: the
  interleavings inside them are those of `ProfileUpdate`.
- **Reports, SectionUpdate.** A report is its sequence of bytes. `held` is what
  the mouse was last sent, `Publish` the report it makes of it (external, from
  `docs/protocols`). A read fetches that report with one byte changed, cut
  short, or replaced by that of another section or profile; a decoder accepts it
  or the read is tried again. `op` runs through `read`, `write`, `verify` and
  `persist` as the operation's policy says; `base` is the decoded baseline.
- **Verification.** `flash`, `live`, `alias` and `unsaved` are the firmware; a
  write changes the live record and `DeferredSave` or the loading of another
  profile decides whether it reaches the flash. The reading of a profile is two
  steps, image and rate, and every metadata write is one whose failure leads to
  the restoration. A power-cycle check has no session and no lock while it waits
  (`gone`, `back`, `reopen`); then others write and any mouse may be plugged in.
- **IdentityCeremony.** `st` is the part of `state.json` the ceremonies use, and
  `Valid` is the gate of every commit. Every ceremony call is split where it
  leaves the store: `Capture`/`CaptureCommit`, `Stamp`/`MintCommit`/
  `OpenSubject`/`StampProfile`/`PersistProgress`/`AdvanceCeremony`, the
  checks and commits of begin, finalize and cancel, and the Bluetooth
  association. A stamp keeps the phase it began with, and reads everything else
  of the journal again; a finalization takes the subjects it finds. `Plug`
  exchanges the mouse at the port at any moment, also between two steps of a
  stamp, and `StampProfile` stamps whichever is there. `wiped` and `strayed` are
  history: the tokens that lost a mark to other software, and those that a call
  set out to stamp into a mouse it was not captured from (`Strays`), with those
  this mouse carried.
- **Attachment.** `job` is the call of each process: `List` takes the endpoints,
  `ensure` and `read` read the marks that `identity_cache` lacks, `attach` is the
  silent attachment of an only unknown endpoint, `sync` commits the endpoints of
  the mice found, `pick`, `opening` and `ready` choose and open one. `Resolve` and
  `MappingAgrees` are `resolve_connections`. `Plug` exchanges mice between any
  two of these steps; `SetupBegins` and `SetupEnds` are what a ceremony does to
  the same state.
- **DriverWorker.** `queue` is the bounded channel of `handle.rs`, `worker` the
  thread with the locals of the handler it runs: `reads` are the reports it has
  accepted, `attempt` counts those of `armed_read`. The handlers of `worker.rs`
  share one skeleton (optional write, quiet time, armed reads, comparison) and
  differ in what they accept and verify (`Accept`, `Refused`, `Expected`).
  A caller is its oneshot receiver: `Abandon` drops it, and the command runs on.
  The mouse (`Publish`, `ChangeMouse`, `UseMailbox`, `Configure`) is external,
  from `docs/transports/usb-hid.md`: fetching empties the mailbox, the producer
  may publish an earlier report, and a configuration report may be ignored.
  Decoders check the report and profile of what they decode; a raw readback
  decodes nothing. `clean` and `alone` are history.
- **InputEvents.** Both broadcast channels are the sequence of everything sent
  and the position of each receiver; a receiver more than `Capacity` behind is
  told so and skips to the oldest message left. A report is decoded by
  `DecodeInputReport`; `inputs` holds the events, `outputs` the number of the
  event forwarded or of the messages skipped. `source` is the input collection
  the thread opens, and whether the paths told the mice apart (`ToldApart`,
  which no action reads). The subscriber is the event branch of the GUI worker.
- **BleDriver.** `lock` is the fair async lock around the session, `flying` the
  packets the operating system has been handed and has not delivered, `owed`
  those the mouse has yet to acknowledge. A write drains the inbox
  (`Begin`), hands its packet over (`Send`) and awaits the result (`Returned`),
  takes notifications until one is its own or the
  deadline passes (`Receive`, `Expire`) and keeps quiet (`Rest`). `Deliver` may
  come at any time, also after the call was dropped or has failed. Packets are
  numbered for the property only: an acknowledgement is matched by its report.
- **Gui.** `w` holds the worker's locals; `w.pc` is `Idle` at its `select!`, and
  each handler is split where it emits events or awaits the manager.
  `w.pending` is the one command put aside, `topo.deadline` the time of the
  refresh that a hot-plug notice asks for. A session is at one endpoint
  (`events.at`); one over Bluetooth (`Radio`) has no events to end, and the
  watcher hears of USB only (`Heard`). `ui` is what the window shows after
  the events in `inbox`. Of the settings it shows only the mouse they are of is
  kept.

## What each run checks

| Run | Instance | Shows |
|---|---|---|
| `MCResourceEvidence` | 2 resources, 2 values, 3 instants | `EvidenceCoherent`, `ClaimOnlyFromItsReadback`: no order of handlers and no clock jump produces evidence the gate refuses, or a claim without its readback |
| `MCStateStore` | 3 processes, 1 edit each, with and without a sync of the directory | `ImplementsAtomicStore`: with crashes and power losses at every step the store is one of whole transactions, none overwritten, and on Unix durable when reported |
| `MCProfileUpdate` | 2 processes, 2 sections of 2 fields, 2 operations, 1 user change | `EvidenceIsTrue`, `LiveWriteKeepsRest`, `NoEndlessWait` |
| `MCPollingRate` | 2 profiles, 2 images, 2 rates, 4 operations, 1 user action | `RateWriteSavesIntendedImage`, `RateEvidenceIsOfItsProfile` |
| `MCSectionUpdate` | 3 DPI, 2 preferences and 2 button images with extreme values, a foreign and a damaged mark, 10 partial updates, 3 transports, every policy, 2 attempts, 2 operations, 1 change by others | `ReadIsExact`, `StaysReadable`, `UpdateIsExact` |
| `MCVerification` | 2 slots of which 1 may be disabled, 2 records, 2 mice, 2 ports, 2 checks or refreshes, 2 other events | `ClaimsAreSaved`, `MetadataRestored`, `OperationEnds` |
| `MCIdentityCeremony` | 2 mice, 2 profiles, 4 tokens, all five ceremonies; 1 process: 3 of them, 2 processes: 2; once a mark is lost or the mouse being stamped unplugged, and another plugged in | `TokensNeverCopied`, `DevicesAreStamped`, `StampIsRecorded`, `CeremonyResumes` |
| `MCAttachment` | 1 process, 2 mice of one model, the second with another mark, none or a malformed one, a port, a receiver and a radio, 2 devices, 2 exchanges | `SessionOnItsMouse`, `MarkDecides`, `FoundMouseIsReached` |
| `MCDriverWorker` | 1 client, 2 requests, 2 profiles, 1 section, 2 attempts, a queue of 1, 1 action of others | `AnswerIsState`, `FetchIsArmed`, `RequestsAnswered`, `WorkerEnds`, `TypeOK` |
| `MCInputEvents` | 1 mouse or 2 identical ones on Linux and on Windows, their collections in every order and not all listed yet, 4 selectors, 18 reports, channels of 2, 4 events, 1 battery read | `InputOfTheSelected`, `LevelReachesReader`, `GapsAreNoticed`, `SubscriptionEnds`, `ReadsEnd`, `TypeOK` |
| `MCBleDriver` | 2 callers, 2 reports, an inbox of 2, 2 packets, 1 broken connection, 2 failing calls | `AckIsOfItsWrite`, `FailsClosed`, `CallsEnd` |
| `MCGui` | 2 saved mice, one on Bluetooth, and a stranger, a queue of 1, 2 user actions, 1 plug event and 1 failure, or 1 user action and 2 plug events | `EventsOfLoaded`, `WindowNamesLoaded`, `PendingTaken`, `BusyEnds`, `GoneIsNoticed` |

**Bounds.** They are `CONSTANTS` and guards of the actions that start something
(`MaxEdits`, `MaxOps`, `MaxTouches`, `MaxEvents`, `MaxBegins`, `MaxUpsets`,
`MaxChanges`, `MaxRequests`, `MaxWrites`, `MaxUser`, ...). Two processes are enough
for every race found: all state is compared pairwise, and a third process adds
another copy of the same step. Two profiles are the smallest mouse with a wrong
one, and a ceremony can stop between them.

- In `MCStateStore` a process between two transactions remembers nothing but how
  many edits it has made, so that one edit of each of three processes shows what
  a second edit of one of two would.
- Four operations let a rate write follow a read, an activation and an image
  write.
- Three ceremonies let an enrollment be followed by two others, and four tokens
  are enough for them: a model that runs out of tokens only stops minting. One
  unplugging of the mouse being stamped is enough to put the other in its place.
- In `MCSectionUpdate` the images lie at the ends of the ranges of every field;
  the second operation works on what the first one left, the second attempt is a
  retry and its exhaustion. Every byte of a report may be the damaged one.
- In `MCVerification` a check after a refresh or another check meets metadata and
  evidence of the first; two events are enough to write a profile and write it
  again, or to unplug a mouse and plug in another.
- In `MCAttachment` two exchanges put the other mouse at a port and the first one
  at another. The second process is an action of the environment on the state
  (`SetupBegins`, `SelectDevice`, `ForgetDevice`).
- In `MCDriverWorker` two requests let one wait in the queue while another runs,
  and be refused while an abandoned one still fills it; two profiles are a wrong
  one; a composite profile read is a metadata read and one section.
- In `MCInputEvents` four events overrun channels of two, and a notice of loss can
  itself be lost.
- In `MCInputEvents` two mice of one model are the least whose inputs can be
  confused, and every subset of them is what enumeration may have listed while one
  is being plugged in.
- In `MCBleDriver` two packets are a late one, or a late acknowledgement, and the
  write that meets it; a caller waits behind it in the lock.
- In `MCGui` the first command is the one the window starts with; two more let a
  command arrive while another runs, and a full queue refuse the third. Two plug
  events are a removal with the arrival that puts off its refresh.

**Symmetry** is used for interchangeable processes, values, mice and tokens in
safety runs only, never with a liveness property.

**Deadlock** is checked in `MCResourceEvidence` and `MCStateStore`. The other
models bound the operations that are started and really may stop: every call is
finished, nothing is running, and the user is done. In these the liveness
properties say that nothing is left waiting.

**Fairness.** Only what the code's scheduling gives, and nothing of users,
application or mouse.

- `ProfileUpdate`: weak fairness of polling the operation lock
  (`acquire_operation_lock` sleeps a few milliseconds, tries again and gives up
  at a deadline, so one of the two outcomes happens). Nothing is assumed of the
  holder, which may hang on the hardware forever.
- `Verification`: every call of the running operation returns, and time passes
  (`ClockRuns`: the deadline of the power-cycle wait). Nothing makes the user
  unplug a mouse.
- `DriverWorker`: the worker thread is scheduled, the readiness loop has a
  deadline, and a transport call returns or times out. The mouse may never
  publish a report.
- `InputEvents`: the input thread (its read has a time-out of 100 ms), the bridge
  task, and each battery reader, whose wait has a time limit.
- `BleDriver`: the steps of each caller, whose platform calls return, and its
  deadline. Packets may never be delivered; notifications may come for ever, or
  stop.
- `Gui`: the worker thread, the delivery of its events to the window, the loss of
  the session of a mouse on USB that is gone (its reads fail), and the enumeration
  of a mouse that stays plugged in.

**Environment assumptions.** A rename is atomic for other processes. A power
loss keeps a prefix of the directory operations since the last sync of the
directory, so that without any sync it may take the state back to when the program
was installed; the directory itself is durable. A fresh 128-bit token differs from
every other one. A restoration begins when no mouse is
connected, where the code looks for the saved endpoints of that mouse only. The
user may act between any two steps of an update or of a rate operation; the
properties except exactly the writes whose baseline or preflight the user has
changed. A damaged report has one wrong byte. Over Bluetooth other processes are
kept away by the operation lock. The exceptions of each property are stated with
it, and each is one of the observations below.

## What is proved

`DriverWorkerProofs` proves for any clients, values, numbers of profiles, sections
and attempts and any capacity of the queue:

- `FetchAlwaysArmed`: `Spec => [](TypeOK /\ FetchIsArmed)`, and from it
  `TypeCorrect`: `Spec => []TypeOK`.
- `AnswersTellTheState`: `Spec => AnswerIsState`.

Neither conjunct of the first is inductive. A control write sends the metadata it means to
establish, so that `metadata` stays within its type only because the worker has
read a metadata report that allows it; and the sections of a profile read are
named by the number of reports read. `IInv` adds `ReadsFit`, which says both of a
running worker. One lemma per action, over `WorkerMoves` for the steps of the
worker that end anywhere but at the fetch, and `OthersMove` for what others do to
the mouse: whoever empties the mailbox of a worker leaves it no longer alone.
For the answers, `AnswerInv` adds three facts. `Fresh`: what becomes ready after
the worker's selector is the present content of some target, and of the selected
one unless another session has interfered. `Collected`: what the command has read
so far is still so, though not in a control write, whose own write has changed the
metadata. `Callers`: whoever is to be answered waits and has one request, so that
only the fetch of this command can tell it of success (`OnlyFetchSucceeds`). TLC
checked `AnswerInv` with two clients and a queue of two as well.
The proofs rest on `SizesAssumption` and `NoneAssumption` (`None` is no report and
no client).

`StateStoreProofs` proves for any processes and any number of edits:

- `StoreIsAtomic`: `Spec => ImplementsAtomicStore`. Every step of the disk
  protocol is a step of `AtomicStore` or a stutter, crashes and power losses
  between any two system calls included, on either platform. `AtomicStore` keeps
  in `past` the states a power loss may leave: where the platform is `durable`, each
  of them includes what was reported; elsewhere they are all the states since the
  last loss, and only that each is whole is promised.

A step of a commit is one of `AtomicStore` only because the holder of
`state.lock` knows that the file it read is still in place, and a power loss only
because every directory it may leave behind has a whole file and, on Unix, what was
reported saved.
`IInv` says the first of each program counter (`InTransaction`, `Pending`: the
document about to be renamed has one edit more than the file, or starts over from
one that is wholly in the backups) and the second of every survivor. It rests on
`NoneAssumption`.

Of what the file holds, the same module proves for every set of values, every set
of times and every set of resources:

- `EvidenceAlwaysValid`: `EvidenceSpec => [](EvidenceType /\ EvidenceCoherent)`.
- `ClaimsStandOnReadback`: `EvidenceSpec => ClaimOnlyFromItsReadback`.

The inductive invariant is `EvidenceType /\ EvidenceCoherent` itself: the gate is strong
enough to be preserved, because every mutator either builds evidence from values
of one instant or resets the claim. One lemma per mutator says that it keeps the
type and passes the gate (`AckWrite`, `ReadbackWrite`, `Import`, `Reconcile`,
`Invalidate`, `Mark`); `Mark` assumes a valid resource and that the claim is no
earlier than its observation, which `Reconcile` gives it in the same step.
`EvidenceSteps` lifts them to each handler. Both theorems rest on
`TimeAssumption` (times are integers), `EvidenceAssumption` (no evidence is not some
evidence) and `DpiAssumption`.

`ProfileUpdateProofs` proves for any processes, sections, fields, values and
requests:

- `EvidenceNamesTheMouse`: `Spec => []EvidenceIsTrue`.
- `NoUpdateIsLost`: `Spec => LiveWriteKeepsRest`.

Neither is inductive: between a write and its commit the evidence does not name
what the mouse holds. `IInv` says that only the holder of the operation lock is
inside an operation (`Exclusive`), that what it is about to commit is what the
mouse holds unless the section is known to have changed (`Uncommitted`), and that
a live baseline belongs to the section written next and is still its value
(`Baseline`). It rests on the named assumptions of the module: there are finitely
many sections, a delta names fields and their values, and no process, image or
delta is taken for its absence.

`PollingRateProofs` proves for any profiles, images and rates, whichever
rate-writing operations are in use:

- `PollingRateTypes`: `Spec => []TypeOK`.
- `RateEvidence`: `Spec => []RateEvidenceIsOfItsProfile`.
- `RateWrites`: `Spec => RateWriteSavesIntendedImage`.

A rate access says nothing of a profile: it goes to whichever image is live. So
the invariant carries along what the running operation has made sure of since it
loaded its target (`Promises`): the live record is that of the target, with the
intended image, and at the commit the slot holds the rate about to be recorded.
All of it is given up when the user acts. `ValuesOfTheirResource` says that an
image is stored for an image and a rate for a rate: the model keeps both
kinds of evidence in resources of one type. It rests on `WaysAssumption`.

Of the codecs, the same module proves for every byte and not only those of an
instance:

- `DebounceRoundTrip` and `DeepSleepRoundTrip`: what is written is read back, and
  a deep-sleep time keeps the other half of the byte it shares.
- `RateReadExactly`: a rate report that the decoder accepts is, but for its
  declared length, the report the driver writes. The complement of the rate
  makes this true of every damage; the sums of the longer reports do not, and
  of these `ReadIsExact` says it with one damaged byte.

`VerificationProofs` proves for any number of profiles, any records and ports, and
any number of checks, refreshes and events:

- `VerificationTypes`: `Spec => []TypeOK`.
- `ClaimsSurvive`: `Spec => []ClaimsAreSaved`.
- `MetadataIsRestored`: `Spec => MetadataRestored`.

A claim is about the flash, and a check sees the working record only. `Reread`
says when the two are the same: after the reload of the profile, or after the
mouse was away, nothing is unsaved, and what was caught is what the flash holds.
It stays so because a claim holds of the working record as well (`Loaded`), so
that neither a deferred save nor the loading of another profile changes what a
claim is about. `Stages` says which steps an operation goes through and what it
has by then (a check has a captured image before it reloads, and only a power-cycle
check waits); `Restoration` follows the metadata from the first switch to the
commit. It rests on `MaxIdAssumption`, `HomeAssumption`, `RecordsAssumption` and
`AbsentAssumption` (no port, record or mouse is `None`).

`InputEventsProofs` proves for any reports, readers and capacity of the channels:

- `TypeCorrect`: `Spec => []TypeOK`. Its lemmas take `DecodeInputReport` apart:
  whatever bytes arrive, an event is within its range (`DecodedIsProper`).
- `NoLevelIsOverlooked`: `Spec => []LevelReachesReader`. A reader that found the
  cache empty has subscribed before: a level cached since is in a later message,
  or about to be sent (`Attentive`).
- `LossesAreNoticed`: `Spec => GapsAreNoticed`. `InOrder`, `BridgeAt` and
  `SubscriberAt` relate the positions on both channels: unless a loss has been
  told, the next event on the second is the one after the last that was taken.

The same module follows the events to the window, for any mice, commands and
answers of the manager:

- `EventsAreOfLoaded`: `GuiSpec => []EventsOfLoaded`.
- `WindowNames`: `GuiSpec => []WindowNamesLoaded`.
- `PutAsideIsTaken`: `GuiSpec => PendingTaken`.

Between the two threads lies the queue of what the worker has sent and the window
has not shown. So `Window` says of the queue what `WindowNamesLoaded` says of an
empty one (`WindowFollows`): the last message in it that decides what is shown is of
the loaded mouse, or says that none is usable. `Follows` sums up any step of the
worker, however many messages it sends: whatever it shows is of the mouse it has
loaded by the end of the step, and if it loads another one it says so in the same
step. Every handler keeps to that, which is one lemma each (`LoadFollows`,
`SelectFollows`, `ReloadFollows`, ...). `AtRest` says that a worker inside a handler
has no command put aside.

`BleDriverProofs` proves for any callers, reports, size of the inbox and number of
failures:

- `ReceiptsAreOfTheirWrite`: `Spec => []AckIsOfItsWrite`.
- `DamageIsFinal`: `Spec => FailsClosed`.

An acknowledgement names only a report, so that the invariant must follow it from
the packet to the receipt: `IInv` says who may be active behind the fair lock,
that whatever is on its way, the drain has left or the mouse still owes is of the
current write or was open when it began, and that an overflowed or closed session has no write
that can still succeed. The least element of a set of numbers (the first error
item of the inbox, the first profile to stamp) is an instance of the well-founded
minimum of the library.

`BleDriverProofs` proves of the operations on a section, for any profiles, token,
valid states and partial updates that its types allow, and any number of operations,
attempts and changes by others:

- `SectionInvariance`: `SectionSpec => []SectionTypes`.
- `SectionsStayReadable`: `SectionSpec => []StaysReadable`.
- `ReadsAreExact`: `SectionSpec => ReadIsExact`.
- `UpdatesAreExact`: `SectionSpec => UpdateIsExact`.

`SectionTypes` is inductive: the bytes on the mouse are the encoding of a value of
`States`, so are the values that are stored, and what an operation carries is what
its phase needs. It rests on `RoundTrip` and `DamageRefused`. The first says that
every valid state of every section comes back from the report the mouse publishes for
it, on each transport with a readback (`DpiRoundTrip`, `ButtonsRoundTrip`, ...), the
second that the decoder accepts no report the wire can bring instead: `StepSees` and
`SumSees` show that a sum of 16 bits notices one changed byte wherever it is
(`Damaged`), `RateRefused` and `MetadataRefused` do without a sum, and a report that
is cut short or of another profile fails the checks of its frame (`Refused`). The
sums and the checksum of the mark are recursive functions over a report of any
length. `AddsExist` and `WeighsExist` show by the least length without one that the
partial sums exist, which takes the place of an induction over the bytes. `MergeIs`
says that a merge the code does not refuse is a valid state, and `WantedExact` which
bytes of the image it changes: `DpiImage`, `PreferencesImage` and `ButtonsImage` place
each field, `SlotMeans` decodes the action again, and `MarkIs` shows that a mark is
read back as its token. `TouchesCount` tells a write from a change by others, which
`UpdateIsExact` excepts. Of the constants it assumes `SectionAssumption`: the images
are valid states, and the fields of a partial update are of the types of the request.

`IdentityCeremonyProofs` proves for any processes, mice, profiles, tokens and
ceremonies, and whatever is plugged or unplugged at whatever moment:

- `TokensStayUnique`: `Spec => []TokensNeverCopied`.
- `DevicesStayStamped`: `Spec => []DevicesAreStamped`.
- `StampsAreRecorded`: `Spec => []StampIsRecorded`.
- `CeremoniesResume`: `Spec => CeremonyResumes`.

The marks alone say nothing of the stamp to come. `OneMouse` is about every token
a mouse carries, or that a subject of the journal, a captured subject or a running
stamp intends for it (`Bound`), but for the tokens that strayed; `Minted` keeps a
token between `mint_unique_token` and its commit apart from all of these, strayed or
not. A token gets to a second mouse by one step only, the opening of a subject whose
mouse is not the one at the port, and this step puts it among the strayed ones.
`Steady` reduces every step but the two of the minting to the call of the process
that takes it: it binds a token to no other mouse, or the token has strayed by the
end of the step (`Loosed`).

The other three are about one process at work, and `OneInv` is their invariant.
`Recorded` says that the state passes the gate, that every token of a device is on
all of one mouse, that the profiles a journal has as stamped carry the token, and
that the mouse being stamped is no saved mouse and no other subject, so that a
stamp destroys nothing that is recorded. `Intends` says that what the call goes by
is still what the journal says: the profiles it has to stamp are the ones that are
not recorded, and the mark it is about to record is there. The mouse it stamps is
that of the last subject, or its token and every mark it may replace have strayed
(`Accounted`). A token that has lost a mark to other software, or that has strayed,
is excepted throughout; the gate and the record are not, so that `StampsAreRecorded`
and `CeremoniesResume` hold of an exchanged mouse as of any other. `AdvanceIsValid`
and `ProgressIsValid` then follow the gate through every check, and `FinalTokens`
says what finalizing adds. With two processes `Intends` fails, as the observations
tell. All four rest on the named assumptions of the module: finitely many processes, known
ceremonies, at least one profile, and `None` is no token, mouse or journal.

`StateStoreProofs` proves of the attachment, for any processes, mice, ports, radios,
tokens and saved mice:

- `SessionsOnTheirMouse`: `AttachmentSpec => []SessionOnItsMouse`.
- `MarksDecide`: `AttachmentSpec => []MarkDecides`.
- `FoundMiceAreReached`: `AttachmentSpec => FoundMouseIsReached`.

A scan resolves by one state of `state.json` and is used under another, which other
processes have changed. `Keeps` says what no transaction does: a device keeps its
token as long as it exists, and an id that was given is never given again. With
that a row stays right (`RowOf`): if its mark was read, its device has that token,
or is gone and will not come back as another. `Cache` says that what is cached of a
port is what was last read there, since a scan that finds the port empty forgets
both; `Session` that a session with a token was opened on that reading. For the
third theorem `Scanning` follows a scan during which nothing was plugged from its
list (`Listed`: every mouse at a port is in it) to its rows (`Found`: every such
mouse has a row with its mark, and the row is of the device with that token).
`Still` says what every other step leaves alone meanwhile: only a ceremony adds a
device or a journal, and then the scan is not calm. So what the last step commits
(`SyncReaches`) is where the mice are. The proofs rest on `KindAssumption` (a place
is a port or a radio, not both), `MarkAssumption` (a token is no other mark, and
`None` is no mark or place) and `SavedAssumption` (the mice saved at first have
distinct tokens, as the gate of every commit requires).

Each of these inductive invariants was checked by TLC on the instance of its run
before it was proved.

**Only model-checked.**

- Liveness, under the fairness above: `NoEndlessWait`, `OperationEnds`,
  `RequestsAnswered`, `WorkerEnds`, `SubscriptionEnds`, `ReadsEnd`, `CallsEnd`,
  `BusyEnds`, `GoneIsNoticed`. The provers have no rule for `ENABLED`.
- `InputOfTheSelected`: the layouts are those of the two platforms for mice of one
  model, with the paths reduced to a name and a family. What other paths a platform
  may make is not in the code.

## Observations

What the modelling found where code and documents disagree, or where a property
needs an exception. No property of a run depends on these going right.

**Updates and rates.**
- A composite update whose second section fails leaves the first one written and
  records nothing (`manager.rs:1428`; `docs/safety.md:28`). A busy `state.lock`
  after a write has the same effect (`state/store.rs:204`). `EvidenceIsTrue`
  counts the section as changed.
- A rate write prefers the stored observation of the metadata, which may be older
  than an activation acknowledged over Bluetooth (`resources/settings.rs:499`;
  `docs/ui-driver-spec.md:518`, `:523`): it may go to a profile that is no longer
  the current one.
- A change of the number of profiles and an activation each write back the other
  half of the metadata as they have read it (`driver/worker.rs:261`): a profile
  button pressed in between is undone, although `driver/handle.rs:512` says "while
  preserving the current profile". `AnswerIsState` is about commands during which
  nobody else changed the mouse.
- `DesiredSource::ExplicitDefaults` is never constructed. The sum of a report
  does not detect two bytes that changed places. A deep-sleep change of the GUI
  merges the configuration byte of its last snapshot
  (`crates/x3-gui/src/main.rs:600`, `:629`).

**State store.**
- Outside Unix `sync_parent` returns `Ok(())` without a sync
  (`state/store.rs:764-767`), so that a power loss may undo transactions that were
  reported saved, a discard and its backup among them. It never leaves half of one.

**Verification.**
- While a power-cycle check waits it holds no lock. An operation that writes
  another value and then the first one again makes the reread agree although
  that value was never checked: `ClaimsAreSaved` excuses such a check.
- Unplugging the receiver or the cable of a mouse on battery looks like a power
  cycle.
- A process that dies in a reload check or a refresh leaves the mouse on another
  profile, or with another maximum: nothing remembers the original.
- Without persistent identity the reread may be of another unit of the model.

**Ceremonies.**
- A ceremony that is resumed stamps the mouse that is at the port by then
  (`manager.rs:2157`; `docs/logical-mouse-identity-spec.md:883`). If that is not the
  mouse captured, both may come to carry the token of the ceremony, and the marks of
  the second one are replaced. `TokensNeverCopied` and `DevicesAreStamped` except
  this token and those marks (`strayed`), and nothing else.
- `begin_identity_ceremony` "Refuses while another ceremony is in flight"
  (`manager.rs:1654`), but looks at a loaded copy: `BeginCommit` of a second
  process replaces the journal of the first. Three of the four properties are
  stated for one process at a time; `TokensNeverCopied` holds with two.
- `ceremony_finalize_migration` checks a loaded copy, and its transaction
  finalizes whatever the journal holds by then (`manager.rs:2320`, `:3075`): an
  enrollment that another process has begun meanwhile has no subject yet, and
  leaves a persistent installation without a mouse, which the gate accepts.
- Cancellation is "Only accepted before any profile has been stamped"
  (`manager.rs:2421`), but looks at recorded progress: after `StampProfile` and
  before `PersistProgress` a failed ceremony can be cancelled.
- Adopting a mouse without a mark reaches an `expect` (`manager.rs:1971`), and
  reconnecting a marked USB mouse during a Bluetooth association an
  `unreachable!` (about `manager.rs:1917`); an unmarked one is captured
  completely and then refused by the commit gate.

**Attachment.**
- A mouse with the same path and no serial number is taken for the cached one
  until a scan has seen the port empty (`manager.rs:47`). `SessionOnItsMouse`
  excepts a mouse exchanged between two scans.
- A mouse without a token stays associated by its endpoint, where
  `docs/logical-mouse-identity-spec.md:617` says unassociated.
- A device without evidence can be removed (`manager.rs:777`), but its endpoint
  mapping then makes the gate refuse the commit.

**Bluetooth and input.**
- An acknowledgement names a report only. One that is owed from an earlier packet
  and comes after the inbox is drained is taken for that of the next write of
  the same report; there is no quiet time after a rejection or a time-out. So is
  that of a write which was dropped or failed (`driver/ble.rs:306`) and which the
  operating system delivers later. `AckIsOfItsWrite` says exactly this.
- The overflow of the inbox is never reset and does not count as a lost
  connection, so that a session stays open and useless; nor does a failed write.
- On Windows two identical mice share the part of a path before `&col`
  (`driver/usb.rs:233`), and the input of the first one is opened (154). On Linux no
  path matches when two mice are connected, and there are no input events; while
  only the other mouse's input is listed, the fallback takes it (155-161).
  `InputOfTheSelected` is about the layouts that tell the mice apart.
- A reader of the battery level that the channel overran does not look at the
  cache again (`driver/handle.rs:280`) and may time out beside a cached level.

**GUI** (`crates/x3-gui/src`, lines of `worker.rs` unless named).
- `resolve_scan` (206–222) attaches an endpoint it remembers to the first saved
  mouse and stores that, over the answer the user gave, when two or more unknown
  endpoints are present or a ceremony is running.
- A Refresh sent between the last event of another refresh and the coalescing of
  the queue is dropped, and the window stays busy (1494–1506): the exception of
  `BusyEnds`.
- While there is a watcher nothing reports that a mouse on Bluetooth is gone, and
  its settings stay on the screen until the next command: the watcher is of USB
  (1601-1607), the poll is off (1582), and a Bluetooth session has no events
  (`backend.rs:44-50`). Without a watcher the poll cannot tell that a mouse came and
  went between two ticks. `GoneIsNoticed` is about the mice that are `Observed`.
- A notice of removal during the settling of an arrival replaces its deadline of
  750 ms (`docs/README.md:46`).
- A selection whose read fails unloads the mouse, but reports an error that is
  documented to leave it valid; one whose endpoint is not resolved leaves
  another mouse selected, which Import and Export then use.
- Auxiliary operations clear an edited draft, against `presentation.rs:377-380`.
  An automatic refresh that loads another mouse keeps the draft of the first, and
  Save applies it to the other; an Apply queued behind it goes to whichever mouse
  is loaded. After a reconnection the editable fields stay empty.
- An index of the pending list that is out of date but in range answers for
  another endpoint (against 73–76). An answer given while the window is busy is
  lost.
- A selected profile does not drop the events already queued; after a power cycle
  or an update that fails the mouse stays loaded without a subscription while the
  window is cleared.

## Not modelled

- Layout, formatting, names, logging, serialization and error wording;
  `diagnostics.rs`; the choice of a Bluetooth candidate and the platform
  libraries.
- The in-memory store of stateless mode: one mutex in one process.
- Display names, the migration of legacy evidence and the captured image in the
  ceremonies: values that are carried along.
- Of the GUI: the contents of drafts, unreadable state and its discarding,
  shutdown, the preferences file (`app_settings.rs`: one thread, written to a
  temporary file and renamed).
- The command line, whose invocations are processes of the models, and the
  simulator and offline debugging, which imitate the mouse for tests.

## Next

1. The contents of drafts in `Gui`, for which several observations stand.
2. The sessions of the Bluetooth driver under the GUI: what a lost connection
   tells the worker once a command meets it.
