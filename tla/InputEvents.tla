------------------------------ MODULE InputEvents ------------------------------
(***************************************************************************)
(* The input reports of a mouse on their way to the application: the input *)
(* thread of the driver, its broadcast channel and battery cache, readers  *)
(* of the battery level, the bridge task that maps input events to device  *)
(* events, and the subscriber at the end.                                  *)
(*                                                                         *)
(* Input events are numbered in the order in which they are sent.  Both    *)
(* channels are lossy: a receiver that falls behind is told so and goes on *)
(* with the oldest message that is left (tokio::sync::broadcast).          *)
(***************************************************************************)
EXTENDS InputReports

CONSTANTS
    Reader,
    Layouts,     \* the HID collections of the mice that are plugged in, in the
                 \* order they are listed, and the path of the configuration
                 \* collection to be opened
    Reports,     \* the input reports of the mouse
    Capacity,    \* of either channel
    MaxEvents, MaxReads  \* bounds: input reports, battery reads

ASSUME CapacityAssumption == Capacity \in Nat \ {0}
ASSUME ReportsAssumption == Reports \subseteq Seq(Byte)
ASSUME BoundsAssumption == MaxEvents \in Nat /\ MaxReads \in Nat

VARIABLES
    thread,     \* the input thread
    source,     \* the mouse to be read, the one that is, and whether their paths tell
    level,      \* battery_level, the cache
    available,  \* input_available
    handle,     \* a clone of the MouseHandle is alive
    inputs,     \* everything sent on the input channel: a level, or another event
    reader,     \* of each battery reader
    bridge,     \* the bridge task, a receiver of the input channel
    outputs,    \* everything sent on the channel of the subscriber
    subscriber, \* its receiver
    reads,
    \* History, read by the properties only:
    last, gap   \* last event that the subscriber got; whether it was told of a loss since

vars == <<thread, source, level, available, handle, inputs, reader, bridge, outputs, subscriber,
          reads, last, gap>>

Event == {DecodeInputReport(report) : report \in Reports} \ {None}
IsLevel(event) == event.kind = "battery"
\* An event has its number; a notice of loss has the number of messages skipped.
Output == [event : 1..MaxEvents] \cup [skipped : 1..MaxEvents]

\* The states of the thread, and of the receivers of a channel of n messages.
Threads == [pc : {"opening", "top", "reading", "ended"}]
              \cup [pc : {"caching"}, event : {e \in Event : IsLevel(e)}]
              \cup [pc : {"sending"}, event : Event]
Readers(n) == [pc : {"idle"}]
                 \cup [pc : {"cache", "input", "wait"}, at : 0..n, lagged : BOOLEAN]
Bridges(n) == [pc : {"none", "ended"}] \cup [pc : {"running"}, at : 0..n]
Subscribers(n) == [pc : {"none", "dropped"}] \cup [pc : {"listening", "closed"}, at : 0..n]

TypeOK ==
    /\ thread \in Threads
    /\ level \in 0..100 \cup {None}
    /\ available \in BOOLEAN
    /\ handle \in BOOLEAN
    /\ inputs \in Seq(Event) /\ Len(inputs) <= MaxEvents
    /\ \A i \in DOMAIN inputs : ProperEvent(inputs[i])
    /\ reader \in [Reader -> Readers(Len(inputs))]
    /\ bridge \in Bridges(Len(inputs))
    /\ outputs \in Seq(Output) /\ Len(outputs) <= Len(inputs)
    /\ subscriber \in Subscribers(Len(outputs))
    /\ last \in 0..Len(inputs) /\ gap \in BOOLEAN

Init ==
    /\ thread = [pc |-> "opening"] /\ source = [wanted |-> None, read |-> None, apart |-> FALSE]
    /\ level = None /\ available = FALSE /\ handle = TRUE
    /\ inputs = <<>> /\ outputs = <<>>
    /\ reader = [r \in Reader |-> [pc |-> "idle"]]
    /\ bridge = [pc |-> "none"] /\ subscriber = [pc |-> "none"]
    /\ reads = 0 /\ last = 0 /\ gap = FALSE

-----------------------------------------------------------------------------
(* A broadcast channel with everything sent on it, and a receiver that has  *)
(* taken the first `at' messages.                                           *)

Behind(log, at) == Len(log) - at > Capacity
Oldest(log) == Len(log) - Capacity
Unread(log, at) == {i \in at + 1..Len(log) : i > Len(log) - Capacity}

-----------------------------------------------------------------------------
(* The input thread: spawn_input_worker. *)

Goto(pc) == thread' = [pc |-> pc]
Others == <<handle, reader, bridge, outputs, subscriber, reads, last, gap>>

\* The paths tell the mice apart: the mouse's own input is listed, and no input
\* of another mouse has the family of its configuration. On Windows identical
\* mice share the family.
ToldApart(configuration, auxiliary) ==
    /\ \E i \in DOMAIN auxiliary : auxiliary[i].mouse = configuration.mouse
    /\ \A i \in DOMAIN auxiliary :
          auxiliary[i].family = configuration.family => auxiliary[i].mouse = configuration.mouse

OpenInput ==
    /\ thread.pc = "opening"
    /\ \E usb \in Layouts :
          LET input == InputCollection(usb.selector, usb.configurations, usb.inputs)
              wanted == usb.configurations[SelectCandidate(usb.selector, usb.configurations)]
          IN  \/ /\ input # None
                 /\ source' = [wanted |-> wanted.mouse, read |-> input.mouse,
                               apart |-> ToldApart(wanted, usb.inputs)]
                 /\ Goto("top") /\ available' = TRUE
              \* There is none, or it cannot be opened.
              \/ Goto("ended") /\ available' = FALSE /\ UNCHANGED source
    /\ UNCHANGED <<level, inputs, Others>>

\* Faulty variant: the thread keeps the handle's flag alive itself.
UpgradeStrong == thread.pc = "top" /\ Goto("reading") /\ UNCHANGED <<source, level, available, inputs, Others>>

\* Weak::upgrade: the thread ends once the handle is gone.
Upgrade ==
    /\ thread.pc = "top"
    /\ IF handle THEN Goto("reading") ELSE Goto("ended")
    /\ UNCHANGED <<source, level, available, inputs, Others>>

\* A report within the time-out, none, or an error.
ReadInput ==
    /\ thread.pc = "reading"
    /\ \/ /\ Len(inputs) < MaxEvents
          /\ \E report \in Reports :
                LET e == DecodeInputReport(report)
                IN  IF e = None THEN Goto("top")
                    ELSE thread' = [pc |-> IF IsLevel(e) THEN "caching" ELSE "sending", event |-> e]
          /\ UNCHANGED available
       \/ Goto("top") /\ UNCHANGED available
       \/ Goto("ended") /\ available' = FALSE
    /\ UNCHANGED <<source, level, inputs, Others>>

CacheLevel ==
    /\ thread.pc = "caching"
    /\ level' = thread.event.value
    /\ thread' = [thread EXCEPT !.pc = "sending"]
    /\ UNCHANGED <<source, available, inputs, Others>>

SendInput ==
    /\ thread.pc = "sending"
    /\ inputs' = Append(inputs, thread.event)
    /\ Goto("top")
    /\ UNCHANGED <<source, level, available, Others>>

-----------------------------------------------------------------------------
(* MouseHandle::read_battery on a receiver session. *)

ReaderGoes(r, state) ==
    /\ reader' = [reader EXCEPT ![r] = state]
    /\ UNCHANGED <<thread, source, level, available, handle, inputs, bridge, outputs, subscriber, last, gap>>

ReadBattery(r) ==
    /\ reads < MaxReads /\ reads' = reads + 1
    /\ handle /\ thread.pc # "opening" /\ reader[r].pc = "idle"
    /\ ReaderGoes(r, [pc |-> "cache", at |-> Len(inputs), lagged |-> FALSE])

\* A cached level is the answer.
CheckCache(r) ==
    /\ reader[r].pc = "cache" /\ UNCHANGED reads
    /\ IF level # None THEN ReaderGoes(r, [pc |-> "idle"])
       ELSE ReaderGoes(r, [reader[r] EXCEPT !.pc = "input"])

\* Faulty variant: the subscription comes after the look at the cache.
SubscribeLate(r) ==
    /\ reader[r].pc = "input" /\ UNCHANGED reads
    /\ IF available THEN ReaderGoes(r, [reader[r] EXCEPT !.pc = "wait", !.at = Len(inputs)])
       ELSE ReaderGoes(r, [pc |-> "idle"])

\* InputUnavailable when the input thread is gone.
CheckInput(r) ==
    /\ reader[r].pc = "input" /\ UNCHANGED reads
    /\ IF available THEN ReaderGoes(r, [reader[r] EXCEPT !.pc = "wait"])
       ELSE ReaderGoes(r, [pc |-> "idle"])

\* A loss is ignored, a level is the answer, anything else is passed over.
Receive(r) ==
    /\ reader[r].pc = "wait" /\ reader[r].at < Len(inputs) /\ UNCHANGED reads
    /\ IF Behind(inputs, reader[r].at)
       THEN ReaderGoes(r, [reader[r] EXCEPT !.at = Oldest(inputs), !.lagged = TRUE])
       ELSE IF IsLevel(inputs[reader[r].at + 1]) THEN ReaderGoes(r, [pc |-> "idle"])
       ELSE ReaderGoes(r, [reader[r] EXCEPT !.at = @ + 1])

\* Faulty variant: no time limit, only the end of the channel, which the reader's
\* own handle keeps open.
WaitUntilClosed(r) ==
    /\ reader[r].pc = "wait" /\ ~handle /\ thread.pc = "ended" /\ UNCHANGED reads
    /\ ReaderGoes(r, [pc |-> "idle"])

\* BatteryTimeout, when nothing is left to receive.
TimeOut(r) ==
    /\ reader[r].pc = "wait" /\ reader[r].at = Len(inputs) /\ UNCHANGED reads
    /\ ReaderGoes(r, [pc |-> "idle"])

-----------------------------------------------------------------------------
(* DeviceManager::subscribe_events and its bridge task. *)

Subscribe ==
    /\ handle /\ thread.pc # "opening" /\ bridge.pc = "none"
    /\ bridge' = [pc |-> "running", at |-> Len(inputs)]
    /\ subscriber' = [pc |-> "listening", at |-> 0]
    /\ last' = Len(inputs)
    /\ UNCHANGED <<thread, source, level, available, handle, inputs, reader, outputs, reads, gap>>

\* The session of the subscription, or the last clone of a handle, is dropped.
DropHandle ==
    /\ handle /\ \A r \in Reader : reader[r].pc = "idle"
    /\ thread.pc # "opening" /\ handle' = FALSE
    /\ UNCHANGED <<thread, source, level, available, inputs, reader, bridge, outputs, subscriber,
                   reads, last, gap>>

DropReceiver ==
    /\ subscriber.pc = "listening"
    /\ subscriber' = [pc |-> "dropped"]
    /\ UNCHANGED <<thread, source, level, available, handle, inputs, reader, bridge, outputs,
                   reads, last, gap>>

\* The bridge forwards the event or the notice of a loss, and ends when there is
\* no subscriber.
Forward(at, output) ==
    IF subscriber.pc = "listening"
    THEN outputs' = Append(outputs, output) /\ bridge' = [bridge EXCEPT !.at = at]
    ELSE bridge' = [pc |-> "ended"] /\ UNCHANGED outputs

\* Faulty variant: the bridge ignores its own losses.
BridgeIgnoringLoss ==
    /\ bridge.pc = "running" /\ bridge.at < Len(inputs)
    /\ LET at == IF Behind(inputs, bridge.at) THEN Oldest(inputs) ELSE bridge.at IN
          Forward(at + 1, [event |-> at + 1])
    /\ UNCHANGED <<thread, source, level, available, handle, inputs, reader, subscriber, reads, last, gap>>

Bridge ==
    /\ bridge.pc = "running" /\ bridge.at < Len(inputs)
    /\ IF Behind(inputs, bridge.at)
       THEN Forward(Oldest(inputs), [skipped |-> Oldest(inputs) - bridge.at])
       ELSE Forward(bridge.at + 1, [event |-> bridge.at + 1])
    /\ UNCHANGED <<thread, source, level, available, handle, inputs, reader, subscriber, reads, last, gap>>

\* The input channel is closed when the handle and the thread are gone.
InputClosed == ~handle /\ thread.pc = "ended"

BridgeEnds ==
    /\ bridge.pc = "running" /\ bridge.at = Len(inputs) /\ InputClosed
    /\ bridge' = [pc |-> "ended"]
    /\ UNCHANGED <<thread, source, level, available, handle, inputs, reader, outputs, subscriber,
                   reads, last, gap>>

\* The event loop of the application: an event, a notice of either channel's
\* loss, or the end of the channel.
NextOutput ==
    /\ subscriber.pc = "listening"
    /\ LET at == subscriber.at IN
       \/ /\ Behind(outputs, at)
          /\ subscriber' = [subscriber EXCEPT !.at = Oldest(outputs)]
          /\ gap' = TRUE /\ UNCHANGED last
       \/ /\ ~Behind(outputs, at) /\ at < Len(outputs)
          /\ subscriber' = [subscriber EXCEPT !.at = @ + 1]
          /\ IF "event" \in DOMAIN outputs[at + 1]
             THEN last' = outputs[at + 1].event /\ gap' = FALSE
             ELSE gap' = TRUE /\ UNCHANGED last
       \/ /\ at = Len(outputs) /\ bridge.pc = "ended"
          /\ subscriber' = [subscriber EXCEPT !.pc = "closed"]
          /\ UNCHANGED <<last, gap>>
    /\ UNCHANGED <<thread, source, level, available, handle, inputs, reader, bridge, outputs, reads>>

-----------------------------------------------------------------------------
InputThread == OpenInput \/ Upgrade \/ ReadInput \/ CacheLevel \/ SendInput
ReaderStep(r) == CheckCache(r) \/ CheckInput(r) \/ Receive(r) \/ TimeOut(r)
BridgeStep == Bridge \/ BridgeEnds

Next ==
    \/ InputThread \/ BridgeStep \/ NextOutput
    \/ \E r \in Reader : ReadBattery(r) \/ ReaderStep(r)
    \/ Subscribe \/ DropHandle \/ DropReceiver

\* Threads and tasks run, and read_battery has a time limit; nothing makes the
\* application listen.
Spec ==
    /\ Init /\ [][Next]_vars
    /\ WF_vars(InputThread) /\ WF_vars(BridgeStep)
    /\ \A r \in Reader : WF_vars(ReaderStep(r))

-----------------------------------------------------------------------------
(* Properties. *)

\* read_battery does not overlook a level: while it waits, a level that has been
\* observed is in a message it has yet to receive, or about to be sent, unless
\* the reader was overrun (it looks at the cache only once).
LevelReachesReader ==
    \A r \in Reader :
        reader[r].pc = "wait" /\ level # None =>
            \/ reader[r].lagged \/ Behind(inputs, reader[r].at)
            \/ \E i \in Unread(inputs, reader[r].at) : IsLevel(inputs[i])
            \/ thread.pc = "sending" /\ IsLevel(thread.event)

\* Whatever collections are listed, in whatever order and however many of them
\* are there yet, a session gets the input of the mouse whose configuration it
\* has opened, or none: except where the paths do not tell the mice apart
\* (usb.rs:154 opens the first input of the family, which two identical mice on
\* Windows share) or the mouse's own input is not listed yet (the fallback of
\* usb.rs:155-161 takes the only input there is).
InputOfTheSelected == source.apart => source.read = source.wanted

\* events.rs:18-22: consumers can detect gaps instead of silently resuming.  The
\* subscriber gets input events in their order, and learns of a loss in either
\* channel, even of a lost notice, before the first event after it.
GapsAreNoticed ==
    [][last' # last /\ subscriber.pc = "listening" =>
          /\ last' > last
          /\ last' > last + 1 => gap]_vars

\* events.rs:10-11: dropping the subscription closes the session and stops the
\* input worker; the bridge ends too.
SubscriptionEnds ==
    /\ ~handle ~> thread.pc = "ended"
    /\ (~handle /\ bridge.pc = "running") ~> bridge.pc = "ended"

\* A read of the battery ends.
ReadsEnd == \A r \in Reader : reader[r].pc = "wait" ~> reader[r].pc = "idle"
=============================================================================
