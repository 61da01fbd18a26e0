-------------------------- MODULE InputEventsProofs --------------------------
(****************************************************************************)
(* What becomes of what the mouse reports.  Input reports: what the decoder *)
(* answers to any bytes, that a reader of the battery level overlooks none, *)
(* and that the subscriber of the device events learns of every loss,       *)
(* whatever the capacity of the channels.  The window, where these events   *)
(* end: that it follows and shows the loaded mouse only.                    *)
(****************************************************************************)
EXTENDS InputEvents, Gui, TLAPS

\* The report that the thread has taken is one of the MaxEvents.
Room == thread.pc \in {"caching", "sending"} => Len(inputs) < MaxEvents

\* A reader that found the cache empty: a level cached since is in a message
\* after its subscription, or about to be sent.
Coming(r) ==
    \/ \E i \in 1..Len(inputs) : i > reader[r].at /\ IsLevel(inputs[i])
    \/ thread.pc = "sending" /\ IsLevel(thread.event)
Attentive(r) ==
    reader[r].pc \in {"input", "wait"} /\ ~reader[r].lagged /\ level # None => Coming(r)

IsEvent(i) == "event" \in DOMAIN outputs[i]

\* What the bridge forwards: the events in their order, and an event right after
\* another in the channel is the next one of the mouse.
InOrder ==
    /\ \A i \in 1..Len(outputs) : IsEvent(i) => outputs[i].event <= Len(inputs)
    /\ \A i, j \in 1..Len(outputs) :
          IsEvent(i) /\ IsEvent(j) /\ i < j => outputs[i].event < outputs[j].event
    /\ \A i \in 1..Len(outputs) :
          i < Len(outputs) /\ IsEvent(i) /\ IsEvent(i + 1)
             => outputs[i + 1].event = outputs[i].event + 1

\* Where the bridge stands on the input channel.
BridgeAt ==
    /\ bridge.pc = "none" => outputs = <<>> /\ subscriber.pc = "none"
    /\ bridge.pc = "running" =>
          /\ Len(outputs) <= bridge.at
          /\ last <= bridge.at
          /\ \A i \in 1..Len(outputs) : IsEvent(i) => outputs[i].event <= bridge.at
          /\ outputs # <<>> /\ IsEvent(Len(outputs)) => outputs[Len(outputs)].event = bridge.at

\* Where the subscriber stands on its own: unless it was told of a loss, nothing
\* is missing before the message it takes next.
SubscriberAt ==
    subscriber.pc = "listening" =>
        LET at == subscriber.at IN
        /\ \A i \in 1..Len(outputs) : i > at /\ IsEvent(i) => outputs[i].event > last
        /\ at < Len(outputs) /\ IsEvent(at + 1) /\ ~gap => outputs[at + 1].event = last + 1
        /\ bridge.pc = "running" /\ at = Len(outputs) /\ ~gap => bridge.at = last

IInv ==
    /\ TypeOK
    /\ Room /\ \A r \in Reader : Attentive(r)
    /\ InOrder /\ BridgeAt /\ SubscriberAt

-----------------------------------------------------------------------------
(* decode_input_report on any bytes. *)

LEMMA BytesAt ==
    ASSUME NEW report \in Seq(Byte), Len(report) >= 5
    PROVE  \A i \in 1..5 : report[i] \in Byte
OBVIOUS

\* The kind and the range of every event there is.
LEMMA ProperKinds ==
    ASSUME NEW value
    PROVE  /\ value \in 1..8 => ProperEvent(InputEvent("stage", value))
           /\ value \in 1..5 => ProperEvent(InputEvent("secondary", value))
           /\ value \in 0..100 => ProperEvent(InputEvent("battery", value))
           /\ value \in BOOLEAN => ProperEvent(InputEvent("connection", value))
           /\ value \in 1..10 => ProperEvent(InputEvent("index", value))
           /\ value \in 0..7 => ProperEvent(InputEvent("led", value))
           /\ value \in 1..5 => ProperEvent(InputEvent("sync", value))
<1>1. \A kind : InputEvent(kind, value).kind = kind /\ InputEvent(kind, value).value = value
  BY DEF InputEvent
<1>2. ASSUME NEW kind PROVE ProperEvent(InputEvent(kind, value)) <=>
          CASE kind = "stage" -> value \in 1..8
            [] kind \in {"secondary", "sync"} -> value \in 1..5
            [] kind = "battery" -> value \in 0..100
            [] kind = "connection" -> value \in BOOLEAN
            [] kind = "index" -> value \in 1..10
            [] kind = "led" -> value \in 0..7
  BY <1>1 DEF ProperEvent
<1> QED BY <1>2

LEMMA PayloadProper ==
    ASSUME NEW kind, NEW report, NEW range, NEW value,
           report[4] \in range => ProperEvent(InputEvent(kind, value))
    PROVE  \/ Payload(kind, report, range, value) = None
           \/ ProperEvent(Payload(kind, report, range, value))
BY DEF Payload

LEMMA BatteryProper ==
    ASSUME NEW report, report[5] \in Byte, NEW type, Battery(report, type) # None
    PROVE  ProperEvent(Battery(report, type))
<1>1. ASSUME NEW b \in Byte PROVE /\ b \in 1..10 => b * 10 \in 0..100
                                  /\ b <= 100 => b \in 0..100
  BY DEF Byte
<1> QED BY <1>1, ProperKinds DEF Battery

\* An event says nothing outside its range, whatever the bytes.
LEMMA DecodedIsProper ==
    ASSUME NEW report \in Seq(Byte), DecodeInputReport(report) # None
    PROVE  ProperEvent(DecodeInputReport(report))
<1> DEFINE e == DecodeInputReport(report)
           type == report[2] + (256 * report[3])
           data == report[4]
<1>1. Len(report) >= 5
  BY DEF DecodeInputReport
<1>2. data \in Byte /\ report[5] \in Byte
  BY <1>1, BytesAt
<1>3. e = CASE type = Types.stage -> Payload("stage", report, 1..8, data)
            [] type = Types.secondary -> Payload("secondary", report, 1..5, data)
            [] type \in {Types.batteryX3, Types.batteryX11} -> Battery(report, type)
            [] type = Types.connection -> Payload("connection", report, {0, 1}, data = 0)
            [] type = Types.index -> Payload("index", report, 1..10, data)
            [] type = Types.led -> Payload("led", report, 0..7, data)
            [] type = Types.sync -> Payload("sync", report, 0..4, data + 1)
            [] OTHER -> None
  BY DEF DecodeInputReport
<1>4. data \in 0..4 => data + 1 \in 1..5
  BY <1>2 DEF Byte
<1> HIDE DEF type, e
<1>5. e \in {None, Payload("stage", report, 1..8, data),
             Payload("secondary", report, 1..5, data), Battery(report, type),
             Payload("connection", report, {0, 1}, data = 0),
             Payload("index", report, 1..10, data), Payload("led", report, 0..7, data),
             Payload("sync", report, 0..4, data + 1)}
  BY <1>3
<1>6. /\ Payload("stage", report, 1..8, data) = None
           \/ ProperEvent(Payload("stage", report, 1..8, data))
      /\ Payload("secondary", report, 1..5, data) = None
           \/ ProperEvent(Payload("secondary", report, 1..5, data))
      /\ Payload("connection", report, {0, 1}, data = 0) = None
           \/ ProperEvent(Payload("connection", report, {0, 1}, data = 0))
      /\ Payload("index", report, 1..10, data) = None
           \/ ProperEvent(Payload("index", report, 1..10, data))
      /\ Payload("led", report, 0..7, data) = None
           \/ ProperEvent(Payload("led", report, 0..7, data))
      /\ Payload("sync", report, 0..4, data + 1) = None
           \/ ProperEvent(Payload("sync", report, 0..4, data + 1))
  BY <1>4, ProperKinds, PayloadProper
<1> QED BY <1>2, <1>5, <1>6, BatteryProper DEF e

LEMMA EventProper == \A e \in Event : ProperEvent(e)
BY DecodedIsProper, ReportsAssumption DEF Event

LEMMA LevelRange == \A e \in Event : IsLevel(e) => e.value \in 0..100
BY EventProper DEF ProperEvent, IsLevel

-----------------------------------------------------------------------------
\* A longer channel leaves every receiver where it is.
LEMMA Longer ==
    ASSUME NEW m \in Nat, NEW n \in Nat, m <= n
    PROVE  /\ Readers(m) \subseteq Readers(n) /\ Bridges(m) \subseteq Bridges(n)
           /\ Subscribers(m) \subseteq Subscribers(n) /\ 0..m \subseteq 0..n
<1>1. 0..m \subseteq 0..n
  OBVIOUS
<1> QED BY <1>1 DEF Readers, Bridges, Subscribers

LEMMA InvInit == Init => IInv
<1> SUFFICES ASSUME Init PROVE IInv
  OBVIOUS
<1>1. Len(inputs) = 0 /\ Len(outputs) = 0 /\ inputs \in Seq(Event) /\ outputs \in Seq(Output)
  BY DEF Init
<1>2. thread \in Threads
  BY DEF Init, Threads
<1>3. reader \in [Reader -> Readers(Len(inputs))]
  BY DEF Init, Readers
<1>4. bridge \in Bridges(Len(inputs)) /\ subscriber \in Subscribers(Len(outputs))
  BY DEF Init, Bridges, Subscribers
<1>5. \A i \in DOMAIN inputs : ProperEvent(inputs[i])
  BY DEF Init
<1>6. Len(inputs) <= MaxEvents /\ Len(outputs) <= Len(inputs) /\ last \in 0..Len(inputs)
  BY <1>1, BoundsAssumption DEF Init
<1>8. level = None /\ available = FALSE /\ handle = TRUE /\ gap = FALSE
  BY DEF Init
<1>9. TypeOK
  BY <1>1, <1>2, <1>3, <1>4, <1>5, <1>6, <1>8 DEF TypeOK
<1>7. Room /\ InOrder /\ BridgeAt /\ SubscriberAt /\ \A r \in Reader : Attentive(r)
  BY <1>1 DEF Init, Room, InOrder, BridgeAt, SubscriberAt, Attentive
<1> QED BY <1>7, <1>9 DEF IInv

\* The channel of the mouse grows by one event, which the bridge and the readers
\* have yet to receive.
LEMMA SendInputAppends ==
    ASSUME IInv, SendInput
    PROVE  /\ thread.pc = "sending" /\ thread.event \in Event
           /\ inputs' \in Seq(Event) /\ Len(inputs') = Len(inputs) + 1
           /\ Len(inputs) \in Nat /\ Len(inputs') <= MaxEvents
           /\ \A i \in 1..Len(inputs) : inputs'[i] = inputs[i]
           /\ inputs'[Len(inputs) + 1] = thread.event
<1>1. thread.pc = "sending" /\ inputs' = Append(inputs, thread.event)
  BY DEF SendInput
<1>2. thread \in Threads /\ inputs \in Seq(Event) /\ Room
  BY DEF IInv, TypeOK
<1>3. thread.event \in Event
  BY <1>1, <1>2 DEF Threads
<1>4. Len(inputs) < MaxEvents /\ Len(inputs) \in Nat
  BY <1>1, <1>2 DEF Room
<1> QED BY <1>1, <1>2, <1>3, <1>4, BoundsAssumption

LEMMA TypeThread == IInv /\ InputThread => TypeOK'
<1> SUFFICES ASSUME IInv, InputThread PROVE TypeOK'
  OBVIOUS
<1>t. TypeOK /\ Room
  BY DEF IInv
<1> USE <1>t DEF TypeOK
<1>1. \A pc \in {"opening", "top", "reading", "ended"} : [pc |-> pc] \in Threads
  BY DEF Threads
<1>2. CASE OpenInput
  BY <1>1, <1>2 DEF OpenInput, Goto, Others
<1>3. CASE Upgrade
  BY <1>1, <1>3 DEF Upgrade, Goto, Others
<1>4. CASE ReadInput
  <2>1. \A e \in Event : [pc |-> IF IsLevel(e) THEN "caching" ELSE "sending", event |-> e] \in Threads
    BY DEF Threads
  <2>2. thread' \in Threads /\ available' \in BOOLEAN
    BY <1>1, <1>4, <2>1 DEF ReadInput, Goto, Event
  <2> QED BY <1>4, <2>2 DEF ReadInput, Others
<1>5. CASE CacheLevel
  <2>1. thread.event \in Event /\ IsLevel(thread.event) /\ thread \in [pc : {"caching"}, event : Event]
    BY <1>5 DEF CacheLevel, Threads
  <2>2. thread' \in Threads
    BY <1>5, <2>1 DEF CacheLevel, Threads
  <2>3. level' \in 0..100
    BY <1>5, <2>1, LevelRange DEF CacheLevel
  <2> QED BY <1>5, <2>2, <2>3 DEF CacheLevel, Others
<1>6. CASE SendInput
  <2>1. /\ thread.event \in Event /\ inputs' \in Seq(Event) /\ Len(inputs') = Len(inputs) + 1
        /\ Len(inputs) \in Nat /\ Len(inputs') <= MaxEvents
        /\ \A i \in 1..Len(inputs) : inputs'[i] = inputs[i]
        /\ inputs'[Len(inputs) + 1] = thread.event
    BY <1>6, SendInputAppends
  <2>2. \A i \in DOMAIN inputs' : ProperEvent(inputs'[i])
    BY <2>1, EventProper
  <2>3. /\ Readers(Len(inputs)) \subseteq Readers(Len(inputs'))
        /\ Bridges(Len(inputs)) \subseteq Bridges(Len(inputs'))
        /\ 0..Len(inputs) \subseteq 0..Len(inputs')
    BY <2>1, Longer
  <2>4. Len(outputs) <= Len(inputs')
    BY <2>1
  <2>5. thread' \in Threads
    BY <1>1, <1>6 DEF SendInput, Goto
  <2>6. reader' \in [Reader -> Readers(Len(inputs'))]
    BY <1>6, <2>3 DEF SendInput, Others
  <2> QED BY <1>6, <2>1, <2>2, <2>3, <2>4, <2>5, <2>6 DEF SendInput, Others
<1> QED BY <1>2, <1>3, <1>4, <1>5, <1>6 DEF InputThread

LEMMA TypeReader ==
    ASSUME IInv, NEW r \in Reader, ReadBattery(r) \/ ReaderStep(r)
    PROVE  TypeOK'
<1>t. TypeOK
  BY DEF IInv
<1>n. Len(inputs) \in Nat /\ Len(inputs) \in 0..Len(inputs)
  BY <1>t DEF TypeOK
<1>0. ASSUME NEW state \in Readers(Len(inputs)), ReaderGoes(r, state) PROVE TypeOK'
  BY <1>0, <1>t DEF TypeOK, ReaderGoes
<1>1. [pc |-> "idle"] \in Readers(Len(inputs))
  BY DEF Readers
<1>2. CASE ReadBattery(r)
  <2>1. [pc |-> "cache", at |-> Len(inputs), lagged |-> FALSE] \in Readers(Len(inputs))
    BY <1>n DEF Readers
  <2> QED BY <1>0, <1>2, <2>1 DEF ReadBattery
<1>3. ASSUME reader[r].pc \in {"cache", "input", "wait"}
      PROVE  /\ reader[r] \in [pc : {"cache", "input", "wait"}, at : 0..Len(inputs),
                               lagged : BOOLEAN]
  BY <1>3, <1>t DEF TypeOK, Readers
<1>4. CASE CheckCache(r)
  <2>1. [reader[r] EXCEPT !.pc = "input"] \in Readers(Len(inputs))
    BY <1>3, <1>4 DEF CheckCache, Readers
  <2> QED BY <1>0, <1>1, <1>4, <2>1 DEF CheckCache
<1>5. CASE CheckInput(r)
  <2>1. [reader[r] EXCEPT !.pc = "wait"] \in Readers(Len(inputs))
    BY <1>3, <1>5 DEF CheckInput, Readers
  <2> QED BY <1>0, <1>1, <1>5, <2>1 DEF CheckInput
<1>6. CASE Receive(r)
  <2>1. /\ reader[r].at \in 0..Len(inputs) /\ reader[r].at < Len(inputs)
        /\ reader[r].at + 1 \in 0..Len(inputs)
    BY <1>3, <1>6, <1>n DEF Receive
  <2>2. Behind(inputs, reader[r].at) => Oldest(inputs) \in 0..Len(inputs)
    BY <1>n, <2>1, CapacityAssumption DEF Behind, Oldest
  <2>3. Behind(inputs, reader[r].at)
          => [reader[r] EXCEPT !.at = Oldest(inputs), !.lagged = TRUE] \in Readers(Len(inputs))
    BY <1>3, <1>6, <2>2 DEF Receive, Readers
  <2>4. [reader[r] EXCEPT !.at = @ + 1] \in Readers(Len(inputs))
    BY <1>3, <1>6, <2>1 DEF Receive, Readers
  <2> QED BY <1>0, <1>1, <1>6, <2>3, <2>4 DEF Receive
<1>7. CASE TimeOut(r)
  BY <1>0, <1>1, <1>7 DEF TimeOut
<1> QED BY <1>2, <1>4, <1>5, <1>6, <1>7 DEF ReaderStep

\* One message more for the subscriber, and the new position of the bridge.
LEMMA BridgeAppends ==
    ASSUME IInv, Bridge, subscriber.pc = "listening"
    PROVE  LET at == bridge.at
               lost == Behind(inputs, at)
               next == IF lost THEN Oldest(inputs) ELSE at + 1
               message == IF lost THEN [skipped |-> next - at] ELSE [event |-> at + 1]
           IN  /\ bridge.pc = "running" /\ at \in Nat /\ next \in Nat
               /\ at < next /\ next <= Len(inputs)
               /\ Len(outputs) \in Nat /\ Len(outputs) <= at
               /\ message \in Output
               /\ outputs' = Append(outputs, message)
               /\ bridge' = [pc |-> "running", at |-> next]
<1> DEFINE at == bridge.at
           lost == Behind(inputs, at)
           next == IF lost THEN Oldest(inputs) ELSE at + 1
           message == IF lost THEN [skipped |-> next - at] ELSE [event |-> at + 1]
<1>1. /\ bridge \in [pc : {"running"}, at : 0..Len(inputs)] /\ at < Len(inputs)
      /\ Len(inputs) \in Nat /\ Len(inputs) <= MaxEvents /\ Len(outputs) \in Nat
      /\ Len(outputs) <= at
  BY DEF IInv, TypeOK, Bridge, Bridges, BridgeAt
<1>2. at \in Nat /\ next \in Nat /\ at < next /\ next <= Len(inputs)
  BY <1>1, CapacityAssumption DEF Behind, Oldest
<1>3. lost => next - at \in 1..MaxEvents
  BY <1>1, <1>2, BoundsAssumption
<1>4. at + 1 \in 1..MaxEvents
  BY <1>1, <1>2, BoundsAssumption
<1>5. message \in Output
  BY <1>3, <1>4 DEF Output
<1>6. outputs' = Append(outputs, message) /\ bridge' = [bridge EXCEPT !.at = next]
  BY DEF Bridge, Forward
<1> HIDE DEF message, next
<1>7. bridge' = [pc |-> "running", at |-> next]
  BY <1>1, <1>6
<1> QED BY <1>1, <1>2, <1>5, <1>6, <1>7 DEF next, message

LEMMA OutputEvent ==
    ASSUME TypeOK, NEW i \in 1..Len(outputs), IsEvent(i)
    PROVE  outputs[i].event \in Nat
<1>1. outputs[i] \in Output
  BY DEF TypeOK
<1> QED BY <1>1, BoundsAssumption DEF Output, IsEvent

LEMMA TypeEvents ==
    ASSUME IInv, BridgeStep \/ NextOutput \/ Subscribe \/ DropHandle \/ DropReceiver
    PROVE  TypeOK'
<1>t. TypeOK
  BY DEF IInv
<1>n. Len(inputs) \in Nat /\ Len(outputs) \in Nat
  BY <1>t DEF TypeOK
<1>1. CASE Bridge /\ subscriber.pc = "listening"
  <2> DEFINE next == IF Behind(inputs, bridge.at) THEN Oldest(inputs) ELSE bridge.at + 1
             message == IF Behind(inputs, bridge.at) THEN [skipped |-> next - bridge.at]
                        ELSE [event |-> bridge.at + 1]
  <2>1. /\ next \in 0..Len(inputs) /\ Len(outputs) < next /\ message \in Output
        /\ outputs' = Append(outputs, message) /\ bridge' = [pc |-> "running", at |-> next]
    BY <1>1, <1>n, BridgeAppends
  <2> HIDE DEF next, message
  <2>2. outputs' \in Seq(Output) /\ Len(outputs') = Len(outputs) + 1 /\ Len(outputs') <= Len(inputs)
    BY <1>t, <1>n, <2>1 DEF TypeOK
  <2>3. bridge' \in Bridges(Len(inputs))
    BY <2>1 DEF Bridges
  <2>4. Subscribers(Len(outputs)) \subseteq Subscribers(Len(outputs'))
    BY <1>n, <2>2, Longer
  <2> QED BY <1>1, <1>t, <2>2, <2>3, <2>4 DEF TypeOK, Bridge
<1>2. [pc |-> "ended"] \in Bridges(Len(inputs))
  BY DEF Bridges
<1>3. CASE Bridge /\ subscriber.pc # "listening"
  BY <1>2, <1>3, <1>t DEF TypeOK, Bridge, Forward
<1>4. CASE BridgeEnds
  BY <1>2, <1>4, <1>t DEF TypeOK, BridgeEnds
<1>5. CASE NextOutput
  <2>1. subscriber \in [pc : {"listening"}, at : 0..Len(outputs)]
    BY <1>5, <1>t DEF TypeOK, NextOutput, Subscribers
  <2> DEFINE at == subscriber.at
  <2>2. CASE /\ Behind(outputs, at)
             /\ subscriber' = [subscriber EXCEPT !.at = Oldest(outputs)]
             /\ gap' = TRUE /\ UNCHANGED last
    <3>1. Oldest(outputs) \in 0..Len(outputs)
      BY <1>n, <2>1, <2>2, CapacityAssumption DEF Behind, Oldest
    <3>2. subscriber' \in Subscribers(Len(outputs))
      BY <2>1, <2>2, <3>1 DEF Subscribers
    <3> QED BY <1>5, <1>t, <2>2, <3>2 DEF TypeOK, NextOutput
  <2>3. CASE /\ at < Len(outputs)
             /\ subscriber' = [subscriber EXCEPT !.at = @ + 1]
             /\ IF IsEvent(at + 1) THEN last' = outputs[at + 1].event /\ gap' = FALSE
                ELSE gap' = TRUE /\ UNCHANGED last
    <3>1. at + 1 \in 1..Len(outputs) /\ at + 1 \in 0..Len(outputs)
      BY <1>n, <2>1, <2>3
    <3>2. subscriber' \in Subscribers(Len(outputs))
      BY <2>1, <2>3, <3>1 DEF Subscribers
    <3>3. last' \in 0..Len(inputs) /\ gap' \in BOOLEAN
      <4>1. IsEvent(at + 1) => outputs[at + 1].event \in 0..Len(inputs)
        BY <1>n, <3>1, OutputEvent DEF IInv, InOrder
      <4> QED BY <1>t, <2>3, <4>1 DEF TypeOK
    <3> QED BY <1>5, <1>t, <3>2, <3>3 DEF TypeOK, NextOutput
  <2>4. CASE subscriber' = [subscriber EXCEPT !.pc = "closed"] /\ UNCHANGED <<last, gap>>
    <3>1. subscriber' \in Subscribers(Len(outputs))
      BY <2>1, <2>4 DEF Subscribers
    <3> QED BY <1>5, <1>t, <2>4, <3>1 DEF TypeOK, NextOutput
  <2> QED BY <1>5, <2>2, <2>3, <2>4 DEF NextOutput, IsEvent
<1>6. CASE Subscribe
  <2>1. [pc |-> "running", at |-> Len(inputs)] \in Bridges(Len(inputs))
    BY <1>n DEF Bridges
  <2>2. [pc |-> "listening", at |-> 0] \in Subscribers(Len(outputs))
    BY <1>n DEF Subscribers
  <2>3. Len(inputs) \in 0..Len(inputs)
    BY <1>n
  <2> QED BY <1>6, <1>t, <2>1, <2>2, <2>3 DEF TypeOK, Subscribe
<1>7. CASE DropHandle
  BY <1>7, <1>t DEF TypeOK, DropHandle
<1>8. CASE DropReceiver
  <2>1. [pc |-> "dropped"] \in Subscribers(Len(outputs))
    BY DEF Subscribers
  <2> QED BY <1>8, <1>t, <2>1 DEF TypeOK, DropReceiver
<1> QED BY <1>1, <1>3, <1>4, <1>5, <1>6, <1>7, <1>8 DEF BridgeStep

-----------------------------------------------------------------------------
(* The reader of the battery level. *)

LEMMA NextAttentive ==
    ASSUME IInv, Next, NEW r \in Reader
    PROVE  Attentive(r)'
<1>t. TypeOK /\ Attentive(r) /\ Len(inputs) \in Nat
  BY DEF IInv, TypeOK
<1>0. ASSUME reader'[r] = reader[r], UNCHANGED <<thread, level, inputs>> PROVE Attentive(r)'
  BY <1>0, <1>t DEF Attentive, Coming
<1>1. ASSUME UNCHANGED <<reader, level, inputs>>, thread.pc # "sending" PROVE Attentive(r)'
  BY <1>1, <1>t DEF Attentive, Coming
<1>2. CASE OpenInput \/ Upgrade \/ ReadInput
  BY <1>1, <1>2 DEF OpenInput, Upgrade, ReadInput, Others
<1>3. CASE CacheLevel
  <2>1. /\ thread \in [pc : {"caching"}, event : Event] /\ IsLevel(thread.event)
    BY <1>3, <1>t DEF CacheLevel, TypeOK, Threads
  <2>2. thread'.pc = "sending" /\ IsLevel(thread'.event)
    BY <1>3, <2>1 DEF CacheLevel
  <2> QED BY <2>2 DEF Attentive, Coming
<1>4. CASE SendInput
  <2>1. /\ Len(inputs') = Len(inputs) + 1 /\ inputs'[Len(inputs) + 1] = thread.event
        /\ \A i \in 1..Len(inputs) : inputs'[i] = inputs[i]
    BY <1>4, SendInputAppends
  <2>2. reader' = reader /\ level' = level
    BY <1>4 DEF SendInput, Others
  <2>3. ASSUME Coming(r), reader[r].pc \in {"input", "wait"} PROVE Coming(r)'
    <3>1. reader[r].at \in 0..Len(inputs)
      BY <1>t, <2>3 DEF TypeOK, Readers
    <3>2. CASE \E i \in 1..Len(inputs) : i > reader[r].at /\ IsLevel(inputs[i])
      BY <1>t, <2>1, <2>2, <3>2 DEF Coming
    <3>3. CASE IsLevel(thread.event)
      <4>1. Len(inputs) + 1 \in 1..Len(inputs') /\ Len(inputs) + 1 > reader'[r].at
        BY <1>t, <2>1, <2>2, <3>1
      <4> QED BY <2>1, <3>3, <4>1 DEF Coming
    <3> QED BY <2>3, <3>2, <3>3 DEF Coming
  <2> QED BY <1>t, <2>2, <2>3 DEF Attentive
<1>5. ASSUME NEW q \in Reader, NEW state, ReaderGoes(q, state),
             q = r => \/ state.pc \notin {"input", "wait"} \/ level = None
                      \/ /\ reader[r].pc \in {"input", "wait"}
                         /\ state.at = reader[r].at /\ state.lagged = reader[r].lagged
                      \/ state.lagged
                      \/ /\ reader[r].pc \in {"input", "wait"}
                         /\ state.lagged = reader[r].lagged
                         /\ reader[r].at \in Nat /\ state.at = reader[r].at + 1
                         /\ ~IsLevel(inputs[reader[r].at + 1])
      PROVE  Attentive(r)'
  <2>1. UNCHANGED <<thread, level, inputs>> /\ reader' = [reader EXCEPT ![q] = state]
    BY <1>5 DEF ReaderGoes
  <2>2. CASE q # r
    BY <1>0, <2>1, <2>2
  <2>3. CASE q = r
    <3>1. reader'[r] = state
      BY <1>t, <2>1, <2>3 DEF TypeOK
    <3>2. ASSUME reader[r].at \in Nat, state.at = reader[r].at + 1,
                 ~IsLevel(inputs[reader[r].at + 1]), Coming(r)
          PROVE  Coming(r)'
      <4>1. \A i \in 1..Len(inputs) :
               i > reader[r].at /\ IsLevel(inputs[i]) => i > reader[r].at + 1
        BY <1>t, <3>2
      <4> QED BY <2>1, <3>1, <3>2, <4>1 DEF Coming
    <3> QED BY <1>5, <1>t, <2>1, <2>3, <3>1, <3>2 DEF Attentive, Coming
  <2> QED BY <2>2, <2>3
<1>6. ASSUME NEW q \in Reader, ReadBattery(q) \/ ReaderStep(q) PROVE Attentive(r)'
  <2>1. ASSUME q = r, reader[r].pc \in {"cache", "input", "wait"}
        PROVE  reader[r] \in [pc : {"cache", "input", "wait"}, at : 0..Len(inputs),
                              lagged : BOOLEAN]
    BY <1>t, <2>1 DEF TypeOK, Readers
  <2>2. [pc |-> "idle"].pc \notin {"input", "wait"}
    OBVIOUS
  <2>3. CASE ReadBattery(q)
    BY <1>5, <2>3 DEF ReadBattery
  <2>4. CASE CheckCache(q)
    BY <1>5, <2>2, <2>4 DEF CheckCache
  <2>5. CASE CheckInput(q)
    <3> DEFINE state == [reader[q] EXCEPT !.pc = "wait"]
    <3>1. q = r => state.at = reader[r].at /\ state.lagged = reader[r].lagged
      BY <2>1, <2>5 DEF CheckInput
    <3> QED BY <1>5, <2>2, <2>5, <3>1 DEF CheckInput
  <2>6. CASE Receive(q)
    <3> DEFINE lagging == [reader[q] EXCEPT !.at = Oldest(inputs), !.lagged = TRUE]
               passing == [reader[q] EXCEPT !.at = @ + 1]
    <3>1. q = r => /\ lagging.lagged /\ reader[r].at \in Nat
                   /\ passing.at = reader[r].at + 1 /\ passing.lagged = reader[r].lagged
      BY <1>t, <2>1, <2>6 DEF Receive
    <3> QED BY <1>5, <2>2, <2>6, <3>1 DEF Receive
  <2>7. CASE TimeOut(q)
    BY <1>5, <2>2, <2>7 DEF TimeOut
  <2> QED BY <1>6, <2>3, <2>4, <2>5, <2>6, <2>7 DEF ReaderStep
<1>7. CASE BridgeStep \/ NextOutput \/ Subscribe \/ DropHandle \/ DropReceiver
  BY <1>0, <1>7 DEF BridgeStep, Bridge, BridgeEnds, NextOutput, Subscribe, DropHandle, DropReceiver
<1> QED BY <1>2, <1>3, <1>4, <1>6, <1>7 DEF Next, InputThread

-----------------------------------------------------------------------------
(* The bridge and the subscriber. *)

\* A step that touches neither channel nor their receivers keeps the order.
LEMMA KeepsOrder ==
    ASSUME IInv, UNCHANGED <<outputs, bridge, subscriber, last, gap>>,
           Len(inputs) <= Len(inputs') /\ Len(inputs') \in Nat
    PROVE  InOrder' /\ BridgeAt' /\ SubscriberAt'
<1>1. Len(inputs) \in Nat /\ TypeOK
  BY DEF IInv, TypeOK
<1>2. \A i \in 1..Len(outputs) : IsEvent(i) => outputs[i].event <= Len(inputs')
  BY <1>1, OutputEvent DEF IInv, InOrder
<1> QED BY <1>2 DEF IInv, InOrder, BridgeAt, SubscriberAt, IsEvent

\* The bridge forwards the next event, or says that some are lost.
LEMMA BridgeKeepsOrder ==
    ASSUME IInv, Bridge, subscriber.pc = "listening"
    PROVE  InOrder' /\ BridgeAt' /\ SubscriberAt'
<1>0. PICK at, n, s : at = bridge.at /\ n = Len(outputs) /\ s = subscriber.at
  OBVIOUS
<1>1. PICK next, message :
         /\ bridge.pc = "running" /\ at \in Nat /\ next \in Nat
         /\ at < next /\ next <= Len(inputs) /\ n \in Nat /\ n <= at
         /\ message \in Output
         /\ "event" \in DOMAIN message => message.event = at + 1 /\ next = at + 1
         /\ outputs' = Append(outputs, message)
         /\ bridge' = [pc |-> "running", at |-> next]
  <2>1. \A k : "event" \notin DOMAIN [skipped |-> k]
    OBVIOUS
  <2> QED BY <1>0, <2>1, BridgeAppends
<1>t. /\ TypeOK /\ InOrder /\ BridgeAt /\ SubscriberAt /\ Len(inputs) \in Nat
      /\ outputs \in Seq(Output)
  BY DEF IInv, TypeOK
<1>2. /\ Len(outputs') = n + 1 /\ outputs'[n + 1] = message
      /\ \A i \in 1..n : outputs'[i] = outputs[i]
  BY <1>0, <1>1, <1>t
<1>3. UNCHANGED <<inputs, subscriber, last, gap>>
  BY DEF Bridge
<1>4. \A i \in 1..n : IsEvent(i)' <=> IsEvent(i)
  BY <1>2 DEF IsEvent
<1>5. IsEvent(n + 1)' <=> "event" \in DOMAIN message
  BY <1>2 DEF IsEvent
<1>6. \A i \in 1..n : IsEvent(i) => outputs[i].event \in Nat /\ outputs[i].event <= at
  BY <1>0, <1>1, <1>t, OutputEvent DEF BridgeAt
<1>7. ASSUME IsEvent(n + 1)' PROVE outputs'[n + 1].event = at + 1 /\ next = at + 1
  BY <1>1, <1>2, <1>5, <1>7
<1>8. 1..Len(outputs') = (1..n) \cup {n + 1} /\ n \in Nat /\ at + 1 \in Nat
  BY <1>1, <1>2
<1>9. InOrder'
  <2>1. ASSUME NEW i \in 1..Len(outputs'), IsEvent(i)'
        PROVE  outputs'[i].event <= Len(inputs')
    BY <1>0, <1>1, <1>2, <1>3, <1>4, <1>6, <1>7, <1>8, <1>t, <2>1 DEF InOrder
  <2>2. ASSUME NEW i \in 1..Len(outputs'), NEW j \in 1..Len(outputs'),
               IsEvent(i)', IsEvent(j)', i < j
        PROVE  outputs'[i].event < outputs'[j].event
    <3>1. i \in 1..n
      BY <1>8, <2>2
    <3>2. CASE j \in 1..n
      BY <1>0, <1>2, <1>4, <1>t, <2>2, <3>1, <3>2 DEF InOrder
    <3>3. CASE j = n + 1
      BY <1>1, <1>2, <1>4, <1>6, <1>7, <2>2, <3>1, <3>3
    <3> QED BY <1>8, <3>2, <3>3
  <2>3. ASSUME NEW i \in 1..Len(outputs'), i < Len(outputs'), IsEvent(i)', IsEvent(i + 1)'
        PROVE  outputs'[i + 1].event = outputs'[i].event + 1
    <3>1. i \in 1..n
      BY <1>2, <1>8, <2>3
    <3>2. CASE i < n
      <4>1. i + 1 \in 1..n
        BY <1>8, <3>1, <3>2
      <4> QED BY <1>0, <1>2, <1>4, <1>t, <2>3, <3>1, <3>2, <4>1 DEF InOrder
    <3>3. CASE i = n
      <4>1. outputs # <<>> /\ IsEvent(n)
        BY <1>0, <1>4, <1>t, <2>3, <3>1, <3>3
      <4>2. outputs[n].event = at
        BY <1>0, <1>1, <1>t, <4>1 DEF BridgeAt
      <4> QED BY <1>2, <1>7, <2>3, <3>1, <3>3, <4>2
    <3> QED BY <1>8, <3>1, <3>2, <3>3
  <2> QED BY <2>1, <2>2, <2>3 DEF InOrder
<1>10. BridgeAt'
  <2>1. Len(outputs') <= next
    BY <1>1, <1>2, <1>8
  <2>2. last' <= next
    BY <1>0, <1>1, <1>3, <1>t DEF BridgeAt, TypeOK
  <2>3. \A i \in 1..Len(outputs') : IsEvent(i)' => outputs'[i].event <= next
    BY <1>1, <1>2, <1>4, <1>6, <1>7, <1>8
  <2>4. IsEvent(Len(outputs))' => outputs'[Len(outputs')].event = next
    BY <1>2, <1>7 DEF IsEvent
  <2>5. bridge'.pc = "running" /\ bridge'.at = next
    BY <1>1
  <2> QED BY <2>1, <2>2, <2>3, <2>4, <2>5 DEF BridgeAt
<1>11. SubscriberAt'
  <2>1. s \in 0..n /\ last \in Nat
    BY <1>0, <1>t DEF TypeOK, Subscribers
  <2>2. last <= at
    BY <1>0, <1>1, <1>t DEF BridgeAt
  <2>3. ASSUME NEW i \in 1..Len(outputs'), i > s, IsEvent(i)'
        PROVE  outputs'[i].event > last
    BY <1>0, <1>1, <1>2, <1>4, <1>6, <1>7, <1>8, <1>t, <2>1, <2>2, <2>3 DEF SubscriberAt
  <2>4. ASSUME s < Len(outputs'), IsEvent(s + 1)', ~gap
        PROVE  outputs'[s + 1].event = last + 1
    <3>1. CASE s < n
      <4>1. s + 1 \in 1..n
        BY <1>8, <2>1, <3>1
      <4> QED BY <1>0, <1>2, <1>4, <1>t, <2>4, <3>1, <4>1 DEF SubscriberAt
    <3>2. CASE s = n
      <4>1. at = last
        BY <1>0, <1>1, <1>t, <2>4, <3>2 DEF SubscriberAt
      <4> QED BY <1>7, <2>4, <3>2, <4>1
    <3> QED BY <1>8, <2>1, <3>1, <3>2
  <2>5. s # Len(outputs')
    BY <1>2, <1>8, <2>1
  <2> QED BY <1>0, <1>3, <2>3, <2>4, <2>5 DEF SubscriberAt
<1> QED BY <1>9, <1>10, <1>11

\* What NextOutput does, case by case.
Lagging ==
    /\ subscriber' = [subscriber EXCEPT !.at = Oldest(outputs)]
    /\ gap' = TRUE /\ UNCHANGED last
Taking ==
    LET at == subscriber.at IN
    /\ at < Len(outputs)
    /\ subscriber' = [subscriber EXCEPT !.at = @ + 1]
    /\ IF IsEvent(at + 1) THEN last' = outputs[at + 1].event /\ gap' = FALSE
       ELSE gap' = TRUE /\ UNCHANGED last
Closing == subscriber' = [subscriber EXCEPT !.pc = "closed"] /\ UNCHANGED <<last, gap>>

LEMMA NextOutputCases ==
    ASSUME IInv, NextOutput
    PROVE  /\ subscriber \in [pc : {"listening"}, at : 0..Len(outputs)]
           /\ UNCHANGED <<inputs, outputs, bridge, thread, level, reader>>
           /\ \/ Lagging /\ Oldest(outputs) > subscriber.at
              \/ Taking
              \/ Closing
<1>1. subscriber \in [pc : {"listening"}, at : 0..Len(outputs)] /\ Len(outputs) \in Nat
  BY DEF NextOutput, IInv, TypeOK, Subscribers
<1>2. Behind(outputs, subscriber.at) => Oldest(outputs) > subscriber.at
  BY <1>1, CapacityAssumption DEF Behind, Oldest
<1> QED BY <1>1, <1>2 DEF NextOutput, Lagging, Taking, Closing, IsEvent

\* The subscriber takes an event, a notice, or is told of its own loss.
LEMMA NextOutputKeepsOrder ==
    ASSUME IInv, NextOutput
    PROVE  InOrder' /\ BridgeAt' /\ SubscriberAt'
<1>1. PICK at : at = subscriber.at
  OBVIOUS
<1>t. /\ TypeOK /\ InOrder /\ BridgeAt /\ SubscriberAt /\ Len(outputs) \in Nat
      /\ Len(inputs) \in Nat
  BY DEF IInv, TypeOK
<1>2. /\ subscriber \in [pc : {"listening"}, at : 0..Len(outputs)] /\ at \in 0..Len(outputs)
      /\ UNCHANGED <<inputs, outputs, bridge>>
      /\ (Lagging /\ Oldest(outputs) > at) \/ Taking \/ Closing
  BY <1>1, NextOutputCases
<1>3. InOrder'
  BY <1>2, <1>t DEF InOrder, IsEvent
<1>4. \A i \in 1..Len(outputs) : IsEvent(i)' <=> IsEvent(i)
  BY <1>2 DEF IsEvent
<1>5. bridge.pc # "none"
  BY <1>2, <1>t DEF BridgeAt
<1>6. \A i \in 1..Len(outputs) : IsEvent(i) => outputs[i].event \in Nat
  BY <1>t, OutputEvent
<1>7. CASE Lagging /\ Oldest(outputs) > at
  <2>1. /\ subscriber'.at = Oldest(outputs) /\ subscriber'.at \in Int /\ subscriber'.at > at
        /\ gap' /\ last' = last
    BY <1>2, <1>7, <1>t, CapacityAssumption DEF Lagging, Oldest
  <2>2. SubscriberAt'
    BY <1>1, <1>2, <1>4, <1>t, <2>1 DEF SubscriberAt
  <2>3. BridgeAt'
    BY <1>2, <1>4, <1>5, <1>t, <2>1 DEF BridgeAt, IsEvent
  <2> QED BY <1>3, <2>2, <2>3
<1>8. CASE Taking /\ ~IsEvent(at + 1)
  <2>1. subscriber'.at = at + 1 /\ gap' /\ last' = last
    BY <1>1, <1>2, <1>8 DEF Taking
  <2>2. SubscriberAt'
    BY <1>1, <1>2, <1>4, <1>t, <2>1 DEF SubscriberAt
  <2>3. BridgeAt'
    BY <1>2, <1>4, <1>5, <1>t, <2>1 DEF BridgeAt, IsEvent
  <2> QED BY <1>3, <2>2, <2>3
<1>9. CASE Taking /\ IsEvent(at + 1)
  <2>1. /\ subscriber'.at = at + 1 /\ ~gap' /\ last' = outputs[at + 1].event
        /\ at + 1 \in 1..Len(outputs)
    BY <1>1, <1>2, <1>9, <1>t DEF Taking
  <2>2. \A i \in 1..Len(outputs) : i > at + 1 /\ IsEvent(i) => outputs[i].event > last'
    BY <1>6, <1>9, <1>t, <2>1 DEF InOrder
  <2>3. at + 1 < Len(outputs) /\ IsEvent(at + 2) => outputs[at + 2].event = last' + 1
    <3>1. at + 1 + 1 = at + 2
      BY <1>2
    <3> QED BY <1>9, <1>t, <2>1, <3>1 DEF InOrder
  <2>4. bridge.pc = "running" => last' <= bridge.at
    BY <1>9, <1>t, <2>1 DEF BridgeAt
  <2>5. bridge.pc = "running" /\ at + 1 = Len(outputs) => bridge.at = last'
    <3>1. at + 1 = Len(outputs) => outputs # <<>>
      BY <2>1
    <3> QED BY <1>9, <1>t, <2>1, <3>1 DEF BridgeAt
  <2>6. SubscriberAt'
    <3>1. at + 1 + 1 = at + 2
      BY <1>2
    <3>2. at + 1 < Len(outputs) => at + 2 \in 1..Len(outputs)
      BY <1>2, <1>t
    <3> QED BY <1>2, <1>4, <2>1, <2>2, <2>3, <2>5, <3>1, <3>2 DEF SubscriberAt
  <2>7. BridgeAt'
    BY <1>2, <1>4, <1>5, <1>t, <2>1, <2>4 DEF BridgeAt, IsEvent
  <2> QED BY <1>3, <2>6, <2>7
<1>10. CASE Closing
  <2>1. subscriber'.pc = "closed" /\ UNCHANGED <<last, gap>>
    BY <1>2, <1>10 DEF Closing
  <2>2. SubscriberAt'
    BY <2>1 DEF SubscriberAt
  <2>3. BridgeAt'
    BY <1>2, <1>4, <1>5, <1>t, <2>1 DEF BridgeAt, IsEvent
  <2> QED BY <1>3, <2>2, <2>3
<1> QED BY <1>2, <1>7, <1>8, <1>9, <1>10

LEMMA NextOrder == IInv /\ [Next]_vars => InOrder' /\ BridgeAt' /\ SubscriberAt'
<1> SUFFICES ASSUME IInv, [Next]_vars PROVE InOrder' /\ BridgeAt' /\ SubscriberAt'
  OBVIOUS
<1>t. /\ TypeOK /\ InOrder /\ BridgeAt /\ SubscriberAt
      /\ Len(inputs) \in Nat /\ Len(outputs) \in Nat
  BY DEF IInv, TypeOK
<1>0. ASSUME UNCHANGED <<inputs, outputs, bridge, subscriber, last, gap>>
      PROVE  InOrder' /\ BridgeAt' /\ SubscriberAt'
  BY <1>0, <1>t, KeepsOrder
<1>1. CASE InputThread
  <2>1. CASE SendInput
    <3>1. Len(inputs) <= Len(inputs') /\ Len(inputs') \in Nat
      BY <1>t, <2>1, SendInputAppends
    <3> QED BY <2>1, <3>1, KeepsOrder DEF SendInput, Others
  <2>2. CASE OpenInput \/ Upgrade \/ ReadInput \/ CacheLevel
    BY <1>0, <2>2 DEF OpenInput, Upgrade, ReadInput, CacheLevel, Others
  <2> QED BY <1>1, <2>1, <2>2 DEF InputThread
<1>2. CASE \E r \in Reader : ReadBattery(r) \/ ReaderStep(r)
  BY <1>0, <1>2 DEF ReadBattery, ReaderStep, CheckCache, CheckInput, Receive, TimeOut, ReaderGoes
<1>3. CASE Bridge /\ subscriber.pc = "listening"
  BY <1>3, BridgeKeepsOrder
<1>4. ASSUME UNCHANGED <<inputs, outputs, last, gap>>, bridge' = [pc |-> "ended"],
             subscriber' = subscriber
      PROVE  InOrder' /\ BridgeAt' /\ SubscriberAt'
  <2>1. bridge'.pc = "ended"
    BY <1>4
  <2> QED BY <1>4, <1>t, <2>1 DEF InOrder, BridgeAt, SubscriberAt, IsEvent
<1>5. CASE (Bridge /\ subscriber.pc # "listening") \/ BridgeEnds
  BY <1>4, <1>5 DEF Bridge, BridgeEnds, Forward
<1>6. CASE NextOutput
  BY <1>6, NextOutputKeepsOrder
<1>7. CASE Subscribe
  <2>1. /\ outputs = <<>> /\ Len(outputs) = 0 /\ outputs' = outputs /\ last' = Len(inputs)
        /\ inputs' = inputs /\ bridge'.at = Len(inputs) /\ bridge'.pc = "running"
        /\ subscriber'.at = 0
    BY <1>7, <1>t DEF Subscribe, BridgeAt
  <2> QED BY <1>t, <2>1 DEF InOrder, BridgeAt, SubscriberAt
<1>8. CASE DropHandle
  BY <1>0, <1>8 DEF DropHandle
<1>9. CASE DropReceiver
  <2>1. subscriber'.pc = "dropped" /\ UNCHANGED <<inputs, outputs, bridge, last, gap>>
    BY <1>9 DEF DropReceiver
  <2>2. bridge.pc # "none"
    BY <1>9, <1>t DEF BridgeAt, DropReceiver
  <2> QED BY <1>t, <2>1, <2>2 DEF InOrder, BridgeAt, SubscriberAt, IsEvent
<1>10. CASE UNCHANGED vars
  BY <1>0, <1>10 DEF vars
<1> QED
  BY <1>1, <1>2, <1>3, <1>5, <1>6, <1>7, <1>8, <1>9, <1>10 DEF Next, BridgeStep

-----------------------------------------------------------------------------
\* A report is taken only while there is room for its event.
LEMMA NextRoom ==
    ASSUME IInv, Next
    PROVE  Room'
<1>t. TypeOK /\ Room
  BY DEF IInv
<1>1. CASE ReadInput
  BY <1>1 DEF ReadInput, Goto, Room
<1>2. CASE OpenInput \/ Upgrade \/ SendInput
  BY <1>2 DEF OpenInput, Upgrade, SendInput, Goto, Room
<1>3. CASE CacheLevel
  BY <1>3, <1>t DEF CacheLevel, Room
<1>4. CASE \E r \in Reader : ReadBattery(r) \/ ReaderStep(r)
  <2>1. UNCHANGED <<thread, inputs>>
    BY <1>4 DEF ReadBattery, ReaderStep, CheckCache, CheckInput, Receive, TimeOut, ReaderGoes
  <2> QED BY <1>t, <2>1 DEF Room
<1>5. CASE BridgeStep \/ NextOutput \/ Subscribe \/ DropHandle \/ DropReceiver
  <2>1. UNCHANGED <<thread, inputs>>
    BY <1>5 DEF BridgeStep, Bridge, BridgeEnds, NextOutput, Subscribe, DropHandle, DropReceiver
  <2> QED BY <1>t, <2>1 DEF Room
<1> QED BY <1>1, <1>2, <1>3, <1>4, <1>5 DEF Next, InputThread

LEMMA NextInv == IInv /\ [Next]_vars => IInv'
<1> SUFFICES ASSUME IInv, [Next]_vars PROVE IInv'
  OBVIOUS
<1>1. InOrder' /\ BridgeAt' /\ SubscriberAt'
  BY NextOrder
<1>2. CASE Next
  <2>1. TypeOK'
    BY <1>2, TypeThread, TypeReader, TypeEvents DEF Next
  <2>2. Room' /\ \A r \in Reader : Attentive(r)'
    BY <1>2, NextRoom, NextAttentive
  <2> QED BY <1>1, <2>1, <2>2 DEF IInv
<1>3. CASE UNCHANGED vars
  <2>1. TypeOK' /\ Room'
    BY <1>3 DEF IInv, TypeOK, Room, vars
  <2>2. ASSUME NEW r \in Reader PROVE Attentive(r)'
    <3>1. Attentive(r)
      BY DEF IInv
    <3> QED BY <1>3, <3>1 DEF Attentive, Coming, vars
  <2> QED BY <1>1, <2>1, <2>2 DEF IInv
<1> QED BY <1>2, <1>3

\* The channels, their receivers and what has been sent on them fit together in
\* every reachable state, for any reports of the mouse and any capacity.
THEOREM Invariance == Spec => []IInv
BY InvInit, NextInv, PTL DEF Spec

\* Whatever bytes the mouse sends, an event says nothing outside its range, the
\* cached level is a percentage, and no receiver is ahead of its channel.
THEOREM TypeCorrect == Spec => []TypeOK
<1>1. IInv => TypeOK
  BY DEF IInv
<1> QED BY Invariance, <1>1, PTL

\* read_battery overlooks no level: it subscribes before it looks at the cache,
\* so a level that it did not find there is still to be received.
THEOREM NoLevelIsOverlooked == Spec => []LevelReachesReader
<1>1. IInv => LevelReachesReader
  <2> SUFFICES ASSUME IInv, NEW r \in Reader, reader[r].pc = "wait", level # None,
                      ~reader[r].lagged, ~Behind(inputs, reader[r].at),
                      ~(thread.pc = "sending" /\ IsLevel(thread.event))
               PROVE  \E i \in Unread(inputs, reader[r].at) : IsLevel(inputs[i])
    BY DEF LevelReachesReader
  <2>1. Len(inputs) \in Nat /\ reader[r].at \in 0..Len(inputs)
    BY DEF IInv, TypeOK, Readers
  <2>2. PICK i \in 1..Len(inputs) : i > reader[r].at /\ IsLevel(inputs[i])
    BY DEF IInv, Attentive, Coming
  <2>3. i \in Unread(inputs, reader[r].at)
    BY <2>1, <2>2, CapacityAssumption DEF Behind, Unread
  <2> QED BY <2>2, <2>3
<1> QED BY Invariance, <1>1, PTL

\* The subscriber gets the events in their order and is told of a loss, in
\* either channel, before the first event after it: Lagged of the input channel
\* is forwarded, and Lagged of its own channel covers a lost notice.
THEOREM LossesAreNoticed == Spec => GapsAreNoticed
<1> DEFINE Learnt == last' # last /\ subscriber.pc = "listening" =>
                         /\ last' > last
                         /\ last' > last + 1 => gap
<1>1. IInv /\ Next => Learnt
  <2> SUFFICES ASSUME IInv, Next, last' # last, subscriber.pc = "listening"
               PROVE  last' > last /\ (last' > last + 1 => gap)
    OBVIOUS
  <2>t. /\ TypeOK /\ BridgeAt /\ SubscriberAt
        /\ Len(inputs) \in Nat /\ Len(outputs) \in Nat /\ last \in Nat
    BY DEF IInv, TypeOK
  <2>1. NextOutput
    <3>1. CASE InputThread
      BY <3>1 DEF InputThread, OpenInput, Upgrade, ReadInput, CacheLevel, SendInput, Others
    <3>2. CASE BridgeStep \/ DropHandle \/ DropReceiver
      BY <3>2 DEF BridgeStep, Bridge, BridgeEnds, DropHandle, DropReceiver
    <3>3. CASE \E r \in Reader : ReadBattery(r) \/ ReaderStep(r)
      BY <3>3 DEF ReadBattery, ReaderStep, CheckCache, CheckInput, Receive, TimeOut, ReaderGoes
    <3>4. CASE Subscribe
      BY <2>t, <3>4 DEF Subscribe, BridgeAt
    <3> QED BY <3>1, <3>2, <3>3, <3>4 DEF Next
  <2>2. PICK at : at = subscriber.at
    OBVIOUS
  <2>3. at \in 0..Len(outputs) /\ Taking
    BY <2>1, <2>2, NextOutputCases DEF Lagging, Closing
  <2>4. /\ at + 1 \in 1..Len(outputs) /\ at + 1 > at /\ IsEvent(at + 1)
        /\ last' = outputs[at + 1].event
    BY <2>t, <2>2, <2>3 DEF Taking
  <2>5. outputs[at + 1].event > last /\ outputs[at + 1].event \in Nat
    BY <2>t, <2>2, <2>4, OutputEvent DEF SubscriberAt
  <2>6. ~gap => outputs[at + 1].event = last + 1
    BY <2>t, <2>2, <2>3, <2>4 DEF SubscriberAt
  <2>7. last' > last
    BY <2>4, <2>5
  <2>8. last' > last + 1 => gap
    BY <2>t, <2>4, <2>5, <2>6
  <2> QED BY <2>7, <2>8
<1>2. IInv /\ [Next]_vars => [Learnt]_vars
  BY <1>1
<1> HIDE DEF Learnt
<1>3. Spec => [][Learnt]_vars
  BY Invariance, <1>2, PTL DEF Spec
<1> QED BY <1>3 DEF Learnt, GapsAreNoticed

-----------------------------------------------------------------------------
(* The window and its worker.  What a snapshot shows is decided when it is   *)
(* sent; the window may still have older events before it.                   *)

\* Events after which the window is of the mouse they name, or not ready.
Showing == {"Snapshot", "EventSnapshot"}
Deciding == Showing \cup {"Error"}
Signals == Deciding \cup {"Busy", "OperationError", "AutoAttached", "CeremonyError", "Ask",
                         "CeremonyProgress"}

Decides(i) == inbox[i].t \in Deciding
LastWord(i) == \A j \in DOMAIN inbox : j > i => ~Decides(j)

\* The window, once it has shown what it was sent, is of the loaded mouse.
WindowFollows ==
    w.loaded # None =>
        /\ \A i \in DOMAIN inbox : inbox[i].t \in Showing /\ LastWord(i) => inbox[i].m = w.loaded
        /\ (\A i \in DOMAIN inbox : ~Decides(i)) /\ ui.ready => ui.shown = w.loaded

\* A command is put aside by a worker that then looks for the next one.
AtRest == w.pc # "Idle" => w.pending = None

Messages(S) == [t : Signals, m : S]

Locals == {"pc", "cmd", "pending", "loaded", "sub"}

Window ==
    /\ Locals \subseteq DOMAIN w
    /\ {"ready", "shown"} \subseteq DOMAIN ui
    /\ \E S : inbox \in Seq(Messages(S))
    /\ EventsOfLoaded /\ WindowFollows /\ AtRest

\* What the worker may say when the loaded mouse was `before' and is `after'.
Says(list, before, after) ==
    /\ \E S : list \in Seq(Messages(S))
    /\ after # None =>
          /\ \A i \in DOMAIN list : list[i].t \in Showing => list[i].m = after
          /\ after # before => \E i \in DOMAIN list : list[i].t \in Deciding

\* A step of the worker, as far as these properties are concerned.
Follows ==
    /\ ui' = ui
    /\ Locals \subseteq DOMAIN w'
    /\ \E list : inbox' = inbox \o list /\ Says(list, w.loaded, w'.loaded)
    /\ w'.loaded # None /\ w'.sub # None => w'.sub = w'.loaded
    /\ w'.pc # "Idle" => w'.pending = None
    /\ w.pending # None => w'.pending = w.pending \/ (w'.pending = None /\ w'.cmd = w.pending)

LEMMA SaysNothing ==
    ASSUME NEW before, NEW after, after \in {before, None}
    PROVE  Says(<<>>, before, after)
BY DEF Says

LEMMA SaysOne ==
    ASSUME NEW t \in Signals, NEW m, NEW before, NEW after,
           after # None /\ t \in Showing => m = after,
           after \in {before, None} \/ t \in Deciding
    PROVE  Says(<<EventOf(t, m)>>, before, after)
<1> DEFINE list == <<EventOf(t, m)>>
<1>1. list \in Seq(Messages({m}))
  BY DEF EventOf, Messages
<1>2. DOMAIN list = {1} /\ list[1].t = t /\ list[1].m = m
  BY DEF EventOf
<1> HIDE DEF list
<1>3. Says(list, before, after)
  BY <1>1, <1>2 DEF Says
<1> QED BY <1>3 DEF list

\* Two answers: what the second says does not concern the mouse.
LEMMA SaysTwo ==
    ASSUME NEW t \in Signals, NEW m, NEW u \in Signals, NEW n, NEW before, NEW after,
           after # None /\ t \in Showing => m = after,
           after \in {before, None} \/ t \in Deciding,
           u \notin Deciding
    PROVE  Says(<<EventOf(t, m), EventOf(u, n)>>, before, after)
<1> DEFINE list == <<EventOf(t, m), EventOf(u, n)>>
<1>1. list \in Seq(Messages({m, n}))
  BY DEF EventOf, Messages
<1>2. DOMAIN list = {1, 2} /\ list[1].t = t /\ list[1].m = m /\ list[2].t = u
  BY DEF EventOf
<1>3. u \notin Showing
  BY DEF Deciding
<1> HIDE DEF list
<1>4. Says(list, before, after)
  BY <1>1, <1>2, <1>3 DEF Says
<1> QED BY <1>4 DEF list

LEMMA SaysBoth ==
    ASSUME NEW first, NEW second, NEW loaded,
           Says(first, loaded, loaded), Says(second, loaded, loaded)
    PROVE  Says(first \o second, loaded, loaded)
<1>1. PICK S : first \in Seq(Messages(S))
  BY DEF Says
<1>2. PICK T : second \in Seq(Messages(T))
  BY DEF Says
<1> DEFINE list == first \o second
           M == Messages(S \cup T)
<1>3. Messages(S) \subseteq M /\ Messages(T) \subseteq M
  BY DEF Messages
<1> HIDE DEF M
<1>4. first \in Seq(M) /\ second \in Seq(M)
  BY <1>1, <1>2, <1>3
<1>5. list \in Seq(M) /\ \A i \in DOMAIN list :
         \/ i \in DOMAIN first /\ list[i] = first[i]
         \/ i - Len(first) \in DOMAIN second /\ list[i] = second[i - Len(first)]
  BY <1>4
<1> QED BY <1>5 DEF Says, M

\* Every way for a step to be one that Follows.
LEMMA StepFollows ==
    ASSUME Window, NEW v, NEW list, w' = v, Emit(list), UNCHANGED ui,
           Locals \subseteq DOMAIN v,
           Says(list, w.loaded, v.loaded),
           v.loaded # None /\ v.sub # None => v.sub = v.loaded,
           v.pc # "Idle" => v.pending = None,
           w.pending = None \/ v.pending = w.pending
    PROVE  Follows
BY DEF Follows, Emit

\* A handler that leaves the loaded mouse as it is, or loaded none.
LEMMA HandlerFollows ==
    ASSUME Window, NEW v, NEW list, w' = v, Emit(list), UNCHANGED ui,
           w.pc # "Idle",
           Locals \subseteq DOMAIN v,
           v.loaded \in {w.loaded, None}, v.sub = w.sub \/ v.sub = None,
           Says(list, w.loaded, v.loaded),
           v.pc # "Idle" => v.pending = None
    PROVE  Follows
<1>1. w.pending = None
  BY DEF Window, AtRest
<1>2. v.loaded # None /\ v.sub # None => v.sub = v.loaded
  BY DEF Window, EventsOfLoaded
<1> QED BY <1>1, <1>2, StepFollows

LEMMA AnswerFollows ==
    ASSUME Window, w.pc # "Idle", NEW list, NEW v, v = w \/ v = [w EXCEPT !.pc = "Idle"],
           Says(list, w.loaded, w.loaded), Answer(v, list)
    PROVE  Follows
<1>1. Done(v).loaded = w.loaded /\ Done(v).sub = w.sub /\ Done(v).pc = "Idle"
      /\ Locals \subseteq DOMAIN Done(v)
  BY DEF Done, Window, Locals
<1>2. w' = Done(v) /\ Emit(list) /\ UNCHANGED ui
  BY DEF Answer
<1> QED BY <1>1, <1>2, HandlerFollows

LEMMA Silent ==
    ASSUME Window, UNCHANGED inbox
    PROVE  Emit(<<>>)
BY DEF Window, Emit

\* The arms of the select.
LEMMA ArmFollows ==
    ASSUME Window, Take \/ TakeTopology \/ Deadline \/ Poll
    PROVE  Follows
<1>1. CASE Take
  <2>1. PICK c : /\ w.pending # None => c = w.pending
                 /\ w' = [w EXCEPT !.pc = "Do", !.cmd = c, !.pending = None, !.swallowed = FALSE]
                 /\ Emit(IF Announces(c) THEN <<UiEvent("Busy")>> ELSE <<>>)
                 /\ UNCHANGED ui
    BY <1>1 DEF Take
  <2>2. PICK list : list = IF Announces(c) THEN <<UiEvent("Busy")>> ELSE <<>>
    OBVIOUS
  <2>3. Says(<<EventOf("Busy", None)>>, w.loaded, w.loaded)
    BY SaysOne DEF Signals, Deciding, Showing
  <2>4. Says(list, w.loaded, w.loaded)
    BY <2>2, <2>3, SaysNothing DEF UiEvent, EventOf
  <2>5. /\ w'.loaded = w.loaded /\ w'.sub = w.sub /\ w'.cmd = c /\ w'.pending = None
        /\ Locals \subseteq DOMAIN w'
    BY <2>1 DEF Window, Locals
  <2>6. inbox' = inbox \o list
    BY <2>1, <2>2 DEF Emit
  <2> QED BY <2>1, <2>4, <2>5, <2>6 DEF Follows, Window, EventsOfLoaded
<1>2. CASE TakeTopology \/ Deadline \/ Poll
  <2>1. Emit(<<>>) /\ UNCHANGED ui
    BY <1>2, Silent DEF TakeTopology, Deadline, Poll
  <2>2. w.pc = "Idle" /\ w.pending = None
    BY <1>2 DEF TakeTopology, Deadline, Poll, Free
  <2>3. PICK v : v = w'
    OBVIOUS
  <2>4. v.pc = "Idle" /\ v.loaded = w.loaded /\ v.sub = w.sub /\ Locals \subseteq DOMAIN v
    BY <1>2, <2>2, <2>3 DEF TakeTopology, Deadline, Poll, Window, Locals
  <2>5. Says(<<>>, w.loaded, v.loaded)
    BY <2>4, SaysNothing
  <2> QED BY <2>1, <2>2, <2>3, <2>4, <2>5, StepFollows DEF Window, EventsOfLoaded
<1> QED BY <1>1, <1>2

\* An event of the subscribed mouse.
LEMMA EventFollows ==
    ASSUME Window, TakeEvent
    PROVE  Follows
<1>1. w.pc = "Idle" /\ w.pending = None /\ UNCHANGED ui
  BY DEF TakeEvent, Free
<1>2. PICK v : v = w'
  OBVIOUS
<1>3. /\ v.loaded \in {w.loaded, None} /\ v.sub \in {w.sub, None} /\ Locals \subseteq DOMAIN v
      /\ v.pc # "Idle" => v.pending = None
  BY <1>1, <1>2 DEF TakeEvent, ClearContext, Cleared, Window, Locals
<1>4. PICK list : Emit(list) /\ list \in {<<>>, <<UiEvent("Error")>>}
  BY DEF TakeEvent
<1>5. Says(list, w.loaded, v.loaded)
  <2>1. Says(<<>>, w.loaded, v.loaded)
    BY <1>3, SaysNothing
  <2>2. Says(<<EventOf("Error", None)>>, w.loaded, v.loaded)
    BY <1>3, SaysOne DEF Signals, Deciding, Showing
  <2> QED BY <1>4, <2>1, <2>2 DEF UiEvent, EventOf
<1> QED BY <1>1, <1>2, <1>3, <1>4, <1>5, StepFollows DEF Window, EventsOfLoaded

\* subscribe_and_hold: the worker then follows m, or nobody.
LEMMA HoldFollows ==
    ASSUME Window, w.pc # "Idle", NEW m, NEW v, NEW list, Hold(v, m), Emit(list), UNCHANGED ui,
           Locals \subseteq DOMAIN v, v.pc # "Idle" => v.pending = None,
           Says(list, w.loaded, m)
    PROVE  Follows
<1>1. PICK u : u = w'
  OBVIOUS
<1>2. u.loaded = m /\ u.sub \in {m, None} /\ u.pc = v.pc /\ u.pending = v.pending
      /\ Locals \subseteq DOMAIN u
  BY <1>1 DEF Hold, Locals
<1>3. w.pending = None
  BY DEF Window, AtRest
<1> QED BY <1>1, <1>2, <1>3, StepFollows

\* At most one event, which shows no mouse.
Brief(list) == list = <<>> \/ \E t \in Signals \ Showing : \E m : list = <<EventOf(t, m)>>

LEMMA BriefSays ==
    ASSUME NEW list, Brief(list), NEW loaded
    PROVE  Says(list, loaded, loaded)
BY SaysNothing, SaysOne DEF Brief

LEMMA BriefEvent ==
    ASSUME NEW t \in Signals \ Showing
    PROVE  Brief(<<UiEvent(t)>>)
BY DEF Brief, UiEvent, EventOf

LEMMA BriefEventOf ==
    ASSUME NEW t \in Signals \ Showing, NEW m
    PROVE  Brief(<<EventOf(t, m)>>)
BY DEF Brief

LEMMA BriefNothing == Brief(<<>>)
BY DEF Brief

\* A handler that does not touch the loaded mouse, and shows none.
Aside ==
    /\ UNCHANGED ui
    /\ Locals \subseteq DOMAIN w' /\ w'.loaded = w.loaded /\ w'.sub = w.sub
    /\ w'.pc # "Idle" => w'.pending = None
    /\ \E list : Emit(list) /\ Brief(list)

LEMMA AsideFollows ==
    ASSUME Window, w.pc # "Idle", Aside
    PROVE  Follows
<1>1. PICK v : v = w'
  OBVIOUS
<1>2. PICK list : Emit(list) /\ Brief(list)
  BY DEF Aside
<1>3. Says(list, w.loaded, v.loaded)
  BY <1>1, <1>2, BriefSays DEF Aside
<1>4. /\ v.loaded = w.loaded /\ v.sub = w.sub /\ Locals \subseteq DOMAIN v
      /\ v.pc # "Idle" => v.pending = None
  BY <1>1 DEF Aside
<1> QED BY <1>1, <1>2, <1>3, <1>4, HandlerFollows DEF Aside

LEMMA DoneKeeps ==
    ASSUME Window, NEW v, Locals \subseteq DOMAIN v
    PROVE  /\ Locals \subseteq DOMAIN Done(v)
           /\ Done(v).loaded = v.loaded /\ Done(v).sub = v.sub /\ Done(v).pc = "Idle"
           /\ Done(v).pending = v.pending
BY DEF Done, Locals

LEMMA AnswerAside ==
    ASSUME Window, NEW t \in Signals \ Showing, Answer(w, <<UiEvent(t)>>)
    PROVE  Aside
<1>1. w' = Done(w) /\ Emit(<<UiEvent(t)>>) /\ UNCHANGED ui
  BY DEF Answer
<1>2. Brief(<<UiEvent(t)>>)
  BY BriefEvent
<1> QED BY <1>1, <1>2, DoneKeeps DEF Aside, Window

\* Coalescing, refusals, exports, and the answers to the popup.
LEMMA CoalesceAside ==
    ASSUME Window, Coalesce
    PROVE  Aside
<1>1. Emit(<<>>) /\ Brief(<<>>) /\ UNCHANGED ui
  BY Silent DEF Coalesce, Brief
<1>2. Locals \subseteq DOMAIN w' /\ w'.loaded = w.loaded /\ w'.sub = w.sub /\ w'.pc = "Idle"
  BY DEF Coalesce, Then, Done, Window, Locals
<1> QED BY <1>1, <1>2 DEF Aside

LEMMA RefusedAside ==
    ASSUME Window, Refused \/ Export \/ NoManager
    PROVE  Aside
<1>1. PICK t : t \in {"Error", "OperationError"} /\ Answer(w, <<UiEvent(t)>>)
  BY DEF Refused, Export, NoManager
<1> QED BY <1>1, AnswerAside DEF Signals, Deciding, Showing

LEMMA DecisionAside ==
    ASSUME Window, w.pc # "Idle", w.pending = None, DecidePendingEndpoint \/ DecideEndpoint
    PROVE  Aside
<1>1. CASE \E t \in {"Error", "OperationError"} : Answer(w, <<UiEvent(t)>>)
  BY <1>1, AnswerAside DEF Signals, Deciding, Showing
<1>2. CASE /\ \E c : w' = Then(w, c)
           /\ UNCHANGED ui
           /\ UNCHANGED inbox \/ Emit(<<UiEvent("AutoAttached")>>)
  <2>1. Brief(<<UiEvent("AutoAttached")>>) /\ Brief(<<>>)
    BY BriefEvent, BriefEventOf, BriefNothing DEF Signals, Deciding, Showing
  <2>2. PICK list : Emit(list) /\ Brief(list)
    BY <1>2, <2>1, Silent
  <2>3. Locals \subseteq DOMAIN w' /\ w'.loaded = w.loaded /\ w'.sub = w.sub /\ w'.pc = "Idle"
    BY <1>2 DEF Then, Done, Window, Locals
  <2> QED BY <1>2, <2>2, <2>3 DEF Aside
<1>3. CASE w' = Done(w) /\ Emit(<<UiEvent("OperationError")>>) /\ UNCHANGED ui
  <2>1. Brief(<<UiEvent("OperationError")>>)
    BY BriefEvent, BriefEventOf, BriefNothing DEF Signals, Deciding, Showing
  <2> QED BY <1>3, <2>1, DoneKeeps DEF Aside, Window
<1> QED BY <1>1, <1>2, <1>3 DEF DecidePendingEndpoint, DecideEndpoint

LEMMA ResumedBrief == Brief(Resumed)
BY BriefEvent, BriefEventOf, BriefNothing DEF Resumed, Signals, Deciding, Showing

LEMMA BeginAside ==
    ASSUME Window, BeginCeremony
    PROVE  Aside
<1>1. CASE \E t \in {"Error", "CeremonyError"} : Answer(w, <<UiEvent(t)>>)
  BY <1>1, AnswerAside DEF Signals, Deciding, Showing
<1>2. CASE /\ UNCHANGED ui
           /\ \E h : w' = [Done(w) EXCEPT !.hint = h]
           /\ Emit(<<Progress>>) \/ Emit(Resumed) \/ Emit(<<UiEvent("CeremonyError")>>)
  <2>1. PICK m : <<Progress>> = <<EventOf("CeremonyProgress", m)>>
    BY DEF Progress
  <2>2. Brief(<<EventOf("CeremonyProgress", m)>>) /\ Brief(<<UiEvent("CeremonyError")>>)
    BY BriefEvent, BriefEventOf, BriefNothing DEF Signals, Deciding, Showing
  <2>3. PICK list : Emit(list) /\ Brief(list)
    BY <1>2, <2>1, <2>2, ResumedBrief
  <2>4. Locals \subseteq DOMAIN w' /\ w'.loaded = w.loaded /\ w'.sub = w.sub /\ w'.pc = "Idle"
    BY <1>2, DoneKeeps DEF Locals, Window
  <2> QED BY <1>2, <2>3, <2>4 DEF Aside
<1> QED BY <1>1, <1>2 DEF BeginCeremony

LEMMA CeremonyAside ==
    ASSUME Window, w.pending = None, Reconnected \/ Conclude
    PROVE  Aside
<1>1. UNCHANGED ui
  BY DEF Reconnected, Conclude
<1>2. PICK m : <<Progress>> = <<EventOf("CeremonyProgress", m)>>
  BY DEF Progress
<1>3. /\ Brief(<<EventOf("CeremonyProgress", m)>>) /\ Brief(<<UiEvent("CeremonyError")>>)
      /\ Brief(<<>>)
  BY BriefEvent, BriefEventOf, BriefNothing DEF Signals, Deciding, Showing
<1>4. Emit(<<Progress>>) \/ Emit(<<UiEvent("CeremonyError")>>) \/ Emit(<<>>)
  BY Silent DEF Reconnected, Conclude
<1>5. \E list : Emit(list) /\ Brief(list)
  BY <1>2, <1>3, <1>4
<1>6. /\ Locals \subseteq DOMAIN w' /\ w'.loaded = w.loaded /\ w'.sub = w.sub
      /\ w'.pending = None
  <2>1. CASE w' = Done(w)
    BY <2>1, DoneKeeps DEF Window
  <2>2. CASE \E list, h : w' = [Done(w) EXCEPT !.rows = list, !.hint = h]
    BY <2>2, DoneKeeps DEF Locals, Window
  <2>3. CASE w' = [w EXCEPT !.pc = "Finish", !.hint = None]
    BY <2>3 DEF Locals, Window
  <2> QED BY <2>1, <2>2, <2>3 DEF Reconnected, Conclude
<1> QED BY <1>1, <1>5, <1>6 DEF Aside

\* The ends of the handlers that show a mouse, or none.
LEMMA DoneFollows ==
    ASSUME Window, w.pc # "Idle", w' = Done(w), NEW list, Emit(list), UNCHANGED ui,
           Says(list, w.loaded, w.loaded)
    PROVE  Follows
<1>1. Locals \subseteq DOMAIN w
  BY DEF Window
<1> QED BY <1>1, DoneKeeps, HandlerFollows

LEMMA ClearFollows ==
    ASSUME Window, w.pc # "Idle", NEW v, ClearContext(v), NEW t \in Signals, Emit(<<UiEvent(t)>>), UNCHANGED ui,
           Locals \subseteq DOMAIN v, v.pc # "Idle" => v.pending = None
    PROVE  Follows
<1>1. Says(<<EventOf(t, None)>>, w.loaded, None)
  BY SaysOne
<1>2. Says(<<UiEvent(t)>>, w.loaded, None)
  BY <1>1 DEF UiEvent, EventOf
<1>3. PICK u : u = w'
  OBVIOUS
<1>4. /\ u.loaded = None /\ u.sub = None /\ Locals \subseteq DOMAIN u
      /\ u.pc # "Idle" => u.pending = None
  BY <1>3 DEF ClearContext, Cleared, Locals
<1> QED BY <1>2, <1>3, <1>4, HandlerFollows

LEMMA SaysLoaded ==
    ASSUME NEW t \in Signals, NEW m
    PROVE  Says(<<EventOf(t, m)>>, m, m)
BY SaysOne

LEMMA SaysUi ==
    ASSUME NEW t \in Signals \ Showing, NEW m
    PROVE  Says(<<UiEvent(t)>>, m, m)
BY BriefEvent, BriefSays

LEMMA ImportFollows ==
    ASSUME Window, Import \/ FollowChange
    PROVE  Follows
<1>1. w.pc # "Idle"
  BY DEF Import, FollowChange, Doing
<1>2. CASE \E t \in {"Error", "OperationError"} : Answer(w, <<UiEvent(t)>>)
  BY <1>1, <1>2, AnswerAside, AsideFollows DEF Signals, Deciding, Showing
<1>3. CASE /\ w' = Done(w)
           /\ UNCHANGED ui
           /\ \/ \E t \in Signals : Emit(<<EventOf(t, w.loaded)>>)
              \/ Emit(<<UiEvent("Error")>>)
  <2>1. Says(<<UiEvent("Error")>>, w.loaded, w.loaded)
    BY SaysUi DEF Signals, Deciding, Showing
  <2>2. PICK list : Emit(list) /\ Says(list, w.loaded, w.loaded)
    BY <1>3, <2>1, SaysLoaded
  <2> QED BY <1>1, <1>3, <2>2, DoneFollows
<1> QED BY <1>2, <1>3 DEF Import, FollowChange, Signals, Deciding, Showing

LEMMA DiscoverFollows ==
    ASSUME Window, Discover
    PROVE  Follows
<1>1. w.pc # "Idle" /\ w.pending = None /\ Locals \subseteq DOMAIN w /\ UNCHANGED ui
  BY DEF Discover, Doing, Window, AtRest
<1>2. CASE /\ Emit(<<UiEvent("Error")>>)
           /\ \/ ClearContext([w EXCEPT !.pc = "Coalesce", !.manager = FALSE, !.sel = None])
              \/ ClearContext([w EXCEPT !.pc = "Coalesce", !.manager = TRUE, !.rows = <<>>, !.visible = {}])
  <2> DEFINE u == [w EXCEPT !.pc = "Coalesce", !.manager = FALSE, !.sel = None]
             v == [w EXCEPT !.pc = "Coalesce", !.manager = TRUE, !.rows = <<>>, !.visible = {}]
  <2>1. /\ Locals \subseteq DOMAIN u /\ u.pending = None
        /\ Locals \subseteq DOMAIN v /\ v.pending = None
    BY <1>1 DEF Locals
  <2>2. Emit(<<UiEvent("Error")>>) /\ (ClearContext(u) \/ ClearContext(v))
    BY <1>2
  <2>3. "Error" \in Signals
    BY DEF Signals, Deciding
  <2> HIDE DEF u, v
  <2> QED BY <1>1, <2>1, <2>2, <2>3, ClearFollows
<1>3. CASE /\ \/ Emit(Noticed(Recalled) \o Asked(PendingEndpoints) \o Resumed)
              \/ Emit(Asked(PendingEndpoints) \o Resumed)
           /\ \E a, b, c : w' = [w EXCEPT !.pc = "Load", !.manager = TRUE, !.visible = Topology,
                            !.rows = a, !.asks = b, !.hint = c]
  <2>1. /\ Says(Noticed(Recalled), w.loaded, w.loaded)
        /\ Says(Asked(PendingEndpoints), w.loaded, w.loaded)
        /\ Says(Resumed, w.loaded, w.loaded)
    <3>1. Brief(Noticed(Recalled)) /\ Brief(Asked(PendingEndpoints))
      BY BriefEvent, BriefNothing DEF Noticed, Asked, Signals, Deciding, Showing
    <3> QED BY <3>1, ResumedBrief, BriefSays
  <2>2. PICK list : Emit(list) /\ Says(list, w.loaded, w.loaded)
    BY <1>3, <2>1, SaysBoth
  <2>3. PICK v : v = w'
    OBVIOUS
  <2>4. v.loaded = w.loaded /\ v.sub = w.sub /\ v.pending = None /\ Locals \subseteq DOMAIN v
    BY <1>1, <1>3, <2>3 DEF Locals
  <2> QED BY <1>1, <2>2, <2>3, <2>4, HandlerFollows
<1> QED BY <1>2, <1>3 DEF Discover

LEMMA LoadFollows ==
    ASSUME Window, Load
    PROVE  Follows
<1>1. w.pc # "Idle" /\ w.pending = None /\ Locals \subseteq DOMAIN w /\ UNCHANGED ui
  BY DEF Load, Window, AtRest
<1> DEFINE v == [w EXCEPT !.pc = "Coalesce"]
           at(m) == [v EXCEPT !.sel = m]
<1>2. /\ Locals \subseteq DOMAIN v /\ v.pending = None
      /\ \A m : Locals \subseteq DOMAIN at(m) /\ at(m).pending = None
  BY <1>1 DEF Locals
<1>3. \/ \E m, t : Hold(at(m), m) /\ t \in Showing /\ Emit(<<EventOf(t, m)>>)
      \/ \E m : ClearContext(at(m)) /\ Emit(<<UiEvent("Error")>>)
      \/ ClearContext(v) /\ Emit(<<UiEvent("Error")>>)
  BY DEF Load, Showing
<1> HIDE DEF v, at
<1>4. ASSUME NEW m, NEW t, Hold(at(m), m), t \in Showing, Emit(<<EventOf(t, m)>>)
      PROVE  Follows
  <2>1. Says(<<EventOf(t, m)>>, w.loaded, m)
    BY <1>4, SaysOne DEF Signals, Deciding
  <2> QED BY <1>1, <1>2, <1>4, <2>1, HoldFollows
<1>5. ASSUME NEW m, ClearContext(at(m)), Emit(<<UiEvent("Error")>>)
      PROVE  Follows
  BY <1>1, <1>2, <1>5, ClearFollows DEF Signals, Deciding
<1>6. ASSUME ClearContext(v), Emit(<<UiEvent("Error")>>)
      PROVE  Follows
  BY <1>1, <1>2, <1>6, ClearFollows DEF Signals, Deciding
<1> QED BY <1>3, <1>4, <1>5, <1>6

LEMMA SelectFollows ==
    ASSUME Window, SelectDevice
    PROVE  Follows
<1>1. w.pc # "Idle" /\ w.pending = None /\ Locals \subseteq DOMAIN w
  BY DEF SelectDevice, Doing, Window, AtRest
<1> DEFINE m == w.cmd.mouse
           v == [Done(w) EXCEPT !.sel = m]
<1>2. /\ Locals \subseteq DOMAIN v /\ v.pending = None /\ v.loaded = w.loaded /\ v.sub = w.sub
      /\ v.pc = "Idle"
  BY <1>1, DoneKeeps DEF Locals
<1>3. Says(<<UiEvent("OperationError")>>, w.loaded, w.loaded)
  BY SaysUi DEF Signals, Deciding, Showing
<1>4. \/ Answer(w, <<UiEvent("Error")>>)
      \/ w' \in {Done(w), v} /\ Emit(<<UiEvent("OperationError")>>) /\ UNCHANGED ui
      \/ Hold(v, m) /\ Emit(<<EventOf("Snapshot", m)>>) /\ UNCHANGED ui
      \/ ClearContext(v) /\ Emit(<<UiEvent("OperationError")>>) /\ UNCHANGED ui
  BY DEF SelectDevice
<1> HIDE DEF v, m
<1>5. CASE Answer(w, <<UiEvent("Error")>>)
  BY <1>1, <1>5, AnswerAside, AsideFollows DEF Signals, Deciding, Showing
<1>6. CASE w' \in {Done(w), v} /\ Emit(<<UiEvent("OperationError")>>) /\ UNCHANGED ui
  BY <1>1, <1>2, <1>3, <1>6, DoneFollows, HandlerFollows
<1>7. CASE Hold(v, m) /\ Emit(<<EventOf("Snapshot", m)>>) /\ UNCHANGED ui
  <2>1. Says(<<EventOf("Snapshot", m)>>, w.loaded, m)
    BY SaysOne DEF Signals, Deciding, Showing
  <2> QED BY <1>1, <1>2, <1>7, <2>1, HoldFollows
<1>8. CASE ClearContext(v) /\ Emit(<<UiEvent("OperationError")>>) /\ UNCHANGED ui
  BY <1>1, <1>2, <1>8, ClearFollows DEF Signals, Deciding
<1> QED BY <1>4, <1>5, <1>6, <1>7, <1>8

LEMMA PlanFails ==
    ASSUME NEW kind \in DOMAIN Plans
    PROVE  Plans[kind].failed \in {"Error", "OperationError"}
BY DEF Plans, Plan, SelectProfile, Apply, Discard, AddProfile, RenameProfile, HideProfile,
       RefreshAllProfiles, InvalidateState, VerifyProfile, VerifyPowerCycle

LEMMA CallFollows ==
    ASSUME Window, Call
    PROVE  Follows
<1>1. /\ w.pc # "Idle" /\ w.pending = None /\ Locals \subseteq DOMAIN w /\ UNCHANGED ui
      /\ w.cmd.kind \in DOMAIN Plans
  BY DEF Call, Doing, Window, AtRest
<1> DEFINE plan == Plans[w.cmd.kind]
<1>2. PICK v : /\ v \in {w, [w EXCEPT !.sub = None]}
               /\ \/ w' = [v EXCEPT !.pc = "Reload"] /\ UNCHANGED inbox
                  \/ w' = Done(v) /\ Emit(<<UiEvent(plan.failed)>>)
  BY DEF Call
<1>3. /\ Locals \subseteq DOMAIN v /\ v.pending = None /\ v.loaded = w.loaded
      /\ v.sub = w.sub \/ v.sub = None
  BY <1>1, <1>2 DEF Locals
<1>4. PICK u : u = w'
  OBVIOUS
<1>5. /\ Locals \subseteq DOMAIN u /\ u.pending = None /\ u.loaded = w.loaded
      /\ u.sub = w.sub \/ u.sub = None
  <2>1. CASE u = [v EXCEPT !.pc = "Reload"]
    BY <1>3, <2>1 DEF Locals
  <2>2. CASE u = Done(v)
    BY <1>3, <2>2, DoneKeeps
  <2> QED BY <1>2, <1>4, <2>1, <2>2
<1>6. PICK t : t = plan.failed
  OBVIOUS
<1>7. t \in Signals \ Showing
  BY <1>1, <1>6, PlanFails DEF Signals, Deciding, Showing
<1>8. Says(<<UiEvent(t)>>, w.loaded, w.loaded) /\ Says(<<>>, w.loaded, w.loaded)
  BY <1>7, SaysUi, SaysNothing
<1>9. PICK list : Emit(list) /\ Says(list, w.loaded, w.loaded)
  BY <1>2, <1>6, <1>8, Silent
<1> QED BY <1>1, <1>4, <1>5, <1>9, HandlerFollows

LEMMA ReloadFollows ==
    ASSUME Window, Reload
    PROVE  Follows
<1>1. w.pc # "Idle" /\ w.pending = None /\ Locals \subseteq DOMAIN w /\ UNCHANGED ui
  BY DEF Reload, Window, AtRest
<1>2. Says(<<EventOf("Snapshot", w.loaded)>>, w.loaded, w.loaded)
  BY SaysLoaded DEF Signals, Deciding, Showing
<1>3. Says(<<UiEvent("Error")>>, w.loaded, w.loaded)
  BY SaysUi DEF Signals, Deciding, Showing
<1>4. CASE w' = Done(w) /\ (Emit(<<EventOf("Snapshot", w.loaded)>>) \/ Emit(<<UiEvent("Error")>>))
  BY <1>1, <1>2, <1>3, <1>4, DoneFollows
<1>5. CASE Hold(Done(w), w.loaded) /\ Emit(<<EventOf("Snapshot", w.loaded)>>)
  BY <1>1, <1>2, <1>5, DoneKeeps, HoldFollows
<1>6. CASE ClearContext(Done(w)) /\ Emit(<<UiEvent("Error")>>)
  BY <1>1, <1>6, DoneKeeps, ClearFollows DEF Signals, Deciding
<1> QED BY <1>4, <1>5, <1>6 DEF Reload

\* After a ceremony: the step of the ceremony is told last.
LEMMA FinishFollows ==
    ASSUME Window, Finish
    PROVE  Follows
<1>1. w.pc # "Idle" /\ w.pending = None /\ Locals \subseteq DOMAIN w /\ UNCHANGED ui
  BY DEF Finish, Window, AtRest
<1> DEFINE v == [Done(w) EXCEPT !.rows = Unassociated]
           end == EventOf("CeremonyProgress", None)
<1>2. /\ Locals \subseteq DOMAIN v /\ v.pending = None /\ v.loaded = w.loaded /\ v.sub = w.sub
      /\ v.pc = "Idle"
  BY <1>1, DoneKeeps DEF Locals
<1>3. \/ w' = Done(w) /\ Emit(<<end>>)
      \/ w' = v /\ Emit(<<end>>)
      \/ Hold(v, w.loaded) /\ Emit(<<EventOf("Snapshot", w.loaded), end>>)
      \/ w' = v /\ Emit(<<UiEvent("OperationError"), end>>)
  BY DEF Finish
<1>4. Says(<<end>>, w.loaded, w.loaded)
  BY BriefEventOf, BriefSays DEF Signals, Deciding, Showing
<1>5. Says(<<EventOf("Snapshot", w.loaded), end>>, w.loaded, w.loaded)
  BY SaysTwo DEF Signals, Deciding, Showing
<1>6. Says(<<EventOf("OperationError", None), end>>, w.loaded, w.loaded)
  BY SaysTwo DEF Signals, Deciding, Showing
<1>7. UiEvent("OperationError") = EventOf("OperationError", None)
  BY DEF UiEvent, EventOf
<1> HIDE DEF v, end
<1> QED BY <1>1, <1>2, <1>3, <1>4, <1>5, <1>6, <1>7, DoneFollows, HoldFollows, HandlerFollows

LEMMA WorkerFollows ==
    ASSUME Window, Worker
    PROVE  Follows
<1>1. CASE w.pc = "Idle"
  <2>1. Take \/ TakeTopology \/ Deadline \/ Poll \/ TakeEvent
    BY <1>1 DEF Worker, FollowChange, Discover, Load, Coalesce, SelectDevice, Refused, Call, Reload,
                Import, Export, DecidePendingEndpoint, DecideEndpoint, BeginCeremony, Reconnected,
                Conclude, NoManager, Finish, Doing
  <2> QED BY <2>1, ArmFollows, EventFollows
<1>2. CASE w.pc # "Idle"
  <2>1. w.pending = None
    BY <1>2 DEF Window, AtRest
  <2>2. ~(Take \/ TakeTopology \/ Deadline \/ Poll \/ TakeEvent)
    BY <1>2 DEF Take, TakeTopology, Deadline, Poll, TakeEvent, Free
  <2>3. CASE Coalesce \/ Refused \/ Export \/ NoManager \/ DecidePendingEndpoint \/ DecideEndpoint
             \/ BeginCeremony \/ Reconnected \/ Conclude
    BY <1>2, <2>1, <2>3, CoalesceAside, RefusedAside, DecisionAside, BeginAside, CeremonyAside,
       AsideFollows
  <2>4. CASE FollowChange \/ Import \/ Discover \/ Load \/ SelectDevice \/ Call \/ Reload \/ Finish
    BY <2>4, ImportFollows, DiscoverFollows, LoadFollows, SelectFollows, CallFollows, ReloadFollows,
       FinishFollows
  <2> QED BY <2>2, <2>3, <2>4 DEF Worker
<1> QED BY <1>1, <1>2

LEMMA WindowInit ==
    ASSUME GuiInit
    PROVE  Window
<1>1. w.pc = "Idle" /\ w.loaded = None /\ Locals \subseteq DOMAIN w
  BY DEF GuiInit, Locals
<1>2. {"ready", "shown"} \subseteq DOMAIN ui /\ inbox \in Seq(Messages({}))
  BY DEF GuiInit
<1> QED BY <1>1, <1>2 DEF Window, WindowFollows, EventsOfLoaded, AtRest

\* What was sent before is followed by what is sent now.
LEMMA FollowsKeeps ==
    ASSUME Window, Follows
    PROVE  Window'
<1>1. PICK S : inbox \in Seq(Messages(S))
  BY DEF Window
<1>2. PICK list : inbox' = inbox \o list /\ Says(list, w.loaded, w'.loaded)
  BY DEF Follows
<1>3. PICK T : list \in Seq(Messages(T))
  BY <1>2 DEF Says
<1> DEFINE M == Messages(S \cup T)
<1>4. Messages(S) \subseteq M /\ Messages(T) \subseteq M
  BY DEF Messages
<1> HIDE DEF M
<1>5. inbox \in Seq(M) /\ list \in Seq(M) /\ inbox' \in Seq(M)
  BY <1>1, <1>2, <1>3, <1>4
<1>6. PICK n : n = Len(inbox) /\ n \in Nat
  BY <1>5
<1>7. PICK k : k = Len(list) /\ k \in Nat
  BY <1>5
<1>8. /\ DOMAIN inbox = 1..n /\ DOMAIN list = 1..k /\ DOMAIN inbox' = 1..n + k
      /\ \A i \in 1..n : inbox'[i] = inbox[i]
      /\ \A i \in n + 1..n + k : inbox'[i] = list[i - n]
      /\ \A i \in 1..k : list[i] = inbox'[n + i] /\ n + i \in 1..n + k
  BY <1>2, <1>5, <1>6, <1>7
<1>9. WindowFollows'
  <2> SUFFICES ASSUME w'.loaded # None
               PROVE  /\ \A i \in 1..n + k :
                            inbox'[i].t \in Showing /\ LastWord(i)' => inbox'[i].m = w'.loaded
                      /\ (\A i \in 1..n + k : ~Decides(i)') /\ ui'.ready => ui'.shown = w'.loaded
    BY <1>8 DEF WindowFollows
  <2>1. /\ \A i \in 1..k : list[i].t \in Showing => list[i].m = w'.loaded
        /\ w'.loaded # w.loaded => \E i \in 1..k : list[i].t \in Deciding
    BY <1>2, <1>8 DEF Says
  <2>2. ASSUME \A i \in 1..k : list[i].t \notin Deciding
        PROVE  w'.loaded = w.loaded /\ WindowFollows /\ w.loaded # None
    BY <2>1, <2>2 DEF Window
  <2>3. ASSUME NEW i \in 1..n + k, inbox'[i].t \in Showing, LastWord(i)'
        PROVE  inbox'[i].m = w'.loaded
    <3>1. CASE i \in 1..n
      <4>1. \A j \in 1..k : list[j].t \notin Deciding
        BY <1>6, <1>8, <2>3, <3>1 DEF LastWord, Decides
      <4>2. LastWord(i)
        BY <1>6, <1>7, <1>8, <2>3, <3>1 DEF LastWord, Decides
      <4> QED BY <1>8, <2>2, <2>3, <3>1, <4>1, <4>2 DEF WindowFollows
    <3>2. CASE i \notin 1..n
      <4>1. i \in n + 1..n + k /\ i - n \in 1..k
        BY <1>6, <1>7, <3>2
      <4> QED BY <1>8, <2>1, <2>3, <4>1
    <3> QED BY <3>1, <3>2
  <2>4. ASSUME \A i \in 1..n + k : ~Decides(i)', ui'.ready
        PROVE  ui'.shown = w'.loaded
    <3>1. \A j \in 1..k : list[j].t \notin Deciding
      BY <1>8, <2>4 DEF Decides
    <3>2. \A i \in 1..n : ~Decides(i)
      BY <1>6, <1>7, <1>8, <2>4 DEF Decides
    <3> QED BY <1>8, <2>2, <2>4, <3>1, <3>2 DEF WindowFollows, Follows
  <2> QED BY <2>3, <2>4
<1>10. EventsOfLoaded' /\ AtRest'
  BY DEF Follows, EventsOfLoaded, AtRest
<1>11. (Locals \subseteq DOMAIN w)' /\ ({"ready", "shown"} \subseteq DOMAIN ui)'
  BY DEF Follows, Window
<1>12. \E U : inbox' \in Seq(Messages(U))
  BY <1>5 DEF M
<1> QED BY <1>9, <1>10, <1>11, <1>12 DEF Window

\* apply_event: the window shows the oldest event.
LEMMA ApplyKeeps ==
    ASSUME Window, ApplyEvent
    PROVE  Window'
<1>1. PICK S : inbox \in Seq(Messages(S))
  BY DEF Window
<1>2. PICK n : n = Len(inbox) /\ n \in Nat
  BY <1>1
<1>3. PICK e : e = inbox[1]
  OBVIOUS
<1>4. /\ inbox # <<>> /\ inbox' = Tail(inbox) /\ ui' = Applied(ui, e) /\ w' = w
      /\ n >= 1
  BY <1>1, <1>2, <1>3 DEF ApplyEvent
<1>5. /\ DOMAIN inbox = 1..n /\ DOMAIN inbox' = 1..n - 1
      /\ \A i \in 1..n - 1 : inbox'[i] = inbox[i + 1] /\ i + 1 \in 1..n
      /\ \A i \in 1..n : i # 1 => i - 1 \in 1..n - 1 /\ inbox[i] = inbox'[i - 1]
      /\ inbox' \in Seq(Messages(S))
  BY <1>1, <1>2, <1>4
<1>6. /\ {"ready", "shown"} \subseteq DOMAIN ui'
      /\ e.t \notin Deciding => ui'.ready = ui.ready /\ ui'.shown = ui.shown
      /\ e.t \in Showing => ui'.shown = e.m
      /\ e.t = "Error" => ~ui'.ready
  <2>1. e \in Messages(S)
    BY <1>1, <1>2, <1>3, <1>4, <1>5
  <2>2. e.t \in Signals
    BY <2>1 DEF Messages
  <2>3. {"ready", "shown"} \subseteq DOMAIN ui
    BY DEF Window
  <2> QED BY <1>4, <2>2, <2>3 DEF Applied, ClearLive, ApplySnapshot, Signals, Deciding, Showing
<1>7. WindowFollows'
  <2> SUFFICES ASSUME w.loaded # None
               PROVE  /\ \A i \in 1..n - 1 :
                            inbox'[i].t \in Showing /\ LastWord(i)' => inbox'[i].m = w.loaded
                      /\ (\A i \in 1..n - 1 : ~Decides(i)') /\ ui'.ready => ui'.shown = w.loaded
    BY <1>4, <1>5 DEF WindowFollows
  <2>1. WindowFollows
    BY DEF Window
  <2>2. ASSUME NEW i \in 1..n - 1, inbox'[i].t \in Showing, LastWord(i)'
        PROVE  inbox'[i].m = w.loaded
    <3>1. ASSUME NEW j \in 1..n, j > i + 1
          PROVE  ~Decides(j)
      <4>1. j - 1 \in 1..n - 1 /\ j - 1 > i /\ inbox[j] = inbox'[j - 1]
        BY <1>2, <1>5, <3>1
      <4> QED BY <1>5, <2>2, <4>1 DEF LastWord, Decides
    <3>2. LastWord(i + 1)
      BY <1>5, <3>1 DEF LastWord
    <3> QED BY <1>5, <2>1, <2>2, <3>2 DEF WindowFollows
  <2>3. ASSUME \A i \in 1..n - 1 : ~Decides(i)', ui'.ready
        PROVE  ui'.shown = w.loaded
    <3>1. \A j \in 1..n : j # 1 => ~Decides(j)
      BY <1>5, <2>3 DEF Decides
    <3>2. CASE e.t \in Showing
      <4>1. LastWord(1)
        BY <1>5, <3>1 DEF LastWord
      <4> QED BY <1>3, <1>4, <1>5, <1>6, <2>1, <3>2, <4>1 DEF WindowFollows
    <3>3. CASE e.t \notin Deciding
      BY <1>3, <1>5, <1>6, <2>1, <2>3, <3>1, <3>3 DEF WindowFollows, Decides
    <3> QED BY <1>6, <2>3, <3>2, <3>3 DEF Deciding
  <2> QED BY <2>2, <2>3
<1>8. EventsOfLoaded' /\ AtRest' /\ (Locals \subseteq DOMAIN w)'
  BY <1>4 DEF Window, EventsOfLoaded, AtRest
<1> QED BY <1>5, <1>6, <1>7, <1>8 DEF Window

LEMMA WindowStep ==
    ASSUME Window, [GuiNext]_guiVars
    PROVE  Window'
<1>1. CASE Worker
  BY <1>1, WorkerFollows, FollowsKeeps
<1>2. CASE ApplyEvent
  BY <1>2, ApplyKeeps
<1>3. CASE /\ w' = w /\ inbox' = inbox
           /\ {"ready", "shown"} \subseteq DOMAIN ui'
           /\ ui'.ready = ui.ready /\ ui'.shown = ui.shown
  BY <1>3 DEF Window, WindowFollows, EventsOfLoaded, AtRest, LastWord, Decides
<1>4. CASE User
  <2>1. w' = w /\ inbox' = inbox
    BY <1>4 DEF User, Operates, Saves, SelectsDevice, Refreshes, Files, Answers, AddsMouse,
                SetsUpRow, Ceremonies, Gives
  <2>2. \E n, busy, ask : ui' \in {[ui EXCEPT !.acts = n, !.busy = busy],
                                   [ui EXCEPT !.acts = n, !.ask = ask],
                                   [ui EXCEPT !.acts = n, !.ask = ask, !.busy = busy]}
    <3>1. CASE Answers
      BY <3>1 DEF Answers
    <3>2. CASE \E c, busy : Gives(c, busy)
      BY <3>2 DEF Gives
    <3> QED BY <1>4, <3>1, <3>2 DEF User, Operates, Saves, SelectsDevice, Refreshes, Files,
                                    AddsMouse, SetsUpRow, Ceremonies
  <2>3. /\ {"ready", "shown"} \subseteq DOMAIN ui'
        /\ ui'.ready = ui.ready /\ ui'.shown = ui.shown
    BY <2>2 DEF Window
  <2> QED BY <1>3, <2>1, <2>3
<1>5. CASE World \/ UNCHANGED guiVars
  <2>1. w' = w /\ inbox' = inbox /\ ui' = ui
    BY <1>5 DEF World, Plug, Settle, Unplug, Switch, Press, LoseSession, guiVars
  <2> QED BY <1>3, <2>1 DEF Window
<1> QED BY <1>1, <1>2, <1>4, <1>5 DEF GuiNext

\* What holds of the window and its worker after any step of any thread.
THEOREM WindowInvariance == GuiSpec => []Window
BY WindowInit, WindowStep, PTL DEF GuiSpec

\* The worker follows the events of the loaded mouse or none: subscribe_and_hold
\* replaces both together, and clear_loaded_context drops both.
THEOREM EventsAreOfLoaded == GuiSpec => []EventsOfLoaded
<1>1. Window => EventsOfLoaded
  BY DEF Window
<1> QED BY WindowInvariance, <1>1, PTL

\* The window names the loaded mouse once it has shown everything, because every
\* handler that loads a mouse shows it in the same turn.
THEOREM WindowNames == GuiSpec => []WindowNamesLoaded
<1>1. Window => WindowNamesLoaded
  <2> SUFFICES ASSUME Window, inbox = <<>>, ui.ready, w.loaded # None
               PROVE  ui.shown = w.loaded
    BY DEF WindowNamesLoaded
  <2>1. DOMAIN inbox = {}
    OBVIOUS
  <2> QED BY <2>1 DEF Window, WindowFollows
<1> QED BY WindowInvariance, <1>1, PTL

\* pending_command is taken by the loop alone: a worker at work has none put
\* aside, and the arms that put one aside wait while there is one.
THEOREM PutAsideIsTaken == GuiSpec => PendingTaken
<1> DEFINE Taken == w.pending # None =>
                       w'.pending = w.pending \/ (w'.pending = None /\ w'.cmd = w.pending)
<1>1. Window /\ [GuiNext]_guiVars => [Taken]_guiVars
  <2> SUFFICES ASSUME Window, GuiNext PROVE Taken
    OBVIOUS
  <2>1. CASE Worker
    BY <2>1, WorkerFollows DEF Follows
  <2>2. CASE User \/ ApplyEvent \/ World
    <3>1. w' = w
      BY <2>2 DEF User, Operates, Saves, SelectsDevice, Refreshes, Files, Answers, AddsMouse,
                  SetsUpRow, Ceremonies, Gives, ApplyEvent, World, Plug, Settle, Unplug, Switch,
                  Press, LoseSession
    <3> QED BY <3>1
  <2> QED BY <2>1, <2>2 DEF GuiNext
<1> HIDE DEF Taken
<1>2. GuiSpec => [][Taken]_guiVars
  BY WindowInvariance, <1>1, PTL DEF GuiSpec
<1> QED BY <1>2 DEF Taken, PendingTaken

=============================================================================
