------------------------------ MODULE InputReports ------------------------------
(***************************************************************************)
(* The auxiliary USB input of the mouse, as pure functions: which of the   *)
(* enumerated HID collections the driver opens, and what one report means. *)
(***************************************************************************)
EXTENDS Naturals, Sequences, SequencesExt, Option

Byte == 0..255

-----------------------------------------------------------------------------
(* decode_input_report: byte 0 is 3, bytes 1 and 2 are the type of the event *)
(* and bytes 3 and 4 its data.  Nothing is guessed of any other report.      *)

InputEvent(kind, value) == [kind |-> kind, value |-> value]

Types == [stage |-> 4096, secondary |-> 8192, batteryX3 |-> 16400, batteryX11 |-> 16469,
          connection |-> 20496, index |-> 24576, led |-> 28672, sync |-> 32768]

\* The range of a one-byte payload, and what is reported of it.
Payload(kind, report, range, value) ==
    IF report[5] = 0 /\ report[4] \in range THEN InputEvent(kind, value) ELSE None

\* Faulty variant: the X3 level is not checked.
UncheckedBattery(report, type) ==
    IF report[4] # 1 THEN None
    ELSE IF type = Types.batteryX3 THEN InputEvent("battery", report[5] * 10)
    ELSE IF report[5] <= 100 THEN InputEvent("battery", report[5]) ELSE None

\* Tenths of the charge, and per cents.
Battery(report, type) ==
    IF report[4] # 1 THEN None
    ELSE IF type = Types.batteryX3
    THEN IF report[5] \in 1..10 THEN InputEvent("battery", report[5] * 10) ELSE None
    ELSE IF report[5] <= 100 THEN InputEvent("battery", report[5]) ELSE None

\* Padding after the fifth byte is not looked at.
DecodeInputReport(report) ==
    IF Len(report) < 5 \/ report[1] # 3 THEN None
    ELSE LET type == report[2] + (256 * report[3])
             data == report[4]
         IN  CASE type = Types.stage -> Payload("stage", report, 1..8, data)
               [] type = Types.secondary -> Payload("secondary", report, 1..5, data)
               [] type \in {Types.batteryX3, Types.batteryX11} -> Battery(report, type)
               [] type = Types.connection -> Payload("connection", report, {0, 1}, data = 0)
               [] type = Types.index -> Payload("index", report, 1..10, data)
               [] type = Types.led -> Payload("led", report, 0..7, data)
               \* Counted from 0 here, from 1 everywhere else.
               [] type = Types.sync -> Payload("sync", report, 0..4, data + 1)
               [] OTHER -> None

\* What an event may say.
ProperEvent(event) ==
    LET value == event.value
    IN  CASE event.kind = "stage" -> value \in 1..8
          [] event.kind \in {"secondary", "sync"} -> value \in 1..5
          [] event.kind = "battery" -> value \in 0..100
          [] event.kind = "connection" -> value \in BOOLEAN
          [] event.kind = "index" -> value \in 1..10
          [] event.kind = "led" -> value \in 0..7

-----------------------------------------------------------------------------
(* The HID collections.  A path is a family and the rest: on Windows the part *)
(* before "&col", which names the function of the device, elsewhere the whole *)
(* path.  The mouse a collection is of is known to no code.                   *)

\* select_device_candidate: the position, or 0.
SelectCandidate(selector, candidates) ==
    IF selector = None THEN IF Len(candidates) = 1 THEN 1 ELSE 0
    ELSE SelectInSeq(candidates, LAMBDA c : c.path = selector)

\* Faulty variant: the fallback takes the first input collection there is.
FirstInputCollection(selector, configurations, inputs) ==
    IF SelectCandidate(selector, configurations) = 0 \/ inputs = <<>> THEN None ELSE Head(inputs)

\* open_input_transport: the input collection of the same family, or the only
\* one beside an only configuration collection.
InputCollection(selector, configurations, inputs) ==
    LET c == SelectCandidate(selector, configurations)
        same == SelectInSeq(inputs, LAMBDA i : i.family = configurations[c].family)
    IN  CASE c = 0 -> None
          [] c # 0 /\ same # 0 -> inputs[same]
          [] c # 0 /\ same = 0 ->
                IF Len(configurations) = 1 /\ Len(inputs) = 1 THEN inputs[1] ELSE None
=============================================================================
