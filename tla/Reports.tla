-------------------------------- MODULE Reports --------------------------------
(***************************************************************************)
(* The reports of the X3, byte by byte: how a section of a profile is put  *)
(* on the wire, what the mouse publishes for it, and what a decoder        *)
(* accepts.  A report is a sequence of bytes; byte i of the protocol is    *)
(* At(p, i).  A decoder answers with the value, or with None where the     *)
(* code returns a ProtocolError.                                           *)
(***************************************************************************)
EXTENDS Integers, Sequences, Option

Byte == 0..255
Transport == {"Wired", "Receiver", "Ble"}
Zeros(n) == [i \in 1..n |-> 0]

At(p, i) == p[i + 1]
Slice(p, from, to) == SubSeq(p, from + 1, to)   \* p[from..to], to exclusive

\* Wrapping 16-bit sum of the bytes.
Sum16(p) ==
    LET sum[i \in 0..Len(p)] == IF i = 0 THEN 0 ELSE (sum[i - 1] + p[i]) % 65536
    IN  sum[Len(p)]

BigEndian(n) == <<n \div 256, n % 256>>
Complement(b) == 255 - b
IsComplement(b, c) == b + c = 255 /\ b \in Byte /\ c \in Byte

-----------------------------------------------------------------------------
(* The frame all reports share: identity, declared length, length, zero    *)
(* padding of the full framing, and the checksum or complement pairs.      *)

Kind == {"dpi", "preferences", "buttons", "rate", "metadata"}

\* id, declared length of a write, wire length of the write image, length of
\* the USB readback image, and where the checksum stands (0: no checksum).
Layout ==
    [dpi         |-> [id |-> 4,  declared |-> 56, compact |-> 52, full |-> 56, sum |-> 50],
     preferences |-> [id |-> 5,  declared |-> 15, compact |-> 13, full |-> 15, sum |-> 11],
     buttons     |-> [id |-> 8,  declared |-> 59, compact |-> 59, full |-> 59, sum |-> 57],
     rate        |-> [id |-> 6,  declared |-> 9,  compact |-> 9,  full |-> 9,  sum |-> 0],
     metadata    |-> [id |-> 12, declared |-> 10, compact |-> 10, full |-> 10, sum |-> 0]]

\* The full framing is a readback over USB.
Framings(transport) == IF transport = "Ble" THEN {"compact"} ELSE {"compact", "full"}

ValidLengths(kind, transport) == {Layout[kind][framing] : framing \in Framings(transport)}

\* The receiver counts two bytes more; for two kinds it may also answer with
\* the canonical declaration.
ValidDeclared(kind, transport) ==
    LET canonical == Layout[kind].declared
    IN  IF transport # "Receiver" THEN {canonical}
        ELSE {canonical + 2}
             \cup (IF kind \in {"dpi", "preferences"} THEN {canonical} ELSE {})

ZeroFrom(p, from) == \A i \in from..(Len(p) - 1) : At(p, i) = 0

SumMatches(kind, p) ==
    LET s == Layout[kind].sum IN Slice(p, s, s + 2) = BigEndian(Sum16(Slice(p, 3, s)))

Header(kind, profile) == <<Layout[kind].id, Layout[kind].declared, profile>>

\* Faulty variant: the checksum starts one byte early.
SealedFromProfile(kind, profile, body) ==
    Header(kind, profile) \o body \o BigEndian(Sum16(<<profile>> \o body))

\* The write image of a checksummed section.
Sealed(kind, profile, body) == Header(kind, profile) \o body \o BigEndian(Sum16(body))

\* Faulty variant: the profile of the report is not compared.
WellFramedAnyProfile(kind, p, transport, profile) ==
    /\ Len(p) \in ValidLengths(kind, transport)
    /\ At(p, 0) = Layout[kind].id
    /\ At(p, 1) \in ValidDeclared(kind, transport)
    /\ ZeroFrom(p, Layout[kind].compact)
    /\ SumMatches(kind, p)

\* The checks every sectional decoder makes, in front of its fields.
WellFramed(kind, p, transport, profile) ==
    /\ Len(p) \in ValidLengths(kind, transport)
    /\ At(p, 0) = Layout[kind].id
    /\ At(p, 1) \in ValidDeclared(kind, transport)
    /\ At(p, 2) = profile
    /\ ZeroFrom(p, Layout[kind].compact)
    /\ SumMatches(kind, p)

-----------------------------------------------------------------------------
(* Report 0x04: stages, sensor and the opaque tail. *)

Dpi == {50 * n : n \in 1..520}
WatermarkLength == 25

\* The stage count and the active stage a complete state must have.
StageIndex == 1..8
ValidSelection(stages, active) == Len(stages) \in StageIndex /\ active \in 1..Len(stages)

\* DpiState::new.
NewDpi(s) == IF ValidSelection(s.stages, s.active) THEN s ELSE None

StageMask(count) == 2^count - 1

\* The raw value of stage i + 1 on the wire: zero past the last one.
RawStage(stages, i) == IF i < Len(stages) THEN stages[i + 1] \div 50 - 1 ELSE 0

EncodeDpi(s) ==
    IF NewDpi(s) = None THEN None
    ELSE Sealed("dpi", s.profile,
            <<s.sensor.lift, s.sensor.ripple, StageMask(Len(s.stages)),
              s.sensor.snap, s.sensor.sync>>
            \o [i \in 1..8 |-> RawStage(s.stages, i - 1) % 256]
            \o [i \in 1..8 |-> RawStage(s.stages, i - 1) \div 256]
            \o <<s.active>> \o s.tail)

DecodeDpi(p, transport, profile) ==
    IF ~WellFramed("dpi", p, transport, profile) THEN None
    ELSE LET raw == [i \in 0..7 |-> At(p, 8 + i) + 256 * At(p, 16 + i)]
             counts == {n \in 1..8 : StageMask(n) = At(p, 5)}
         IN  IF /\ \A i \in {3, 4, 6, 7} : At(p, i) \in {0, 1}
                /\ \E n \in counts :
                      /\ \A i \in 0..7 : raw[i] <= IF i < n THEN 519 ELSE 0
                      /\ At(p, 24) \in 1..n
             THEN [profile |-> profile,
                   stages  |-> [i \in 1..(CHOOSE n \in counts : TRUE) |-> (raw[i - 1] + 1) * 50],
                   active  |-> At(p, 24),
                   sensor  |-> [lift |-> At(p, 3), ripple |-> At(p, 4),
                                snap |-> At(p, 6), sync |-> At(p, 7)],
                   tail    |-> Slice(p, 25, 50)]
             ELSE None

\* crc32fast::hash, of which only this matters: four bytes, and a change of
\* one input byte changes them.
Crc32(b) ==
    LET sum[i \in 0..Len(b)] == IF i = 0 THEN 0 ELSE sum[i - 1] + i * b[i]
        n == sum[Len(b)]
    IN  <<n \div 16777216, (n \div 65536) % 256, (n \div 256) % 256, n % 256>>

Magic == <<88, 51, 73, 68>>     \* "X3ID"
MarkVersion == 1

\* The tail a ceremony stamps: magic, version, the 16 token bytes, checksum.
ToWatermark(token) ==
    LET marked == Magic \o <<MarkVersion>> \o token IN marked \o Crc32(marked)

OverlayPhysicalId(s, token) == [s EXCEPT !.tail = ToWatermark(token)]

\* decode_watermark: what a tail says about the identity of its mouse.
DecodeWatermark(tail) ==
    IF Len(tail) # WatermarkLength \/ Slice(tail, 0, 4) # Magic THEN [mark |-> "Absent"]
    ELSE IF At(tail, 4) # MarkVersion THEN [mark |-> "UnsupportedVersion"]
    ELSE IF Slice(tail, 21, 25) # Crc32(Slice(tail, 0, 21)) THEN [mark |-> "Malformed"]
    ELSE [mark |-> "Valid", token |-> Slice(tail, 5, 21)]

CapturedTail ==
    <<255, 0, 0, 0, 255, 0, 0, 0, 255, 255, 255, 0, 0, 255, 255, 255,
      0, 255, 255, 64, 0, 255, 255, 255, 1>>

-----------------------------------------------------------------------------
(* Report 0x05: eight raw bytes, and the typed views of four of them. *)

PreferenceField == {"light", "configuration", "deepSleep", "color", "sleep", "debounce"}

EncodePreferences(s) ==
    Sealed("preferences", s.profile,
           <<s.light, s.configuration, s.deepSleep>> \o s.color \o <<s.sleep, s.debounce>>)

DecodePreferences(p, transport, profile) ==
    IF ~WellFramed("preferences", p, transport, profile) THEN None
    ELSE [profile |-> profile, light |-> At(p, 3), configuration |-> At(p, 4),
          deepSleep |-> At(p, 5), color |-> Slice(p, 6, 9),
          sleep |-> At(p, 9), debounce |-> At(p, 10)]

DebounceValid(ms) == ms \in 4..50 /\ ms % 2 = 0
DebounceRaw(ms) == (ms - 4) \div 2 + 2
DebounceFromRaw(raw) == IF raw \in 2..25 THEN (raw - 2) * 2 + 4 ELSE None

SleepFromRaw(raw) == IF raw \in 1..60 THEN raw ELSE None   \* half minutes

\* A deep sleep of m minutes is split over two bytes.
DeepSleepByte(m) == 8 + 16 * (m % 16)
ConfigurationWith(m, configuration) == 16 * (m \div 16) + (configuration % 16)
DeepSleepFrom(configuration, deepSleep) ==
    LET bucket == configuration \div 16
        m == 16 * bucket + (deepSleep \div 16)
    IN  IF deepSleep % 16 = 8 /\ bucket <= 3 /\ m \in 1..60 THEN m ELSE None

-----------------------------------------------------------------------------
(* Report 0x08: eighteen three-byte slots, and the actions known by name. *)

SlotCount == 18

EncodeButtons(s) ==
    Sealed("buttons", s.profile, [i \in 1..54 |-> s.slots[(i - 1) \div 3][((i - 1) % 3) + 1]])

DecodeButtons(p, transport, profile) ==
    IF ~WellFramed("buttons", p, transport, profile) THEN None
    ELSE [profile |-> profile,
          slots |-> [i \in 0..(SlotCount - 1) |-> Slice(p, 3 + 3 * i, 6 + 3 * i)]]

\* The parameterless actions by their firmware byte.
ActionByte ==
    [Disable |-> 1, LeftClick |-> 2, RightClick |-> 3, MiddleClick |-> 4, Backward |-> 5,
     Forward |-> 6, DoubleClick |-> 7, FireButton |-> 8, ScrollUp |-> 9, ScrollDown |-> 10,
     DpiCycle |-> 13, DpiPlus |-> 14, DpiMinus |-> 15, ProfileCycle |-> 52,
     ProfilePlus |-> 53, ProfileMinus |-> 54, MediaPlayer |-> 21, PreviousTrack |-> 22,
     NextTrack |-> 23, PlayPause |-> 24, Stop |-> 25, Mute |-> 26, VolumeUp |-> 27,
     VolumeDown |-> 28, Calculator |-> 29, Email |-> 30, BrowserForward |-> 32,
     BrowserBackward |-> 33, BrowserStop |-> 34, MyComputer |-> 35, BrowserRefresh |-> 36,
     BrowserHome |-> 37, BrowserSearch |-> 38]

Assignment(action, modifier, key) == <<action, modifier, key>>

ShortcutByte == 17
MacroByte == 18

\* X3ButtonAction::try_from: the named action of a slot, or None.
DecodeAction(slot) ==
    LET named == {a \in DOMAIN ActionByte : ActionByte[a] = slot[1]}
    IN  IF named # {}
        THEN IF slot[2] = 0 /\ slot[3] = 0 THEN [action |-> CHOOSE a \in named : TRUE] ELSE None
        ELSE IF slot[1] = ShortcutByte /\ slot[2] \in 0..15 /\ slot[3] \in 4..231
             THEN [action |-> "KeyboardShortcut", modifiers |-> slot[2], key |-> slot[3]]
        ELSE IF slot[1] = MacroByte /\ slot[2] = 0
             THEN [action |-> "Macro", reference |-> slot[3]]
        ELSE None

\* X3ButtonAction::to_assignment.
EncodeAction(a) ==
    IF a.action = "KeyboardShortcut" THEN Assignment(ShortcutByte, a.modifiers, a.key)
    ELSE IF a.action = "Macro" THEN Assignment(MacroByte, 0, a.reference)
    ELSE Assignment(ActionByte[a.action], 0, 0)

DefaultSlots ==
    LET code == <<2, 3, 4, 13, 60, 15, 6, 5, 60, 1, 1, 1, 1, 1, 1, 1, 10, 9>>
    IN  [i \in 0..(SlotCount - 1) |-> Assignment(code[i + 1], 0, 0)]

-----------------------------------------------------------------------------
(* Reports 0x06 and 0x0c: a value and its complement. *)

RateCode == [Hz125 |-> 8, Hz250 |-> 4, Hz500 |-> 2, Hz1000 |-> 1]

EncodeRate(profile, rate) ==
    Header("rate", profile) \o <<RateCode[rate], Complement(RateCode[rate])>> \o Zeros(4)

DecodeRate(p, transport, profile) ==
    LET rates == {r \in DOMAIN RateCode : RateCode[r] = At(p, 3)}
    IN  IF /\ Len(p) = Layout.rate.full
           /\ At(p, 0) = Layout.rate.id
           /\ At(p, 1) \in ValidDeclared("rate", transport)
           /\ At(p, 2) = profile
           /\ rates # {}
           /\ IsComplement(At(p, 3), At(p, 4))
           /\ ZeroFrom(p, 5)
        THEN CHOOSE r \in rates : TRUE
        ELSE None

Profiles == 1..5

\* What the mouse publishes for its metadata, and its decoder.
PublishMetadata(m) ==
    <<Layout.metadata.id, Layout.metadata.declared, 1, m.current, Complement(m.current),
      m.maximum, Complement(m.maximum), 0, 0, 0>>

DecodeMetadata(p, transport) ==
    IF /\ Len(p) = Layout.metadata.full
       /\ At(p, 0) = Layout.metadata.id
       /\ At(p, 1) \in ValidDeclared("metadata", transport)
       /\ At(p, 2) = 1
       /\ IsComplement(At(p, 3), At(p, 4)) /\ IsComplement(At(p, 5), At(p, 6))
       /\ ZeroFrom(p, 7)
       /\ At(p, 3) \in Profiles /\ At(p, 5) \in Profiles
       /\ At(p, 3) <= At(p, 5)
    THEN [current |-> At(p, 3), maximum |-> At(p, 5)]
    ELSE None

\* The write image of the metadata has another shape than its readback.
EncodeControl(m) ==
    <<Layout.metadata.id, Layout.metadata.declared, m.current, Complement(m.current),
      m.maximum, Complement(m.maximum)>>

-----------------------------------------------------------------------------
(* The firmware's side: the readback of a stored write image p. *)

Publish(kind, p, transport) ==
    LET pad == Layout[kind].full - Len(p)
        declared == IF transport = "Receiver" THEN Layout[kind].declared + 2
                                              ELSE Layout[kind].declared
    IN  [(p \o Zeros(pad)) EXCEPT ![2] = declared]

Decode(kind, p, transport, profile) ==
    CASE kind = "dpi"         -> DecodeDpi(p, transport, profile)
      [] kind = "preferences" -> DecodePreferences(p, transport, profile)
      [] kind = "buttons"     -> DecodeButtons(p, transport, profile)
      [] kind = "rate"        -> DecodeRate(p, transport, profile)
      [] kind = "metadata"    -> DecodeMetadata(p, transport)
=============================================================================
