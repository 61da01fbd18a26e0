---------------------------- MODULE MCSectionUpdate ----------------------------
(* Sections with the extreme values of the protocol, a foreign and a damaged mark. *)
EXTENDS SectionUpdate, TLC

Token1 == [i \in 1..16 |-> 16 * i - 1]
Foreign == ToWatermark([i \in 1..16 |-> i])
Broken == [Foreign EXCEPT ![7] = 99]

Sensor(a, b) == [lift |-> a, ripple |-> b, snap |-> b, sync |-> a]

DpiImages ==
    {[profile |-> 1, stages |-> <<50, 26000>>, active |-> 2, sensor |-> Sensor(1, 0),
      tail |-> CapturedTail],
     [profile |-> 1, stages |-> [i \in 1..8 |-> 3250 * i], active |-> 8,
      sensor |-> Sensor(0, 1), tail |-> Foreign],
     [profile |-> 1, stages |-> <<12850>>, active |-> 1, sensor |-> Sensor(0, 0),
      tail |-> Broken]}

PreferenceImages ==
    {[profile |-> 1, light |-> 0, configuration |-> ConfigurationWith(16, 3),
      deepSleep |-> DeepSleepByte(16), color |-> <<0, 0, 255>>, sleep |-> 1,
      debounce |-> DebounceRaw(8)],
     [profile |-> 1, light |-> 255, configuration |-> ConfigurationWith(60, 15),
      deepSleep |-> DeepSleepByte(60), color |-> <<255, 255, 255>>, sleep |-> 255,
      debounce |-> 255]}

ButtonImages ==
    {[profile |-> 1, slots |-> DefaultSlots],
     [profile |-> 1, slots |-> [i \in 0..17 |-> <<255 - i, 255, 200 + i>>]]}

MCImages == [dpi |-> DpiImages, preferences |-> PreferenceImages, buttons |-> ButtonImages,
     rate |-> DOMAIN RateCode,
     metadata |-> {m \in [current : Profiles, maximum : {1, 3, 5}] : m.current <= m.maximum}]

MCDeltas ==
    [dpi |-> {[stages |-> <<400, 800, 1600>>], [active |-> 2, lift |-> 1, sync |-> 0],
              [stages |-> <<25950>>, active |-> 1], [snap |-> 1, ripple |-> 0]},
     preferences |-> {[debounce |-> DebounceRaw(50)], [color |-> <<1, 2, 3>>, light |-> 9],
                      [configuration |-> ConfigurationWith(47, 3),
                       deepSleep |-> DeepSleepByte(47), sleep |-> 60]},
     buttons |->
        {[Left |-> "Disable", Right |-> "BrowserFavorites", Middle |-> "ProfileMinus"],
         [Dpi |-> "Cut", Forward |-> "LockPc", Backward |-> "ScreenCapture"],
         [Middle |-> "BrowserSearch", Backward |-> "DoubleClick", Left |-> "CloseWindow"]},
     rate |-> {}, metadata |-> {}]
=============================================================================
