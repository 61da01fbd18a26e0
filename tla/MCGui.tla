--------------------------------- MODULE MCGui ---------------------------------
(* Two saved mice, m2 on Bluetooth, and a stranger, of which two are plugged *)
(* in: the stranger, unmarked, with the mouse nobody has chosen yet; or both *)
(* mice, one chosen, while the stranger carries a mark that nobody owns. Two *)
(* commands and one change of the world, or one command and two changes.     *)
EXTENDS Gui

CONSTANTS m1, m2, s1

MCOrder == <<s1>>
MCStarts ==
    [plugged : {{m1, s1}}, marked : {{}}, chosen : {None}, watcher : {TRUE},
     acts : {0}, changes : {1}, failures : {0}]
        \cup [plugged : {{m1, m2}}, marked : {{s1}}, chosen : {m1}, watcher : BOOLEAN,
              acts : {0}, changes : {1}, failures : {0}]
        \cup [plugged : {{m1, m2}}, marked : {{s1}}, chosen : {m1, m2}, watcher : BOOLEAN,
              acts : {1}, changes : {0}, failures : {1}]
=============================================================================
