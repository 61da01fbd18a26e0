---------------------------- MODULE MCInputEvents ----------------------------
(* The collections of mouse 2, to be opened, and of an identical mouse 1, on *)
(* Linux and on Windows, in every order of listing and with every part of    *)
(* them listed while a mouse is being plugged in; and reports at the ends of *)
(* their ranges: few of them mean anything.                                  *)
EXTENDS InputEvents

Collection(name, family, mouse) == [path |-> <<name, mouse>>, family |-> family, mouse |-> mouse]

\* Linux: the family is the whole path. Windows: it is the interface, whose
\* collections are listed one after the other; the mouse itself has another.
Whole(name, mouse) == Collection(name, <<name, mouse>>, mouse)
Linux == [configuration |-> [m \in 1..2 |-> Whole("hidraw2", m)],
          auxiliary |-> [m \in 1..2 |-> <<Whole("hidraw1", m)>>]]
Windows == [configuration |-> [m \in 1..2 |-> Collection("mi_02&col04", <<"mi_02">>, m)],
            auxiliary |-> [m \in 1..2 |-> <<Collection("mi_01&col01", <<"mi_01">>, m),
                                          Collection("mi_02&col01", <<"mi_02">>, m),
                                          Collection("mi_02&col02", <<"mi_02">>, m)>>]]

HidLayouts ==
    { [selector |-> selector,
       configurations |-> [i \in DOMAIN mice |-> platform.configuration[mice[i]]],
       inputs |-> FlattenSeq([i \in DOMAIN listed |-> platform.auxiliary[listed[i]]])] :
         platform \in {Linux, Windows},
         mice \in {<<2>>, <<1, 2>>, <<2, 1>>},
         listed \in {<<>>, <<1>>, <<2>>, <<1, 2>>, <<2, 1>>},
         selector \in {None} \cup {<<path, 2>> : path \in {"hidraw2", "mi_02&col04", "gone"}} }

InputReportSet ==
    { <<3, 16, 64, 1, 10, 0>>, <<3, 16, 64, 1, 0>>, <<3, 16, 64, 1, 11>>, <<3, 16, 64, 2, 5>>,
      <<3, 85, 64, 1, 101>>, <<3, 0, 16, 9, 0>>, <<3, 0, 16, 0, 0>>, <<3, 0, 16, 2, 1>>,
      <<3, 0, 32, 6, 0>>, <<3, 16, 80, 2, 0>>, <<3, 16, 80, 1, 0>>, <<3, 0, 96, 0, 0>>,
      <<3, 0, 112, 8, 0>>, <<3, 0, 128, 5, 0>>, <<3, 0, 128, 255, 0>>, <<4, 0, 16, 2, 0>>,
      <<3, 0, 144, 1, 0>>, <<3, 0, 16>> }
=============================================================================
