------------------------------ MODULE MCBleDriver ------------------------------
(* Two callers and two reports, so that a late acknowledgement may meet a      *)
(* write of its own report or of the other; an inbox that two notes fill.      *)
EXTENDS BleDriver
=============================================================================
