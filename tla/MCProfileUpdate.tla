---------------------------- MODULE MCProfileUpdate ----------------------------
(* Two processes, two sections of two fields each, one value to change to: an *)
(* update of one section can be lost under, or mixed with, one of the other.  *)
EXTENDS ProfileUpdate, TLC

MCSections == <<"dpi", "preferences">>
MCDelta == {"f" :> 1, "g" :> 1}
=============================================================================
