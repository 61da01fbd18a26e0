-------------------------------- MODULE Option --------------------------------
(***************************************************************************)
(* Rust's Option: a value of some set, or None.  The modules that keep     *)
(* optional values share this one None, so that they can be extended       *)
(* together; what it must differ from, each of them assumes for itself.    *)
(***************************************************************************)
CONSTANT None
=============================================================================
