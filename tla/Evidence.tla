------------------------------- MODULE Evidence -------------------------------
(***************************************************************************)
(* The evidence the manager keeps for one resource of a mouse: what value  *)
(* is wanted (desired), what was last read back from the hardware          *)
(* (observed), and how far the wanted value has been verified.  This is    *)
(* crates/attack-shark-x3-manager/src/state/model.rs, ResourceState<T>:    *)
(* its four mutators as operators from a resource to a resource, and the   *)
(* gate validate_resource_state that every commit of the state file runs.  *)
(*                                                                         *)
(* Timestamps come from the wall clock, so an operation may carry any Time *)
(* whatever the times already recorded: nothing here assumes that the      *)
(* clock moves forward.                                                    *)
(***************************************************************************)
EXTENDS Integers, Option

CONSTANTS
    Value,  \* the values a resource can hold (a DPI image, a rate, ...)
    Time    \* the wall-clock seconds that operations can carry

ASSUME TimeAssumption == Time \subseteq Int

Application == {"NotSent", "Acknowledged", "ReadbackVerified", "Mismatch"}
Source == {"UserWrite", "Imported", "CapturedBaseline"}
ClaimKind == {"ProfileReloadVerified", "PowerCycleVerified"}

Unknown == [kind |-> "Unknown"]
Claim == [kind : ClaimKind, verified_at : Time]

Desired == [value : Value, source : Source, application : Application,
            persistence : {Unknown} \cup Claim, updated_at : Time]
Observed == [value : Value, observed_at : Time]

ASSUME EvidenceAssumption == None \notin Desired /\ None \notin Observed

Resource == [desired : {None} \cup Desired, observed : {None} \cup Observed]
Empty == [desired |-> None, observed |-> None]

Wanted(v, src, app, t) ==
    [value |-> v, source |-> src, application |-> app,
     persistence |-> Unknown, updated_at |-> t]
Seen(v, t) == [value |-> v, observed_at |-> t]

(***************************************************************************)
(* Relations between the two halves of a resource.                         *)
(***************************************************************************)
Agrees(res) == res.desired.value = res.observed.value
Current(res) == res.observed.observed_at >= res.desired.updated_at
Claims(res) == res.desired # None /\ res.desired.persistence # Unknown

-----------------------------------------------------------------------------
(* Faulty variants of the mutators: the bugs the properties must detect. *)

\* A matching read verifies the desired value even when the clock went back.
ReconcileIgnoringClock(res, o, t) ==
    IF res.desired = None
    THEN [desired  |-> Wanted(o, "CapturedBaseline", "ReadbackVerified", t),
          observed |-> Seen(o, t)]
    ELSE [desired  |-> [res.desired EXCEPT
              !.application = IF res.desired.value = o THEN "ReadbackVerified" ELSE "Mismatch",
              !.persistence = Unknown],
          observed |-> Seen(o, t)]

\* A matching read keeps an earlier persistence claim that would pass the gate.
ReconcileKeepingClaim(res, o, t) ==
    IF res.desired = None
    THEN [desired  |-> Wanted(o, "CapturedBaseline", "ReadbackVerified", t),
          observed |-> Seen(o, t)]
    ELSE LET matches == res.desired.value = o /\ t >= res.desired.updated_at
         IN [desired  |-> [res.desired EXCEPT
                 !.application = IF matches THEN "ReadbackVerified" ELSE "Mismatch",
                 !.persistence = IF matches /\ Claims(res) /\ @.verified_at >= t
                                 THEN @ ELSE Unknown],
             observed |-> Seen(o, t)]

-----------------------------------------------------------------------------
(* The mutators. *)

\* An accepted write without readback: the old observation is kept as history.
RecordAckWrite(res, v, t) ==
    [res EXCEPT !.desired = Wanted(v, "UserWrite", "Acknowledged", t)]

\* A write followed by its immediate readback o.
RecordReadbackWrite(res, v, o, t) ==
    [desired  |-> Wanted(v, "UserWrite",
                         IF v = o THEN "ReadbackVerified" ELSE "Mismatch", t),
     observed |-> Seen(o, t)]

\* An imported value has not been sent to the hardware.
SetImported(res, v, t) ==
    [res EXCEPT !.desired = Wanted(v, "Imported", "NotSent", t)]

\* A fresh read o: it becomes the baseline when nothing is wanted yet.
ReconcileObservation(res, o, t) ==
    IF res.desired = None
    THEN [desired  |-> Wanted(o, "CapturedBaseline", "ReadbackVerified", t),
          observed |-> Seen(o, t)]
    ELSE LET matches == res.desired.value = o /\ t >= res.desired.updated_at
         IN [desired  |-> [res.desired EXCEPT
                 !.application = IF matches THEN "ReadbackVerified" ELSE "Mismatch",
                 !.persistence = Unknown],
             observed |-> Seen(o, t)]

InvalidatePersistence(res) ==
    IF res.desired = None THEN res
    ELSE [res EXCEPT !.desired.persistence = Unknown]

\* The conditions under which a persistence claim may be attached at time t.
Markable(res, t) ==
    /\ res.desired # None /\ res.observed # None
    /\ res.desired.application = "ReadbackVerified"
    /\ Agrees(res)
    /\ Current(res)
    /\ t >= res.observed.observed_at

MarkOrInvalidate(res, kind, t) ==
    IF Markable(res, t)
    THEN [res EXCEPT !.desired.persistence = [kind |-> kind, verified_at |-> t]]
    ELSE InvalidatePersistence(res)

-----------------------------------------------------------------------------
(* The gate of every commit. *)

ValidVerified(res) ==
    /\ res.observed # None
    /\ Agrees(res)
    /\ Current(res)
    /\ Claims(res) => res.desired.persistence.verified_at >= res.observed.observed_at

ValidMismatch(res) ==
    /\ res.observed # None
    /\ ~(Agrees(res) /\ Current(res))
    /\ ~Claims(res)

ValidResource(res) ==
    res.desired # None =>
        CASE res.desired.application \in {"NotSent", "Acknowledged"} -> ~Claims(res)
          [] res.desired.application = "ReadbackVerified" -> ValidVerified(res)
          [] res.desired.application = "Mismatch" -> ValidMismatch(res)
=============================================================================
