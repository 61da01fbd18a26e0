--------------------------- MODULE ResourceEvidence ---------------------------
(***************************************************************************)
(* The durable evidence of one profile of one mouse, under every handler   *)
(* of the manager that changes it.  A handler is one commit of the state   *)
(* file, so it is one action: it carries one timestamp and touches the     *)
(* resources of its subset together.                                       *)
(***************************************************************************)
EXTENDS Evidence

CONSTANTS
    Resources,  \* the resources of a profile
    Dpi         \* the one whose import needs a baseline (its opaque tail)

ASSUME DpiAssumption == Dpi \in Resources

VARIABLE res  \* ProfileState: the evidence of each resource

EvidenceType == res \in [Resources -> Resource]

EvidenceInit == res = [r \in Resources |-> Empty]

\* Applies Op to the resources of S and leaves the others alone.
Update(S, Op(_)) == res' = [r \in Resources |-> IF r \in S THEN Op(r) ELSE res[r]]

-----------------------------------------------------------------------------
\* Writes validated by transport acknowledgement, persisted together.
PersistAcknowledged(S, want, t) ==
    Update(S, LAMBDA r : RecordAckWrite(res[r], want[r], t))

\* Writes validated by readback; the hardware may answer anything.
PersistReadback(S, want, seen, t) ==
    Update(S, LAMBDA r : RecordReadbackWrite(res[r], want[r], seen[r], t))

\* read_dpi, read_profile, read_live_profile, refresh_all_profiles, ...
Observe(S, seen, t) ==
    Update(S, LAMBDA r : ReconcileObservation(res[r], seen[r], t))

\* verify_profile_reload and verify_power_cycle commit the reloaded image and,
\* when it equals the image captured before, mark it, in the same transaction.
CommitVerification(kind, seen, matched, t) ==
    Update(Resources, LAMBDA r :
        LET fresh == ReconcileObservation(res[r], seen[r], t)
        IN  IF matched THEN MarkOrInvalidate(fresh, kind, t) ELSE fresh)

InvalidateState == Update(Resources, LAMBDA r : InvalidatePersistence(res[r]))

\* import_configuration: DPI is merged onto existing DPI evidence or the whole
\* import fails before anything is committed.
ImportConfiguration(S, want, t) ==
    /\ Dpi \in S => res[Dpi] # Empty
    /\ Update(S, LAMBDA r : SetImported(res[r], want[r], t))

Image == [Resources -> Value]

EvidenceNext ==
    \/ \E S \in SUBSET Resources, want \in Image, t \in Time :
          PersistAcknowledged(S, want, t)
    \/ \E S \in SUBSET Resources, want, seen \in Image, t \in Time :
          PersistReadback(S, want, seen, t)
    \/ \E S \in SUBSET Resources, seen \in Image, t \in Time : Observe(S, seen, t)
    \/ \E kind \in ClaimKind, seen \in Image, matched \in BOOLEAN, t \in Time :
          CommitVerification(kind, seen, matched, t)
    \/ InvalidateState
    \/ \E S \in SUBSET Resources, want \in Image, t \in Time :
          ImportConfiguration(S, want, t)

EvidenceSpec == EvidenceInit /\ [][EvidenceNext]_res

-----------------------------------------------------------------------------
(* What the evidence promises. *)

\* Whatever the order of the handlers and however the clock jumps, the profile
\* always passes the commit gate: no handler that has already touched the
\* hardware can find its own evidence refused by validate_resource_state.
EvidenceCoherent == \A r \in Resources : ValidResource(res[r])

\* A step that touches a resource and leaves it with a persistence claim has
\* made that claim itself, from a readback of the same instant: a claim never
\* outlives the write, import, read or invalidation that follows it.
ClaimOnlyFromItsReadback ==
    [][\A r \in Resources :
          Claims(res'[r]) /\ res'[r] # res[r] =>
              /\ res'[r].observed.observed_at = res'[r].desired.persistence.verified_at
              /\ Agrees(res'[r])]_res
=============================================================================
