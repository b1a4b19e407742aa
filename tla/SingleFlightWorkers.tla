------------------------- MODULE SingleFlightWorkers -------------------------
(***************************************************************************)
(* SingleFlight under overlapping dispatches, the use its comment names:   *)
(* dispatches of several connections acquire targets, and every lease ever *)
(* granted may be released at any time and more than once (FlightLease is  *)
(* Clone).  A job id may be dispatched again while or after it runs.       *)
(***************************************************************************)
EXTENDS SingleFlight

CONSTANT MaxSequence    \* bound of the attempts, for model checking

VARIABLES
    running,    \* the leases whose dispatch runs
    ended       \* the leases whose dispatch has ended; copies may be about

vars == <<active, next_sequence, running, ended>>

LeaseType == [target : Target, job_id : JobId, sequence : Nat]

TypeOK ==
    /\ FlightTypeOK
    /\ running \subseteq LeaseType
    /\ ended \subseteq LeaseType
    /\ \A lease \in running \cup ended : lease.sequence < next_sequence

Init == FlightInit /\ running = {} /\ ended = {}

\* A dispatch acquires its target.
Begin(target, id) ==
    /\ next_sequence < MaxSequence
    /\ Acquire(target, id)
    /\ running' = running \cup {Lease(target, id)}
    /\ UNCHANGED ended

\* A dispatch finds its target busy.
TurnAway(target) ==
    /\ next_sequence < MaxSequence
    /\ Refuse(target)
    /\ UNCHANGED <<running, ended>>

\* The dispatch ends and its permit is dropped.
End(lease) ==
    /\ lease \in running
    /\ Release(lease)
    /\ running' = running \ {lease}
    /\ ended' = ended \cup {lease}

\* A copy of a lease is released again after its dispatch has ended.
ReleaseAgain(lease) ==
    /\ lease \in ended
    /\ Release(lease)
    /\ UNCHANGED <<running, ended>>

Next ==
    \/ \E target \in Target, id \in JobId : Begin(target, id)
    \/ \E target \in Target : TurnAway(target)
    \/ \E lease \in running : End(lease)
    \/ \E lease \in ended : ReleaseAgain(lease)

Spec == Init /\ [][Next]_vars

-----------------------------------------------------------------------------
(* Properties.                                                             *)

\* The ledger is exactly the dispatches that run: no stale or repeated release
\* frees a target under a running dispatch, no ended dispatch keeps a target,
\* and at most one dispatch runs on each.
LedgerMatchesRunning ==
    running = {[target |-> target, job_id |-> active[target].job_id,
                sequence |-> active[target].sequence]
               : target \in {t \in Target : Busy(t)}}
=============================================================================
