---------------------------- MODULE SingleFlight ----------------------------
(***************************************************************************)
(* The per-target single-flight mutex of runner-core (singleflight.rs): a  *)
(* ledger of the targets held by running dispatches.  Every attempt draws  *)
(* a sequence number, a refused one included; a release is honoured only   *)
(* when it names the active holder.                                        *)
(***************************************************************************)
EXTENDS Naturals

CONSTANTS
    Target,     \* mutable targets: repositories, after trimming and lower-casing
    JobId       \* job ids

VARIABLES
    active,         \* [Target -> holder]: the active flight of each target
    next_sequence   \* the sequence number of the next attempt

Flight == [job_id : JobId, sequence : Nat]
Free == <<>>

FlightTypeOK ==
    /\ active \in [Target -> Flight \cup {Free}]
    /\ next_sequence \in Nat

FlightInit ==
    /\ active = [target \in Target |-> Free]
    /\ next_sequence = 0

Busy(target) == active[target] # Free

\* The sequence number is drawn before the conflict is looked at.
Draw == next_sequence' = next_sequence + 1

Lease(target, id) == [target |-> target, job_id |-> id, sequence |-> next_sequence]
Held(lease) == [job_id |-> lease.job_id, sequence |-> lease.sequence]

\* try_acquire(), granted and refused.
Acquire(target, id) ==
    /\ ~Busy(target)
    /\ active' = [active EXCEPT ![target] = Held(Lease(target, id))]
    /\ Draw

Refuse(target) ==
    /\ Busy(target)
    /\ Draw
    /\ UNCHANGED active

\* Faulty variant: a release that does not compare the sequence number.
MatchesById(lease) ==
    active[lease.target] # Free /\ active[lease.target].job_id = lease.job_id

\* The lease is the one that holds its target.
Matches(lease) == active[lease.target] = Held(lease)

\* Faulty variant: the lease is never given back.
ReleaseNothing(lease) == UNCHANGED <<active, next_sequence>>

\* release(): a stale or repeated release is ignored.
Release(lease) ==
    /\ active' = IF Matches(lease) THEN [active EXCEPT ![lease.target] = Free] ELSE active
    /\ UNCHANGED next_sequence
=============================================================================
