------------------------- MODULE LoopGuardHistory --------------------------
(***************************************************************************)
(* LoopGuard observed over time, with the history of every verdict.        *)
(***************************************************************************)
EXTENDS LoopGuard

CONSTANT MaxObserved    \* bound of the history, for model checking

VARIABLE verdicts       \* every observation, oldest first, as [fp, passed]

vars == <<seen, verdicts>>

TypeOK ==
    /\ LoopTypeOK
    /\ verdicts \in Seq([fp : Fingerprint, passed : BOOLEAN])

Init == seen = <<>> /\ verdicts = <<>>

Dispatch(fp) ==
    /\ Len(verdicts) < MaxObserved
    /\ Observe(fp)
    /\ verdicts' = Append(verdicts, [fp |-> fp, passed |-> ~Trips(fp)])

Next == \E fp \in Fingerprint : Dispatch(fp)

Spec == Init /\ [][Next]_vars

-----------------------------------------------------------------------------
(* Properties.                                                             *)

\* The observations from the k-th to the l-th of one fingerprint.
Between(fp, k, l) == {i \in k .. l : verdicts[i].fp = fp}

\* Any run of window consecutive observations, wherever it starts, lets fewer
\* than trip_threshold dispatches of one fingerprint through.
PassesBounded ==
    \A fp \in Fingerprint, k \in DOMAIN verdicts :
        LET l == IF k + window - 1 > Len(verdicts) THEN Len(verdicts) ELSE k + window - 1
        IN  Cardinality({i \in Between(fp, k, l) : verdicts[i].passed}) < trip_threshold

\* "Distinct work and normal retries pass; only a tight identical loop trips":
\* a refused observation is the trip_threshold-th or later of its fingerprint
\* among the last window observations, counted over the whole history.
OnlyLoopsTrip ==
    \A l \in DOMAIN verdicts :
        LET k == IF l > window THEN l - window + 1 ELSE 1
        IN  ~verdicts[l].passed =>
                Cardinality(Between(verdicts[l].fp, k, l)) >= trip_threshold

\* The breaker stops neither too late nor too early.
BreakerCountsExactly == PassesBounded /\ OnlyLoopsTrip
=============================================================================
