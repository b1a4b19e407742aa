---------------------------- MODULE DispatchGates ----------------------------
(***************************************************************************)
(* The single-flight lock and the loop breaker under overlapping           *)
(* dispatches, in the order of handle_request: the target is taken first,  *)
(* then the breaker observes the job, and a job that trips gives its       *)
(* target back.  A dispatch that finds its target busy is not observed.    *)
(***************************************************************************)
EXTENDS SingleFlightWorkers, Sequences, FiniteSets

CONSTANTS
    Fingerprint,    \* the fingerprints of the jobs
    LoopWindow,     \* breaker window (FXRUN_LOOP_WINDOW)
    LoopThreshold,  \* breaker threshold (FXRUN_LOOP_THRESHOLD)
    MaxObserved     \* bound of the breaker's history, for model checking

ASSUME DispatchGatesAssumption == {LoopWindow, LoopThreshold, MaxObserved} \subseteq Nat

VARIABLES
    seen,       \* the breaker's window
    verdicts    \* every observation and its verdict, oldest first

Breaker == INSTANCE LoopGuardHistory

gatesVars == <<vars, seen, verdicts>>

GatesInit == Init /\ Breaker!Init

\* Faulty variant: the breaker observes a dispatch that is turned away.
TurnAwayObserved(target) == TurnAway(target) /\ \E fp \in Fingerprint : Breaker!Dispatch(fp)

\* The target is busy: the dispatch returns before it is observed.
TurnedAway(target) == TurnAway(target) /\ UNCHANGED <<seen, verdicts>>

\* The target is taken and the job passes the breaker: its kernel runs.
Enter(target, id, fp) ==
    /\ ~Breaker!Trips(fp)
    /\ Begin(target, id)
    /\ Breaker!Dispatch(fp)

\* The target is taken, the breaker trips, and the permit is dropped on return;
\* copies of its lease may be about like those of a dispatch that ran.
Trip(target, id, fp) ==
    /\ next_sequence < MaxSequence
    /\ ~Busy(target)
    /\ Breaker!Trips(fp)
    /\ Breaker!Dispatch(fp)
    /\ Draw
    /\ ended' = ended \cup {Lease(target, id)}
    /\ UNCHANGED <<active, running>>

Leave(lease) == End(lease) /\ UNCHANGED <<seen, verdicts>>
LeaveAgain(lease) == ReleaseAgain(lease) /\ UNCHANGED <<seen, verdicts>>

GatesNext ==
    \/ \E target \in Target : TurnedAway(target)
    \/ \E target \in Target, id \in JobId, fp \in Fingerprint :
           Enter(target, id, fp) \/ Trip(target, id, fp)
    \/ \E lease \in running : Leave(lease)
    \/ \E lease \in ended : LeaveAgain(lease)

GatesSpec == GatesInit /\ [][GatesNext]_gatesVars

-----------------------------------------------------------------------------
(* Properties, with those of SingleFlightWorkers.                          *)

\* Any run of as many observations as the window is wide lets fewer dispatches
\* of one fingerprint through than the threshold, whichever targets they took,
\* and a dispatch trips only on an identical loop among the last observations:
\* work that was turned away at a busy target never counts against it.
BreakerCountsExactly == Breaker!BreakerCountsExactly

\* "A busy target pollutes neither rate slots, breaker window, nor budget": the
\* breaker has observed exactly the dispatches that took a target.
BusyIsNotObserved == Len(verdicts) = Cardinality(running \cup ended)
=============================================================================
