----------------------------- MODULE LoopGuard -----------------------------
(***************************************************************************)
(* The runaway-loop breaker of runner-core (loopguard.rs): a bounded       *)
(* history of the fingerprints of recent dispatches, which trips when one  *)
(* of them recurs too often.  Every observation is recorded, a tripped one *)
(* included.                                                               *)
(***************************************************************************)
EXTENDS Naturals, Sequences, FiniteSets

CONSTANTS
    Fingerprint,    \* fingerprints of the jobs' semantics
    LoopWindow,     \* configured window (FXRUN_LOOP_WINDOW)
    LoopThreshold   \* configured trip threshold (FXRUN_LOOP_THRESHOLD)

VARIABLE seen       \* the last dispatches, oldest first

\* LoopGuard::new clamps the window to 1 or more and the threshold to 1 .. window.
window == IF LoopWindow = 0 THEN 1 ELSE LoopWindow
trip_threshold ==
    IF LoopThreshold = 0 THEN 1
    ELSE IF LoopThreshold > window THEN window ELSE LoopThreshold

LoopTypeOK == seen \in Seq(Fingerprint) /\ Len(seen) <= window

\* Faulty variants: an eviction one late, and one that comes before the push.
ObservedLate(fp) ==
    LET pushed == Append(seen, fp)
    IN  IF Len(pushed) > window + 1 THEN Tail(pushed) ELSE pushed
ObservedEarly(fp) ==
    LET pushed == Append(seen, fp)
    IN  IF Len(pushed) >= window /\ window > 1 THEN Tail(pushed) ELSE pushed

\* The window after fp is pushed and the oldest entry beyond it evicted.
Observed(fp) ==
    LET pushed == Append(seen, fp)
    IN  IF Len(pushed) > window THEN Tail(pushed) ELSE pushed

Occurrences(fp, s) == Cardinality({i \in DOMAIN s : s[i] = fp})

\* Whether observe() of a job with fingerprint fp trips the breaker.
Trips(fp) == Occurrences(fp, Observed(fp)) >= trip_threshold

\* observe(): the dispatch enters the window, whatever the verdict.
Observe(fp) == seen' = Observed(fp)
=============================================================================
