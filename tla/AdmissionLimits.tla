--------------------------- MODULE AdmissionLimits ---------------------------
(***************************************************************************)
(* The rate limiter and the budget governor in the order handle_request    *)
(* consults them: a slot of the rate window first, then a job of the       *)
(* budget.  A dispatch the budget (or the breaker between the two) refuses *)
(* has taken its slot; a delivery charges its cost and ends the cooldown   *)
(* of its route; a failure starts one and charges nothing.                 *)
(***************************************************************************)
EXTENDS Governor, RateLimiterHistory

limitsVars == <<vars, hvars>>

LimitsInit == Init /\ HInit

\* Time passes, or the rate limiter refuses: the budget is not asked.
Waits == HQuiet /\ UNCHANGED <<spent, grace_used, inflight>>

\* The slot is taken, the budget admits, and the kernel runs.
Runs(route) == HProceed(route) /\ pending' # NoDispatch /\ Begin

\* The slot is taken and the budget refuses, or the breaker did before it.
Refused(route) == HProceed(route) /\ pending' = NoDispatch /\ UNCHANGED <<spent, grace_used, inflight>>

Fails == HFailed /\ Fail
Delivers == HDelivered /\ Deliver

LimitsNext ==
    \/ Waits
    \/ \E route \in Route : Runs(route) \/ Refused(route)
    \/ Fails
    \/ Delivers

LimitsSpec == LimitsInit /\ [][LimitsNext]_limitsVars
=============================================================================
