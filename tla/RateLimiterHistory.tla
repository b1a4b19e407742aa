------------------------ MODULE RateLimiterHistory -------------------------
(***************************************************************************)
(* RateLimiter with the history its promises are about: every admission    *)
(* with its time, and the last failure of each route.                      *)
(***************************************************************************)
EXTENDS RateLimiter, FiniteSets

VARIABLES
    admits,     \* every admission, oldest first, as [route, at]
    failed_at   \* [Route -> Seq(Nat)]: when the last failed dispatch of the route
                \* was admitted, Healthy if there is none since it last delivered

Healthy == <<>>

hvars == <<limiterVars, admits, failed_at>>

HInit ==
    /\ LimiterInit
    /\ admits = <<>>
    /\ failed_at = [route \in Route |-> Healthy]

HQuiet == (Advance \/ \E route \in Route : Deny(route)) /\ UNCHANGED <<admits, failed_at>>

HProceed(route) ==
    /\ Proceed(route)
    /\ admits' = Append(admits, [route |-> route, at |-> now_secs])
    /\ UNCHANGED failed_at

HFailed ==
    /\ Failed
    /\ failed_at' = [failed_at EXCEPT ![pending.route] = <<pending.at>>]
    /\ UNCHANGED admits

HDelivered ==
    /\ Delivered
    /\ failed_at' = [failed_at EXCEPT ![pending.route] = Healthy]
    /\ UNCHANGED admits

HNext == HQuiet \/ (\E route \in Route : HProceed(route)) \/ HFailed \/ HDelivered

HSpec == HInit /\ [][HNext]_hvars

-----------------------------------------------------------------------------
(* Properties.                                                             *)

\* "At most max_per_window dispatches in any window_secs span" (ratelimit.rs):
\* of any MaxPerWindow + 1 consecutive admissions the last is a full window
\* later than the first, in the times the limiter was given.
WindowCapHolds ==
    MaxPerWindow # 0 =>
        \A i \in DOMAIN admits :
            i + MaxPerWindow \in DOMAIN admits =>
                admits[i + MaxPerWindow].at >= admits[i].at + WindowSecs

\* The deque is bounded by the cap and, once pruned, counts exactly the
\* admissions that are still in the window.
WindowIsExact ==
    MaxPerWindow # 0 =>
        /\ Len(recent) <= MaxPerWindow
        /\ Len(Pruned(now_secs)) =
             Cardinality({i \in DOMAIN admits : admits[i].at + WindowSecs > now_secs})

\* "After a route fails, hold further dispatches of that route": an admission of
\* a route comes CooldownSecs or more after the admission of its last failed
\* dispatch, unless the route has delivered since.
CooldownHolds ==
    [][\A route \in Route :
          HProceed(route) /\ failed_at[route] # Healthy =>
              now_secs >= failed_at[route][1] + CooldownSecs]_hvars
=============================================================================
