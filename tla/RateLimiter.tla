---------------------------- MODULE RateLimiter ----------------------------
(***************************************************************************)
(* The dispatch rate limiter of runner-core (ratelimit.rs): a rolling      *)
(* window of admission times shared by all routes, and a failure cooldown  *)
(* per route.  The limiter reads no clock: every call is given the         *)
(* caller's now_secs.                                                      *)
(*                                                                         *)
(* The specification drives it the way handle_request does: a dispatch is  *)
(* checked, and if admitted it later fails, succeeds, or is refused by a   *)
(* later gate; the failure is recorded with the now_secs of the check,     *)
(* however long the dispatch took.  RateLimiterHistory adds the history    *)
(* the properties are about.                                               *)
(***************************************************************************)
EXTENDS Naturals, Sequences

CONSTANTS
    Route,          \* route classes: "ci", "review", "agent", "cycle"
    MaxPerWindow,   \* admissions per window, 0 = no window cap
    WindowSecs,     \* the width of the rolling window
    CooldownSecs,   \* how long a failed route is held, 0 = no cooldown
    MaxTime         \* bound of the clock, for model checking

ASSUME RateLimiterAssumption ==
    /\ MaxPerWindow \in Nat
    /\ WindowSecs \in Nat \ {0}
    /\ CooldownSecs \in Nat
    /\ MaxTime \in Nat

VARIABLES
    recent,         \* admission times in the window, oldest first
    cooldown_until, \* [Route -> Nat]: when the cooldown ends, 0 = no entry
    now_secs,       \* the time of the latest call, seconds since the server's start
    pending         \* the admitted dispatch whose kernel runs, or NoDispatch

limiterVars == <<recent, cooldown_until, now_secs, pending>>

Dispatch == [route : Route, at : Nat]
NoDispatch == <<>>

\* No cooldown outlasts the one a failure at this moment would start.
LimiterTypeOK ==
    /\ recent \in Seq(Nat)
    /\ cooldown_until \in [Route -> Nat]
    /\ \A route \in Route : cooldown_until[route] <= now_secs + CooldownSecs
    /\ now_secs \in Nat
    /\ pending \in Dispatch \cup {NoDispatch}
    /\ pending # NoDispatch => pending.at <= now_secs

LimiterInit ==
    /\ recent = <<>>
    /\ cooldown_until = [route \in Route |-> 0]
    /\ now_secs = 0
    /\ pending = NoDispatch

-----------------------------------------------------------------------------
(* Readings of the limiter at a time t.                                    *)

\* Faulty variants: the window a second too long, and a second too short.
AgedOutLate(at, t)  == at + WindowSecs < t
AgedOutEarly(at, t) == at + WindowSecs <= t + 1

\* An entry of the window has aged out at t.
AgedOut(at, t) == at + WindowSecs <= t

\* prune(): aged-out entries leave from the front, up to the first live one.
FirstLive(t) ==
    CHOOSE k \in 1 .. Len(recent) + 1 :
        /\ \A j \in 1 .. k - 1 : AgedOut(recent[j], t)
        /\ k <= Len(recent) => ~AgedOut(recent[k], t)
Pruned(t) == SubSeq(recent, FirstLive(t), Len(recent))

\* The two reasons to refuse, in the order check() tries them.
Cooling(route, t) == t < cooldown_until[route]
WindowFull(t) == MaxPerWindow # 0 /\ Len(Pruned(t)) >= MaxPerWindow
Denies(route, t) == Cooling(route, t) \/ WindowFull(t)

AtLeastOne(n) == IF n = 0 THEN 1 ELSE n

\* Faulty variant: the hint waits for the newest entry to age out.
RetryAfterNewest(route, t) ==
    IF Cooling(route, t)
    THEN cooldown_until[route] - t
    ELSE AtLeastOne(recent[Len(recent)] + WindowSecs - t)

\* The retry-after hint of a refusal: the rest of the cooldown, or the time
\* until the oldest entry of the window ages out.
RetryAfter(route, t) ==
    IF Cooling(route, t)
    THEN cooldown_until[route] - t
    ELSE AtLeastOne(Head(Pruned(t)) + WindowSecs - t)

-----------------------------------------------------------------------------
(* What each call does to the limiter.                                     *)

\* The entry of a cooldown that has ended is dropped by the next check.
DropEntry(route) == cooldown_until' = [cooldown_until EXCEPT ![route] = 0]

\* check() on a cooling route changes nothing.
DenyCooling(route, t) ==
    /\ Cooling(route, t)
    /\ UNCHANGED <<recent, cooldown_until>>

\* check() with a full window: the ended cooldown and the aged-out entries are
\* gone, no slot is taken.
DenyWindow(route, t) ==
    /\ ~Cooling(route, t)
    /\ WindowFull(t)
    /\ DropEntry(route)
    /\ recent' = Pruned(t)

\* check() admits: a slot of the window is taken (if there is a window).
AdmitRoute(route, t) ==
    /\ ~Denies(route, t)
    /\ DropEntry(route)
    /\ recent' = IF MaxPerWindow = 0 THEN recent ELSE Append(Pruned(t), t)

\* Faulty variants: a cooldown one second short, and one of the window's width.
RecordFailureShort(route, t) ==
    /\ cooldown_until' = IF CooldownSecs = 0 THEN cooldown_until
                         ELSE [cooldown_until EXCEPT ![route] = t + CooldownSecs - 1]
    /\ UNCHANGED recent
RecordFailureWindow(route, t) ==
    /\ cooldown_until' = IF CooldownSecs = 0 THEN cooldown_until
                         ELSE [cooldown_until EXCEPT ![route] = t + WindowSecs]
    /\ UNCHANGED recent

\* record_failure(): starts the cooldown of the route.
RecordFailure(route, t) ==
    /\ cooldown_until' = IF CooldownSecs = 0 THEN cooldown_until
                         ELSE [cooldown_until EXCEPT ![route] = t + CooldownSecs]
    /\ UNCHANGED recent

\* clear_route(): a clean delegation ends the cooldown of its route.
ClearRoute(route) == DropEntry(route) /\ UNCHANGED recent

-----------------------------------------------------------------------------
(* The caller.                                                             *)

\* A later connection is accepted: the next calls carry a later time.
Advance ==
    /\ pending = NoDispatch
    /\ now_secs' \in now_secs + 1 .. MaxTime
    /\ UNCHANGED <<recent, cooldown_until, pending>>

Deny(route) ==
    /\ pending = NoDispatch
    /\ DenyCooling(route, now_secs) \/ DenyWindow(route, now_secs)
    /\ UNCHANGED <<now_secs, pending>>

\* The admitted dispatch goes on to its kernel, or a later gate refuses it
\* (loop breaker, budget); the slot it took stays taken.
Proceed(route) ==
    /\ pending = NoDispatch
    /\ AdmitRoute(route, now_secs)
    /\ pending' \in {[route |-> route, at |-> now_secs], NoDispatch}
    /\ UNCHANGED now_secs

\* The kernel of the admitted dispatch failed, or delivered.
Failed ==
    /\ pending # NoDispatch
    /\ RecordFailure(pending.route, pending.at)
    /\ pending' = NoDispatch
    /\ UNCHANGED now_secs

Delivered ==
    /\ pending # NoDispatch
    /\ ClearRoute(pending.route)
    /\ pending' = NoDispatch
    /\ UNCHANGED now_secs

LimiterNext ==
    \/ Advance
    \/ \E route \in Route : Deny(route) \/ Proceed(route)
    \/ Failed
    \/ Delivered

LimiterSpec == LimiterInit /\ [][LimiterNext]_limiterVars

-----------------------------------------------------------------------------
(* Properties of the limiter's state.                                      *)

\* The retry-after hint is exact: a retry before it is refused again, and, when
\* the window (not a cooldown) refused, a retry at that time is admitted.
RetryAfterExact ==
    \A route \in Route :
        Denies(route, now_secs) =>
            LET hint == RetryAfter(route, now_secs) IN
            /\ hint >= 1
            /\ \A d \in 0 .. hint - 1 : Denies(route, now_secs + d)
            /\ ~Cooling(route, now_secs) => ~Denies(route, now_secs + hint)
=============================================================================
