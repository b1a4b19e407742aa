-------------------------- MODULE DispatcherHistory --------------------------
(***************************************************************************)
(* Dispatcher with history variables: what a client or an operator with a  *)
(* clock would have written down.  They record real time (the clock, not   *)
(* the now_secs a connection was given) and change no behaviour.  The      *)
(* instances are those of MCDispatcher; the runs that refute a statement   *)
(* use the default configuration of the guard in question where it has     *)
(* one.                                                                    *)
(***************************************************************************)
EXTENDS MCDispatcher

VARIABLES
    failed_at,  \* per class, when its kernel last failed, if not delivered since
    advised     \* per fingerprint, the advice its latest kernel run came back with

hvars == <<vars, failed_at, advised>>

HInit ==
    /\ Init
    /\ failed_at = [c \in Class |-> None]
    /\ advised = [fp \in Fingerprint |-> "none"]

StartsKernel == phase = "reading" /\ phase' = "running"
EndsKernel == phase = "running" /\ phase' = "replying"

RecordEnd ==
    IF ~EndsKernel THEN UNCHANGED <<failed_at, advised>>
    ELSE /\ failed_at' = [failed_at EXCEPT ![class(cur.frame)] =
                             IF reply'.outcome = "Delegated" THEN None ELSE <<clock>>]
         /\ advised' = [advised EXCEPT ![reply'.fp] = reply'.directive.action]

HNext == Next /\ RecordEnd

HSpec == HInit /\ [][HNext]_hvars

-----------------------------------------------------------------------------
(* What the documentation says and the code does not do; each is refuted.  *)

\* ratelimit.rs: "after a route fails, hold further dispatches of that route
\* for route_cooldown_secs".  The cooldown starts at the accept time of the
\* failed dispatch, so a long kernel uses it up before it fails.
CooldownFollowsFailure ==
    [][StartsKernel =>
          LET at == failed_at[class(cur'.frame)]
          IN  at # None => clock >= at[1] + CooldownSecs]_hvars

\* main.rs: "Distinct work and normal retries pass; only a tight identical loop
\* trips".  A retry the runner has just advised can trip the breaker.
AdvisedRetryPasses ==
    [][Answered({"LoopTripped"}) => advised[reply'.fp] # "retry"]_hvars
=============================================================================
