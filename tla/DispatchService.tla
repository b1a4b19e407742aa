--------------------------- MODULE DispatchService ---------------------------
(***************************************************************************)
(* What the dispatcher promises the control plane, with the frames, gates  *)
(* and timing left out: one kernel run at a time, a bounded number of runs *)
(* per arming of the process, and no further run of work that has failed   *)
(* Threshold times in a row.  Re-arming, a restart, forgets everything.    *)
(***************************************************************************)
EXTENDS Naturals

CONSTANTS
    Work,       \* the work that may be asked for, by fingerprint
    RunLimit,   \* runs per arming, 0 = unlimited
    Threshold   \* failures in a row that retire work, 0 = never

VARIABLES
    runs,       \* kernel runs started since the process was armed
    strikes,    \* [Work -> Nat]: failures in a row
    underway    \* the work whose kernel runs: a set of at most one

serviceVars == <<runs, strikes, underway>>

Retired(work) == Threshold # 0 /\ strikes[work] >= Threshold

Armed ==
    /\ runs = 0
    /\ strikes = [work \in Work |-> 0]
    /\ underway = {}

Run(work) ==
    /\ underway = {}
    /\ ~Retired(work)
    /\ RunLimit # 0 => runs < RunLimit
    /\ runs' = runs + 1
    /\ underway' = {work}
    /\ UNCHANGED strikes

Succeed(work) ==
    /\ underway = {work}
    /\ underway' = {}
    /\ strikes' = [strikes EXCEPT ![work] = 0]
    /\ UNCHANGED runs

Strike(work) ==
    /\ underway = {work}
    /\ underway' = {}
    /\ strikes' = IF Threshold = 0 THEN strikes ELSE [strikes EXCEPT ![work] = @ + 1]
    /\ UNCHANGED runs

Rearm == Armed'

ServiceNext ==
    \/ \E work \in Work : Run(work) \/ Succeed(work) \/ Strike(work)
    \/ Rearm

ServiceSpec == Armed /\ [][ServiceNext]_serviceVars
=============================================================================
