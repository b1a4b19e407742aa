------------------------------ MODULE Governor ------------------------------
(***************************************************************************)
(* The dispatch budget governor of runner-core (governor.rs): a lifetime   *)
(* budget over three dimensions (jobs, tokens, USD micros), each capped or *)
(* not, with a bounded number of "grace" admissions past a met cap.        *)
(*                                                                         *)
(* The dispatcher asks for admission before it runs a kernel and charges   *)
(* the reported cost afterwards, one dispatch at a time; the variable      *)
(* inflight is that calling discipline.  A cap of 0 is "uncapped", the     *)
(* convention of Governor::from_env, the only constructor the binary uses. *)
(***************************************************************************)
EXTENDS Naturals

CONSTANTS
    Cap,        \* [Dim -> Nat]: the ceiling of each dimension, 0 = uncapped
    Grace,      \* admissions allowed past a met cap before refusing
    MaxCost,    \* the largest cost one kernel reports, in either cost dimension
    MaxU64      \* the value at which a u64 cost counter saturates

CostDim == {"tokens", "usd_micros"}
Dim == {"jobs"} \cup CostDim

Min2(a, b) == IF a <= b THEN a ELSE b

ASSUME GovernorAssumption ==
    /\ Cap \in [Dim -> Nat]
    /\ Grace \in Nat
    /\ MaxCost \in Nat
    /\ MaxU64 \in Nat \ {0}
    /\ \A d \in CostDim : Cap[d] <= MaxU64

VARIABLES
    spent,      \* [Dim -> Nat]: accumulated spend
    grace_used, \* admissions granted past a met cap
    inflight    \* an admitted dispatch has not been settled yet

vars == <<spent, grace_used, inflight>>

JobCost == [CostDim -> 0 .. MaxCost]

TypeOK ==
    /\ spent \in [Dim -> Nat]
    /\ \A d \in CostDim : spent[d] <= MaxU64
    /\ grace_used \in Nat
    /\ inflight \in BOOLEAN

Init ==
    /\ spent = [d \in Dim |-> 0]
    /\ grace_used = 0
    /\ inflight = FALSE

-----------------------------------------------------------------------------
(* The admission decision.                                                 *)

\* Faulty variant, for mutation: the comparison off by one.
ExhaustedOffByOne == \E d \in Dim : Cap[d] # 0 /\ spent[d] > Cap[d]

\* Some capped dimension is at or over its ceiling.
Exhausted == \E d \in Dim : Cap[d] # 0 /\ spent[d] >= Cap[d]

\* Whether admit() would refuse now.
Refuses == Exhausted /\ grace_used >= Grace

\* Faulty variant: a grace admission that is not counted.
AdmitForgetsGrace ==
    /\ ~Refuses
    /\ spent' = [spent EXCEPT !["jobs"] = @ + 1]
    /\ UNCHANGED grace_used

\* admit(): under every cap a job is reserved; past a met cap a job is
\* reserved only while the grace lasts; otherwise nothing changes.
Admit ==
    /\ ~Refuses
    /\ spent' = [spent EXCEPT !["jobs"] = @ + 1]
    /\ grace_used' = IF Exhausted THEN grace_used + 1 ELSE grace_used

\* Faulty variants: an addition that wraps, and one that is not limited to
\* the width of the counter.
ChargeWraps(cost) ==
    spent' = [d \in Dim |-> IF d \in CostDim
                            THEN (spent[d] + cost[d]) % (MaxU64 + 1)
                            ELSE spent[d]]
ChargeUnbounded(cost) ==
    spent' = [d \in Dim |-> IF d \in CostDim THEN spent[d] + cost[d] ELSE spent[d]]

\* charge(): the reported cost is added to both cost dimensions, saturating.
Charge(cost) ==
    spent' = [d \in Dim |-> IF d \in CostDim
                            THEN Min2(spent[d] + cost[d], MaxU64)
                            ELSE spent[d]]

-----------------------------------------------------------------------------
(* The survival tier: how close the worst dimension is to its ceiling.     *)

Full == 0
Conserving == 1
Distress == 2
Halted == 3
Tier == Full .. Halted

\* used / cap >= num / den, for a capped dimension.
AtLeast(d, num, den) == Cap[d] # 0 /\ den * spent[d] >= num * Cap[d]

tier ==
    IF \E d \in Dim : AtLeast(d, 1, 1) THEN Halted
    ELSE IF \E d \in Dim : AtLeast(d, 9, 10) THEN Distress
    ELSE IF \E d \in Dim : AtLeast(d, 3, 4) THEN Conserving
    ELSE Full

-----------------------------------------------------------------------------
(* The calling discipline of handle_request: admit, run, then charge a     *)
(* delivered job; a failed or timed-out job is never charged.              *)

Begin   == ~inflight /\ Admit /\ inflight' = TRUE
Deliver == inflight /\ (\E cost \in JobCost : Charge(cost)) /\ inflight' = FALSE /\ UNCHANGED grace_used
Fail    == inflight /\ inflight' = FALSE /\ UNCHANGED <<spent, grace_used>>

Next == Begin \/ Deliver \/ Fail

Spec == Init /\ [][Next]_vars

-----------------------------------------------------------------------------
(* Properties.                                                             *)

\* A met cap is overrun by the grace and no further: the job count never
\* passes its cap by more than Grace, and the grace counter never passes Grace.
JobOverrunBounded ==
    /\ grace_used <= Grace
    /\ Cap["jobs"] # 0 => spent["jobs"] <= Cap["jobs"] + Grace

\* A cost cap is met one settled job late and overrun by Grace further jobs:
\* with one dispatch in flight the spend of a capped cost dimension stays
\* below its cap plus the cost of 1 + Grace jobs.
CostOverrunBounded ==
    \A d \in CostDim :
        Cap[d] # 0 => spent[d] < Cap[d] + (Grace + 1) * MaxCost

\* No dimension passes its cap by more than the grace, and the last job, allow.
OverrunBounded == JobOverrunBounded /\ CostOverrunBounded

\* "Latching until the process is re-armed": once admit() refuses, it refuses
\* after every later step, whatever is charged.
RefusalLatches == [][Refuses => Refuses']_vars

\* The tier the state gate reads never improves while the process lives.
TierNeverImproves == [][tier' >= tier]_vars

\* The two independent readings of the budget agree: the tier says Halted
\* exactly when admit() considers a cap met.
HaltedIffExhausted == (tier = Halted) <=> Exhausted
=============================================================================
