----------------------------- MODULE RiskLedger -----------------------------
(***************************************************************************)
(* The outcome history of runner-core (risk.rs): kernel outcomes per       *)
(* fingerprint for the whole life of the process.  Nothing clears it; the  *)
(* score computed from it is advice only and gates nothing.                *)
(***************************************************************************)
EXTENDS Naturals

CONSTANT Fingerprint    \* fingerprints of the jobs' semantics

VARIABLE history        \* [Fingerprint -> [ok, bad]]: clean and failed delegations

Record0 == [ok |-> 0, bad |-> 0]

RiskTypeOK == history \in [Fingerprint -> [ok : Nat, bad : Nat]]

\* Faulty variant: a failure that leaves no record.
RecordNothing(fp) == UNCHANGED history

\* record(): one more clean, or failed, delegation of fp.
RecordSuccess(fp) == history' = [history EXCEPT ![fp].ok = @ + 1]
RecordFailure(fp) == history' = [history EXCEPT ![fp].bad = @ + 1]
=============================================================================
