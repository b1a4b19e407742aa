----------------------------- MODULE Quarantine -----------------------------
(***************************************************************************)
(* The quarantine ledger of runner-core (quarantine.rs): kernel failures   *)
(* per fingerprint, and the fingerprints latched out of dispatch.          *)
(***************************************************************************)
EXTENDS Naturals

CONSTANTS
    Fingerprint,            \* fingerprints of the jobs' semantics
    QuarantineThreshold     \* failures that latch a fingerprint, 0 = off

VARIABLES
    failures,       \* [Fingerprint -> Nat]: kernel failures since it last delivered
    quarantined     \* the latched fingerprints

QuarantineTypeOK ==
    /\ failures \in [Fingerprint -> Nat]
    /\ quarantined \subseteq Fingerprint

\* Faulty variant: the gate closes one failure late.
QuarantinedLate(fp) == QuarantineThreshold > 0 /\ failures[fp] > QuarantineThreshold

\* The admission gate: inert unless a threshold is set.
Quarantined(fp) == QuarantineThreshold > 0 /\ fp \in quarantined

\* Faulty variant: a latch one failure late.
OnFailureLate(fp) ==
    IF QuarantineThreshold = 0 THEN UNCHANGED <<failures, quarantined>>
    ELSE /\ failures' = [failures EXCEPT ![fp] = @ + 1]
         /\ quarantined' = IF failures[fp] >= QuarantineThreshold
                           THEN quarantined \cup {fp} ELSE quarantined

\* on_failure(): counts a kernel failure and latches at the threshold.
OnFailure(fp) ==
    IF QuarantineThreshold = 0 THEN UNCHANGED <<failures, quarantined>>
    ELSE /\ failures' = [failures EXCEPT ![fp] = @ + 1]
         /\ quarantined' = IF failures[fp] + 1 >= QuarantineThreshold
                           THEN quarantined \cup {fp} ELSE quarantined

\* clear(): a clean delegation forgets the failures and releases the latch.
Release(fp) ==
    /\ failures' = [failures EXCEPT ![fp] = 0]
    /\ quarantined' = quarantined \ {fp}
=============================================================================
