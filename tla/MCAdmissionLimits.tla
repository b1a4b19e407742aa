-------------------------- MODULE MCAdmissionLimits --------------------------
(***************************************************************************)
(* A small instance of AdmissionLimits: two routes share a window of two   *)
(* admissions, with a cooldown shorter than the window; a job cap, a token *)
(* cap the counters overshoot and saturate at, no USD cap, one grace       *)
(* admission.                                                              *)
(***************************************************************************)
EXTENDS AdmissionLimits

MCCap == [d \in Dim |-> CASE d = "jobs" -> 4 [] d = "tokens" -> 3 [] OTHER -> 0]
MCRoute == {"ci", "agent"}
=============================================================================
