------------------------------- MODULE Gates -------------------------------
(***************************************************************************)
(* The admission gates of the dispatcher that keep no state of their own,  *)
(* in the order handle_request tries them, and the facts about a frame     *)
(* they look at.  A frame is what one connection delivers: whether its     *)
(* bytes parse and its two signatures verify, the signed job, and the      *)
(* envelope facts around it.                                               *)
(*                                                                         *)
(* A job's class and its target are part of its semantics, hence functions *)
(* of its fingerprint; its id and the fork flag are not part of it         *)
(* (loopguard.rs, fingerprint()).                                          *)
(***************************************************************************)
EXTENDS Naturals, Sequences

Class == {"ci", "review", "agent", "cycle"}
Kernel == {"loop", "atc", "hf", "weave"}

CONSTANTS
    Fingerprint,    \* fingerprints of the jobs' semantics
    JobId,          \* job ids
    Target,         \* mutable targets (repositories)
    ClassOf,        \* [Fingerprint -> Class]
    TargetOf,       \* [Fingerprint -> Target]
    AuthorityFloor, \* route class -> lowest authority tier, absent = no floor
    ApprovalBands,  \* the classes that need a human grant
    ScanThreshold,  \* lowest severity that blocks, 0 = the scan is off
    KernelAllow,    \* the kernels the operator allows
    StateLimit,     \* route class -> worst tier it runs in, absent = not gated
    DefaultDeadline,    \* operator ceiling in seconds, 0 = none
    DefaultIdle         \* operator idle timeout in seconds, 0 = none

ASSUME GatesAssumption ==
    /\ ClassOf \in [Fingerprint -> Class]
    /\ TargetOf \in [Fingerprint -> Target]
    /\ DOMAIN AuthorityFloor \subseteq Class
    /\ \A class \in DOMAIN AuthorityFloor : AuthorityFloor[class] \in Nat
    /\ ApprovalBands \subseteq Class
    /\ ScanThreshold \in Nat
    /\ KernelAllow \subseteq Kernel
    /\ DOMAIN StateLimit \subseteq Class
    /\ \A class \in DOMAIN StateLimit : StateLimit[class] \in Nat
    /\ DefaultDeadline \in Nat
    /\ DefaultIdle \in Nat

\* The authority tier of a frame that names no submitter.
Guest == 0

Job == [id : JobId, fp : Fingerprint, from_fork : BOOLEAN,
        well_formed : BOOLEAN, severity : Nat]

\* grant: the fingerprints the presented approval verifies for (none or one).
FrameType == [parses : BOOLEAN, frame_ok : BOOLEAN, envelope_ok : BOOLEAN,
              job : Job, tier : Nat, grant : SUBSET Fingerprint,
              deadline_secs : Nat, idle_secs : Nat]

class(frame) == ClassOf[frame.job.fp]
target(frame) == TargetOf[frame.job.fp]

\* route(): each kind of job has one candidate kernel.
KernelOf(frame) ==
    CASE class(frame) = "ci" -> "loop"
      [] class(frame) \in {"review", "agent"} -> "atc"
      [] class(frame) = "cycle" -> "hf"

-----------------------------------------------------------------------------
(* What each gate refuses.                                                 *)

\* verify_frame(), and verify_envelope() when some route has a floor.
AuthorityActive == DOMAIN AuthorityFloor # {}
Unverified(frame) == ~frame.frame_ok \/ (AuthorityActive /\ ~frame.envelope_ok)

BelowFloor(frame) ==
    /\ class(frame) \in DOMAIN AuthorityFloor
    /\ frame.tier < AuthorityFloor[class(frame)]

ScanBlocks(frame) == ScanThreshold # 0 /\ frame.job.severity >= ScanThreshold

LacksApproval(frame) ==
    class(frame) \in ApprovalBands /\ frame.job.fp \notin frame.grant

TargetDenied(frame) == KernelOf(frame) \notin KernelAllow

\* StateGatePolicy::check(): the class may not run in the governor's tier.
Deferred(frame, tier) ==
    class(frame) \in DOMAIN StateLimit /\ tier > StateLimit[class(frame)]

\* Every gate up to the single-flight lock, in order, and whether it stops the
\* frame; intact, in_quarantine, busy and tier are what the gates read.
Stops(frame, intact, in_quarantine, tier, busy) == <<
    [gate |-> "ConstitutionViolated", stop |-> ~intact],
    [gate |-> "Unparseable",          stop |-> ~frame.parses],
    [gate |-> "VerifyFailed",         stop |-> Unverified(frame)],
    [gate |-> "AuthorityDenied",      stop |-> BelowFloor(frame)],
    [gate |-> "Malformed",            stop |-> ~frame.job.well_formed],
    [gate |-> "ContentRejected",      stop |-> ScanBlocks(frame)],
    [gate |-> "ForkRejected",         stop |-> frame.job.from_fork],
    [gate |-> "ApprovalRequired",     stop |-> LacksApproval(frame)],
    [gate |-> "Quarantined",          stop |-> in_quarantine],
    [gate |-> "TargetDenied",         stop |-> TargetDenied(frame)],
    [gate |-> "StateDeferred",        stop |-> Deferred(frame, tier)],
    [gate |-> "SingleFlightDenied",   stop |-> busy] >>

\* The gate that stops a frame is the first one that would.
StoppedBy(gates, gate) ==
    \E i \in DOMAIN gates :
        /\ gates[i].gate = gate
        /\ gates[i].stop
        /\ \A j \in 1 .. i - 1 : ~gates[j].stop
Passes(gates) == \A i \in DOMAIN gates : ~gates[i].stop
GateName == {"ConstitutionViolated", "Unparseable", "VerifyFailed", "AuthorityDenied",
             "Malformed", "ContentRejected", "ForkRejected", "ApprovalRequired",
             "Quarantined", "TargetDenied", "StateDeferred", "SingleFlightDenied"}

\* The refusals handle_request answers without consulting recovery routing.
NoAdvice == {"ConstitutionViolated", "Unparseable", "VerifyFailed", "ForkRejected"}

-----------------------------------------------------------------------------
(* The effective limits of a delegation: the tighter of the operator's     *)
(* ceiling and the request, each 0 when unset.                             *)

Tighter(default_secs, requested) ==
    IF default_secs = 0 THEN requested
    ELSE IF requested = 0 THEN default_secs
    ELSE IF requested < default_secs THEN requested ELSE default_secs

Deadline(frame) == Tighter(DefaultDeadline, frame.deadline_secs)
IdleTimeout(frame) == Tighter(DefaultIdle, frame.idle_secs)
=============================================================================
