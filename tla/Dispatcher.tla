----------------------------- MODULE Dispatcher -----------------------------
(***************************************************************************)
(* The dispatcher process (runner-dispatch, main.rs): one connection at a  *)
(* time is accepted, read, put through the admission gates, delegated to a *)
(* kernel, and answered.  The ledgers of the guards live in memory from    *)
(* connection to connection and are lost when the process restarts.        *)
(*                                                                         *)
(* A step of handle_request up to the start of the kernel, and from its    *)
(* end to the reply, is atomic: nothing else runs in the process.  Between *)
(* those, the client, the kernel and the sealed files move on their own,   *)
(* and so does the clock, which is sampled once, after accept().           *)
(***************************************************************************)
EXTENDS Gates, FiniteSets, Functions

CONSTANTS
    Frame,          \* the frames the clients may send
    SealedFile,     \* the files of the sealed constitution
    StateDeferSecs, \* retry-after of a deferred route
    Cap, Grace, MaxCost, MaxU64,                \* the budget governor
    MaxPerWindow, WindowSecs, CooldownSecs,     \* the rate limiter
    LoopWindow, LoopThreshold,                  \* the loop breaker
    MaxRetries, BaseBackoff,                    \* recovery routing
    QuarantineThreshold,                        \* the quarantine ledger
    MaxTime, MaxDispatches, MaxRestarts         \* bounds, for model checking

\* A fingerprint is a SHA-256 digest: there are finitely many.
ASSUME DispatcherAssumption ==
    /\ Frame \subseteq FrameType
    /\ IsFiniteSet(Fingerprint)
    /\ StateDeferSecs \in Nat
    /\ Cap \in [{"jobs", "tokens", "usd_micros"} -> Nat]
    /\ \A d \in {"tokens", "usd_micros"} : Cap[d] <= MaxU64
    /\ Grace \in Nat /\ MaxCost \in Nat /\ MaxU64 \in Nat \ {0}
    /\ MaxPerWindow \in Nat /\ WindowSecs \in Nat \ {0} /\ CooldownSecs \in Nat
    /\ LoopWindow \in Nat /\ LoopThreshold \in Nat
    /\ MaxRetries \in Nat
    /\ BaseBackoff \in Nat
    /\ QuarantineThreshold \in Nat
    /\ MaxTime \in Nat
    /\ MaxDispatches \in Nat
    /\ MaxRestarts \in Nat

VARIABLES
    phase,      \* what the process does: "idle", "reading", "running", "replying"
    cur,        \* the running dispatch, or None
    reply,      \* the response being written, or None
    clock,      \* seconds since the server started
    now_secs,   \* the clock as sampled for the current connection
    drifted,    \* the sealed files that differ from their seal
    restarts,   \* process restarts so far
    spent, grace_used,          \* governor.rs
    recent, cooldown_until,     \* ratelimit.rs
    seen,                       \* loopguard.rs
    attempts,                   \* recovery.rs
    failures, quarantined,      \* quarantine.rs
    history,                    \* risk.rs
    active, next_sequence       \* singleflight.rs

None == <<>>

Gov    == INSTANCE Governor WITH inflight <- (phase = "running")
Rate   == INSTANCE RateLimiter WITH
              Route <- Class,
              pending <- IF phase = "running"
                         THEN [route |-> class(cur.frame), at |-> now_secs] ELSE <<>>
Loop   == INSTANCE LoopGuard
Rec    == INSTANCE Recovery
Quar   == INSTANCE Quarantine
Risk   == INSTANCE RiskLedger
Flight == INSTANCE SingleFlight

connection == <<phase, cur, reply, now_secs>>
world == <<clock, drifted, restarts>>
budget == <<spent, grace_used>>
limiter == <<recent, cooldown_until>>
failure_ledgers == <<attempts, failures, quarantined, history>>
flights == <<active, next_sequence>>
ledgers == <<spent, grace_used, recent, cooldown_until, seen, attempts,
             failures, quarantined, history, active, next_sequence>>
vars == <<phase, cur, reply, clock, now_secs, drifted, restarts, spent, grace_used,
          recent, cooldown_until, seen, attempts, failures, quarantined, history,
          active, next_sequence>>

Phase == {"idle", "reading", "running", "replying"}
KernelFailure == {"KernelFailed", "KernelFatal", "DeadlineExceeded", "IdleTimeout"}
Outcome == GateName \cup KernelFailure
           \cup {"RateLimited", "LoopTripped", "BudgetDenied", "Delegated"}

Dispatched == [frame : Frame, lease : [target : Target, job_id : JobId, sequence : Nat],
               began : Nat]
Response == [fp : Fingerprint, outcome : Outcome,
             directive : [action : {"retry", "escalate", "none"}, attempt : Nat, backoff : Nat]]

TypeOK ==
    /\ phase \in Phase
    /\ cur \in Dispatched \cup {None}
    /\ (phase = "running") <=> (cur # None)
    /\ reply \in Response \cup {None}
    /\ (phase = "replying") <=> (reply # None)
    /\ clock \in Nat /\ now_secs \in Nat /\ now_secs <= clock
    /\ drifted \subseteq SealedFile
    /\ restarts \in Nat
    /\ Gov!TypeOK
    /\ Rate!LimiterTypeOK
    /\ Loop!LoopTypeOK
    /\ Rec!RecoveryTypeOK
    /\ Quar!QuarantineTypeOK
    /\ Risk!RiskTypeOK
    /\ Flight!FlightTypeOK

\* The memory of a fresh process.
Fresh == [spent      |-> [d \in Gov!Dim |-> 0],
          cooldown   |-> [c \in Class |-> 0],
          attempts   |-> [fp \in Fingerprint |-> 0],
          failures   |-> [fp \in Fingerprint |-> 0],
          history    |-> [fp \in Fingerprint |-> Risk!Record0],
          active     |-> [t \in Target |-> Flight!Free]]

Init ==
    /\ phase = "idle" /\ cur = None /\ reply = None
    /\ clock = 0 /\ now_secs = 0 /\ drifted = {} /\ restarts = 0
    /\ spent = Fresh.spent /\ grace_used = 0
    /\ recent = <<>> /\ cooldown_until = Fresh.cooldown
    /\ seen = <<>>
    /\ attempts = Fresh.attempts
    /\ failures = Fresh.failures /\ quarantined = {}
    /\ history = Fresh.history
    /\ active = Fresh.active /\ next_sequence = 0

-----------------------------------------------------------------------------
(* The connection.                                                         *)

\* accept() returns and the clock is sampled, before the frame is read.
Accept ==
    /\ phase = "idle"
    /\ phase' = "reading"
    /\ now_secs' = clock
    /\ UNCHANGED <<cur, reply>> /\ UNCHANGED world /\ UNCHANGED ledgers

\* read_to_end() fails: the connection is dropped without an answer.
ReadFails ==
    /\ phase = "reading"
    /\ phase' = "idle"
    /\ UNCHANGED <<cur, reply, now_secs>> /\ UNCHANGED world /\ UNCHANGED ledgers

\* Faulty variant: the dispatch that ended stays the current one.
AnswerKeepsCurrent(fp, outcome, directive) ==
    /\ phase' = "replying"
    /\ reply' = [fp |-> fp, outcome |-> outcome, directive |-> directive]
    /\ UNCHANGED <<cur, now_secs>>

\* handle_request() returns a response for the job with fingerprint fp.
Answer(fp, outcome, directive) ==
    /\ phase' = "replying"
    /\ cur' = None
    /\ reply' = [fp |-> fp, outcome |-> outcome, directive |-> directive]
    /\ UNCHANGED now_secs

\* The response is written, or the write fails and is only logged.
Respond ==
    /\ phase = "replying"
    /\ phase' = "idle"
    /\ reply' = None
    /\ UNCHANGED <<cur, now_secs>> /\ UNCHANGED world /\ UNCHANGED ledgers

-----------------------------------------------------------------------------
(* handle_request, from the constitution check to the refusal or the start *)
(* of the kernel.                                                          *)

NoDirective == Rec!NoDirective
RetryAfter(secs) == [action |-> "retry", attempt |-> 0, backoff |-> secs]

gates(frame) ==
    Stops(frame, drifted = {}, Quar!Quarantined(frame.job.fp), Gov!tier,
          Flight!Busy(target(frame)))

Directive(frame, gate) ==
    CASE gate \in NoAdvice -> NoDirective
      [] gate = "StateDeferred" -> RetryAfter(StateDeferSecs)
      [] OTHER -> Rec!Decision(frame.job.fp, gate)

\* The gates up to the single-flight lock; only a busy target leaves a trace,
\* the sequence number drawn for the attempt.
RefuseAtGate(frame, gate) ==
    /\ phase = "reading"
    /\ StoppedBy(gates(frame), gate)
    /\ Rec!Decide(frame.job.fp, gate)
    /\ IF gate = "SingleFlightDenied" THEN Flight!Refuse(target(frame)) ELSE UNCHANGED flights
    /\ Answer(frame.job.fp, gate, Directive(frame, gate))
    /\ UNCHANGED <<failures, quarantined, history, seen>>
    /\ UNCHANGED world /\ UNCHANGED budget /\ UNCHANGED limiter

\* The frame holds its target.  A later refusal gives it back in the same
\* step, so all that stays is the sequence number.
TakesTarget(frame) ==
    /\ phase = "reading"
    /\ next_sequence < MaxDispatches
    /\ Passes(gates(frame))
LeavesTarget == Flight!Draw /\ UNCHANGED active

\* Faulty variants: the breaker consulted before the rate limiter, and a
\* refused dispatch that takes a slot of the window.
RefuseRateObserved(frame) ==
    /\ TakesTarget(frame) /\ LeavesTarget
    /\ Rate!DenyCooling(class(frame), now_secs) \/ Rate!DenyWindow(class(frame), now_secs)
    /\ Loop!Observe(frame.job.fp)
    /\ Answer(frame.job.fp, "RateLimited", RetryAfter(Rate!RetryAfter(class(frame), now_secs)))
    /\ UNCHANGED <<spent, grace_used>>
    /\ UNCHANGED world /\ UNCHANGED failure_ledgers
RefuseRateTakesSlot(frame) ==
    /\ TakesTarget(frame) /\ LeavesTarget
    /\ Rate!Denies(class(frame), now_secs)
    /\ recent' = Append(Rate!Pruned(now_secs), now_secs)
    /\ Answer(frame.job.fp, "RateLimited", RetryAfter(Rate!RetryAfter(class(frame), now_secs)))
    /\ UNCHANGED <<cooldown_until, seen, spent, grace_used>>
    /\ UNCHANGED world /\ UNCHANGED failure_ledgers

\* The rate limiter: the route cools down, or the window is full.
RefuseRate(frame) ==
    /\ TakesTarget(frame) /\ LeavesTarget
    /\ Rate!DenyCooling(class(frame), now_secs) \/ Rate!DenyWindow(class(frame), now_secs)
    /\ Answer(frame.job.fp, "RateLimited", RetryAfter(Rate!RetryAfter(class(frame), now_secs)))
    /\ UNCHANGED <<seen, spent, grace_used>>
    /\ UNCHANGED world /\ UNCHANGED failure_ledgers

\* Faulty variant: the budget charged before the breaker is consulted.
RefuseLoopCharged(frame) ==
    /\ TakesTarget(frame) /\ LeavesTarget
    /\ Rate!AdmitRoute(class(frame), now_secs)
    /\ Gov!Admit
    /\ Loop!Trips(frame.job.fp)
    /\ Loop!Observe(frame.job.fp)
    /\ Answer(frame.job.fp, "LoopTripped", Rec!Decision(frame.job.fp, "LoopTripped"))
    /\ UNCHANGED world /\ UNCHANGED failure_ledgers

\* The loop breaker trips; the slot of the window stays taken.
RefuseLoop(frame) ==
    /\ TakesTarget(frame) /\ LeavesTarget
    /\ Rate!AdmitRoute(class(frame), now_secs)
    /\ Loop!Trips(frame.job.fp)
    /\ Loop!Observe(frame.job.fp)
    /\ Rec!Decide(frame.job.fp, "LoopTripped")
    /\ Answer(frame.job.fp, "LoopTripped", Rec!Decision(frame.job.fp, "LoopTripped"))
    /\ UNCHANGED <<failures, quarantined, history>>
    /\ UNCHANGED world /\ UNCHANGED budget

\* The budget is spent; the slot and the place in the loop window stay taken.
RefuseBudget(frame) ==
    /\ TakesTarget(frame) /\ LeavesTarget
    /\ Rate!AdmitRoute(class(frame), now_secs)
    /\ ~Loop!Trips(frame.job.fp)
    /\ Loop!Observe(frame.job.fp)
    /\ Gov!Refuses
    /\ Answer(frame.job.fp, "BudgetDenied", NoDirective)
    /\ UNCHANGED world /\ UNCHANGED budget /\ UNCHANGED failure_ledgers

\* Every gate passed: the kernel is started.
Start(frame) ==
    /\ TakesTarget(frame)
    /\ Rate!AdmitRoute(class(frame), now_secs)
    /\ ~Loop!Trips(frame.job.fp)
    /\ Loop!Observe(frame.job.fp)
    /\ Gov!Admit
    /\ Flight!Acquire(target(frame), frame.job.id)
    /\ phase' = "running"
    /\ cur' = [frame |-> frame, began |-> clock,
               lease |-> Flight!Lease(target(frame), frame.job.id)]
    /\ UNCHANGED <<reply, now_secs>>
    /\ UNCHANGED world /\ UNCHANGED failure_ledgers

-----------------------------------------------------------------------------
(* handle_request, from the end of the kernel to the response.             *)

\* A clean delegation: charged, and every failure count of its fingerprint and
\* the cooldown of its route forgotten.
Delivered ==
    /\ phase = "running"
    /\ LET frame == cur.frame
           fp == frame.job.fp
       IN  /\ \E cost \in Gov!JobCost : Gov!Charge(cost)
           /\ Rec!ClearAttempts(fp)
           /\ Quar!Release(fp)
           /\ Rate!ClearRoute(class(frame))
           /\ Risk!RecordSuccess(fp)
           /\ Flight!Release(cur.lease)
           /\ Answer(fp, "Delegated", NoDirective)
    /\ UNCHANGED <<seen, grace_used>> /\ UNCHANGED world

\* A limit the invoker watches has run out by now; it looks at the clock only
\* from time to time, so the kernel may run longer and may still end by itself.
RanFor(secs) == secs # 0 /\ clock >= cur.began + secs

MayFailWith(kind) ==
    CASE kind = "DeadlineExceeded" -> RanFor(Deadline(cur.frame))
      [] kind = "IdleTimeout" -> RanFor(IdleTimeout(cur.frame))
      [] OTHER -> TRUE

\* handle_failure(): the workspace or the spawn failed, the kernel exited with
\* an error (transient or fatal, by its stderr), or the invoker killed it.  The
\* cooldown starts at the now_secs of the connection.
Fails(kind) ==
    /\ phase = "running"
    /\ MayFailWith(kind)
    /\ LET frame == cur.frame
           fp == frame.job.fp
       IN  /\ Risk!RecordFailure(fp)
           /\ Rec!Decide(fp, kind)
           /\ Quar!OnFailure(fp)
           /\ Rate!RecordFailure(class(frame), now_secs)
           /\ Flight!Release(cur.lease)
           /\ Answer(fp, kind, Rec!Decision(fp, kind))
    /\ UNCHANGED <<seen, spent, grace_used>> /\ UNCHANGED world

-----------------------------------------------------------------------------
(* What moves around the process.                                          *)

Tick ==
    /\ clock < MaxTime
    /\ clock' = clock + 1
    /\ UNCHANGED <<drifted, restarts>> /\ UNCHANGED connection /\ UNCHANGED ledgers

\* A sealed file changes or vanishes, and its sealed content is put back.
Drift(file) ==
    /\ drifted' = drifted \cup {file}
    /\ UNCHANGED <<clock, restarts>> /\ UNCHANGED connection /\ UNCHANGED ledgers
Restore(file) ==
    /\ drifted' = drifted \ {file}
    /\ UNCHANGED <<clock, restarts>> /\ UNCHANGED connection /\ UNCHANGED ledgers

\* The process dies at any point and is started again: memory and clock start
\* over and the files are sealed as they are.
Restart ==
    /\ restarts < MaxRestarts
    /\ restarts' = restarts + 1
    /\ phase' = "idle" /\ cur' = None /\ reply' = None
    /\ clock' = 0 /\ now_secs' = 0 /\ drifted' = {}
    /\ spent' = Fresh.spent /\ grace_used' = 0
    /\ recent' = <<>> /\ cooldown_until' = Fresh.cooldown
    /\ seen' = <<>>
    /\ attempts' = Fresh.attempts
    /\ failures' = Fresh.failures /\ quarantined' = {}
    /\ history' = Fresh.history
    /\ active' = Fresh.active /\ next_sequence' = 0

Handle(frame) ==
    \/ \E gate \in GateName : RefuseAtGate(frame, gate)
    \/ RefuseRate(frame)
    \/ RefuseLoop(frame)
    \/ RefuseBudget(frame)
    \/ Start(frame)

Next ==
    \/ Accept
    \/ ReadFails
    \/ \E frame \in Frame : Handle(frame)
    \/ Delivered
    \/ \E kind \in KernelFailure : Fails(kind)
    \/ Respond
    \/ Tick
    \/ \E file \in SealedFile : Drift(file) \/ Restore(file)
    \/ Restart

Spec == Init /\ [][Next]_vars

-----------------------------------------------------------------------------
(* Properties.                                                             *)

Running(fp) == phase = "running" /\ cur.frame.job.fp = fp

\* The governor's job count is exactly the outcomes the risk ledger holds plus
\* the kernel that runs: no admission is lost or settled twice on any path.
JobsAccountedFor ==
    spent["jobs"] = SumFunction([fp \in Fingerprint |-> history[fp].ok + history[fp].bad])
                    + (IF phase = "running" THEN 1 ELSE 0)

\* The three failure ledgers, kept by different modules and cleared at
\* different times, stay ordered: transient failures are among the failures
\* the quarantine counts, and those among all failures on record.
LedgersAgree ==
    \A fp \in Fingerprint :
        /\ attempts[fp] <= history[fp].bad
        /\ QuarantineThreshold > 0 =>
              /\ attempts[fp] <= failures[fp]
              /\ failures[fp] <= history[fp].bad
              /\ fp \in quarantined <=> failures[fp] >= QuarantineThreshold

\* A target is held if and only if its kernel runs: no path of handle_request
\* keeps a lease past its end or lets the kernel run without one.
TargetHeldWhileRunning ==
    \A t \in Target : active[t] # Flight!Free <=> phase = "running" /\ target(cur.frame) = t

\* "Until an operator explicitly re-arms": only a restart takes a fingerprint
\* out of quarantine.
QuarantineIsTerminal ==
    [][restarts' = restarts => quarantined \subseteq quarantined']_vars

\* "Back-pressure, not a job failure": a rate-limited or deferred dispatch
\* draws on no failure ledger, starts no cooldown and enters neither the loop
\* window nor the budget.
Answered(outcomes) == reply = None /\ reply' # None /\ reply'.outcome \in outcomes
BackPressureIsFree ==
    [][Answered({"RateLimited", "StateDeferred"}) =>
          /\ UNCHANGED <<failure_ledgers, seen, budget>>
          /\ \A c \in Class : cooldown_until'[c] <= cooldown_until[c]]_vars

\* The retry budget of a fingerprint is spent by its own transient kernel
\* failures and by nothing else: no refusal, and no failure of other work,
\* brings it closer to escalation.
RetryBudgetIsOwn ==
    [][\A fp \in Fingerprint :
          attempts'[fp] > attempts[fp] =>
              Running(fp) /\ reply'.outcome \in KernelFailure \ {"KernelFatal"}]_vars

\* The dispatcher uses the governor and the rate limiter the way their
\* specifications assume, so what holds of these holds in the dispatcher.
GovernorAsSpecified == Gov!Spec
RateLimiterAsSpecified == Rate!LimiterSpec

\* The dispatcher implements what it promises the control plane.
Service == INSTANCE DispatchService WITH
               Work <- Fingerprint,
               RunLimit <- IF Cap["jobs"] = 0 THEN 0 ELSE Cap["jobs"] + Grace,
               Threshold <- QuarantineThreshold,
               runs <- spent["jobs"],
               strikes <- failures,
               underway <- IF phase = "running" THEN {cur.frame.job.fp} ELSE {}
KeepsItsPromise == Service!ServiceSpec
=============================================================================
