--------------------------- MODULE WorkflowAudits ----------------------------
(***************************************************************************)
(* What forge_loop.rs concludes from the history of workflow runs and pull *)
(* requests: the flow, black-factor and operations audits.  Every operator *)
(* takes the evidence it reads; Minute is the number of seconds a minute   *)
(* has, and the four recovery windows are in seconds.  First, how they     *)
(* read the check rollup of a pull request (classify_runner_health): of    *)
(* the checks that need the local runners, which are pending, passed,      *)
(* failed or missing.  A check that was run again has several entries,     *)
(* and the best news wins.                                                 *)
(***************************************************************************)
EXTENDS Integers, Sequences, FiniteSetsExt, SequencesExt

CONSTANTS RequiredChecks,     \* REQUIRED_LOCAL_CHECKS
          Minute, ReplacementSecs, PrRecoverySecs, RehydrationSecs, IdleRecoverySecs

\* What the constants are, assumed by Audits.
WorkflowAuditsConstants ==
    /\ Minute \in Nat \ {0}
    /\ {ReplacementSecs, PrRecoverySecs, RehydrationSecs, IdleRecoverySecs} \subseteq Nat

-----------------------------------------------------------------------------
(* The health of the local checks.                                         *)

CheckStatus == {"queued", "pending", "in_progress", "completed"}
Conclusion == {"", "success", "failure", "cancelled", "timed_out", "action_required", "skipped"}
CheckRollupEntry == [name : RequiredChecks \cup {"other"}, status : CheckStatus, conclusion : Conclusion]

\* check_state.
CheckState(check) ==
    IF check.status \in {"queued", "pending", "in_progress"} \/ check.conclusion = "" THEN "Pending"
    ELSE IF check.conclusion = "success" THEN "Passed" ELSE "Failed"

\* merged_with.
MergedWith(state, other) ==
    IF "Pending" \in {state, other} THEN "Pending"
    ELSE IF "Passed" \in {state, other} THEN "Passed" ELSE "Failed"

\* classify_runner_health: the entries of a rollup in order, one state a check.
ClassifyRunnerHealth(checks) ==
    LET Note(states, check) ==
            IF check.name \notin RequiredChecks THEN states
            ELSE LET state == CheckState(check)
                 IN  [name \in DOMAIN states \cup {check.name} |->
                         IF name # check.name THEN states[name]
                         ELSE IF name \in DOMAIN states THEN MergedWith(states[name], state)
                         ELSE state]
        local == FoldLeft(Note, [name \in {} |-> "Pending"], checks)
        Of(state) == {name \in DOMAIN local : local[name] = state}
    IN  [pending |-> Of("Pending"), passed |-> Of("Passed"), failed |-> Of("Failed"),
         missing |-> RequiredChecks \ DOMAIN local, pressure |-> Of("Pending") # {}]

\* A merged request counts as clean: checks that are missing or pending do not stain it.
Clean(pr) == ClassifyRunnerHealth(pr.checks).failed = {}

-----------------------------------------------------------------------------
(* Runs.                                                                   *)

\* The names a run may bear: a watch and a growth run carry their trigger in it.
BlackFactorWatch == {"Runner Black Factor Watch", "Runner Black Factor Watch (trigger)"}
CodexForgeLoop == {"Codex Forge Loop", ".github/workflows/codex-forge-loop.yml", "Codex Forge Loop (trigger)"}
AgenticSystemWatch == {"Agentic System Watch", "Agentic System Watch (trigger)"}
Checks == {"CI", "Semantic PR Title"}
OpsWorkflow == {"Runner Sustain"} \cup Checks \cup BlackFactorWatch \cup CodexForgeLoop
WorkflowName == OpsWorkflow \cup AgenticSystemWatch \cup {"Runner Smoke"}

\* One entry of gh run list; "completion" is a display title that names a completion.
WorkflowRun == [name : WorkflowName, status : CheckStatus, conclusion : Conclusion,
                event : {"schedule", "push", "workflow_run", "workflow_dispatch"},
                title : {"", "completion"}, branch : STRING, created : Int, updated : Int]

Unmerged == -1
Backlog == {"queued", "pending", "in_progress"}
WithStatus(runs, names, statuses) == {i \in DOMAIN runs : runs[i].name \in names /\ runs[i].status \in statuses}
Succeeded(run) == run.status = "completed" /\ run.conclusion = "success"

-----------------------------------------------------------------------------
(* Sustain runs and wake-ups.                                              *)

SuccessfulSustain(run) == run.name = "Runner Sustain" /\ Succeeded(run)

\* runner_sustain_duration_minutes is some number: whole minutes, rounded down.
ProvenSustain(run, min_minutes) ==
    SuccessfulSustain(run) /\ run.updated >= run.created
        /\ (run.updated - run.created) \div Minute >= min_minutes

SuccessfulWatchRehydration(run) ==
    /\ run.name \in BlackFactorWatch /\ Succeeded(run)
    /\ \/ run.event = "workflow_run"
       \/ run.event = "workflow_dispatch" /\ run.title = "completion"

-----------------------------------------------------------------------------
(* Idle gaps.                                                              *)

\* local_runner_productive_interval: a sustain run counts while it is queued or
\* running, and when it was long enough; the checks and growth runs always.
Productive(run, min_minutes) ==
    IF run.name = "Runner Sustain"
    THEN run.status \in {"queued", "in_progress"} \/ ProvenSustain(run, min_minutes)
    ELSE run.name \in Checks \cup CodexForgeLoop

\* The productive intervals, clipped to the window.
ProductiveIntervals(runs, from, to, min_minutes) ==
    LET clipped == {<<Max({runs[i].created, from}), Min({Max({runs[i].created, runs[i].updated}), to})>> :
                       i \in {j \in DOMAIN runs : Productive(runs[j], min_minutes)}}
    IN  {interval \in clipped : interval[2] >= interval[1]}

\* The sweep of local_runner_idle_gap_recovery, by start and then by end: at an interval
\* its cursor has come to the latest end of those before.
Sooner(x, y) == x[1] < y[1] \/ (x[1] = y[1] /\ x[2] < y[2])
Cursor(intervals, from) == Max({from} \cup {interval[2] : interval \in intervals})
CursorAt(interval, intervals, from) == Cursor({other \in intervals : Sooner(other, interval)}, from)

Gaps(intervals, from, to) ==
    {<<CursorAt(i, intervals, from), i[1]>> : i \in {j \in intervals : j[1] > CursorAt(j, intervals, from)}}
        \cup (IF to > Cursor(intervals, from) THEN {<<Cursor(intervals, from), to>>} ELSE {})

IdleGaps(runs, from, to, min_minutes) ==
    IF to <= from THEN {} ELSE Gaps(ProductiveIntervals(runs, from, to, min_minutes), from, to)

\* has_successful_runner_rehydration_after.
RehydratedAfter(merged_at, runs) ==
    \E i \in DOMAIN runs :
        /\ runs[i].created \in merged_at .. merged_at + RehydrationSecs
        /\ SuccessfulWatchRehydration(runs[i]) \/ SuccessfulSustain(runs[i])

\* Faulty variant: a merge around the end of the gap counts, one before it too.
GapRecoveredAround(gap_end, runs, prs) ==
    \E p \in DOMAIN prs :
        /\ prs[p].state = "MERGED" /\ prs[p].recovery /\ Clean(prs[p]) /\ prs[p].merged_at # Unmerged
        /\ prs[p].merged_at \in gap_end - IdleRecoverySecs .. gap_end + IdleRecoverySecs
        /\ RehydratedAfter(prs[p].merged_at, runs)

\* idle_gap_has_recovery: a clean merge of a request whose title speaks of idle
\* or sustained runners, soon after the gap, and a wake-up soon after that.
GapRecovered(gap_end, runs, prs) ==
    \E p \in DOMAIN prs :
        /\ prs[p].state = "MERGED" /\ prs[p].recovery /\ Clean(prs[p]) /\ prs[p].merged_at # Unmerged
        /\ prs[p].merged_at \in gap_end .. gap_end + IdleRecoverySecs
        /\ RehydratedAfter(prs[p].merged_at, runs)

\* record_idle_gap for each: a gap lasts whole minutes, rounded up.
IdleGapRecovery(gaps, runs, prs) ==
    LET Minutes(gap) == (gap[2] - gap[1] + Minute - 1) \div Minute
        Longest(some) == Max({Minutes(gap) : gap \in some} \cup {0})
        recovered == {gap \in gaps : GapRecovered(gap[2], runs, prs)}
    IN  [max_idle_gap |-> Longest(gaps), unrecovered |-> Longest(gaps \ recovered),
         recovered |-> Longest(recovered), recovered_gaps |-> Cardinality(recovered)]

-----------------------------------------------------------------------------
(* Failed operations.                                                      *)

FailedConclusion == {"failure", "timed_out", "cancelled", "action_required"}

SameFamily(name, other) ==
    name = other \/ \E family \in {BlackFactorWatch, CodexForgeLoop, AgenticSystemWatch} : {name, other} \subseteq family

NearbyReplacement(run, runs) ==
    \E i \in DOMAIN runs :
        /\ SameFamily(run.name, runs[i].name) /\ runs[i].branch = run.branch /\ Succeeded(runs[i])
        /\ runs[i].created - run.created \in -ReplacementSecs .. ReplacementSecs

NearbyPrRecovery(run, prs) ==
    \E p \in DOMAIN prs :
        /\ prs[p].state = "MERGED" /\ Clean(prs[p]) /\ prs[p].merged_at # Unmerged
        /\ prs[p].merged_at \in run.updated .. run.updated + PrRecoverySecs

\* is_failed_ops_run.
FailedOps(run, runs, prs) ==
    /\ run.conclusion \in FailedConclusion
    /\ ~NearbyReplacement(run, runs)
    /\ ~(run.name \in CodexForgeLoop /\ NearbyPrRecovery(run, prs))

-----------------------------------------------------------------------------
(* The window an audit looks at, and the reports.                          *)

\* From the first run to the last; without runs, the epoch.
LastCreated(runs) == IF DOMAIN runs = {} THEN 0 ELSE Max({runs[i].created : i \in DOMAIN runs})
FirstCreated(runs) == IF DOMAIN runs = {} THEN 0 ELSE Min({runs[i].created : i \in DOMAIN runs})
ObservedMinutes(runs) == (LastCreated(runs) - FirstCreated(runs)) \div Minute
ProofStart(runs, min_minutes) == LastCreated(runs) - min_minutes * Minute
InWindow(run, runs, min_minutes) == run.created >= ProofStart(runs, min_minutes)

Missing(evidence) == {e.id : e \in {f \in evidence : f.lacking}}
Lacks(id, lacking) == [id |-> id, lacking |-> lacking]

Seamless(open) ==
    \A p \in DOMAIN open : LET health == ClassifyRunnerHealth(open[p].checks)
                           IN  health.pending = {} /\ health.failed = {}

\* runner_flow_audit_report.
FlowReport(sustain_workflow, runs, open) ==
    LET idle == WithStatus(runs, WorkflowName, Backlog) = {} /\ DOMAIN open = {}
    IN  [idle_without_work |-> idle, seamless |-> Seamless(open),
         missing |-> Missing({Lacks("runner_sustain_workflow", ~sustain_workflow),
                              Lacks("active_or_queued_runner_work", idle),
                              Lacks("seamless_pr_flow", ~Seamless(open))})]

\* runner_black_factor_audit_report: sustain work counts within the window,
\* clean merges whenever they were made.
BlackFactorReport(args, runs, prs) ==
    LET proven == {i \in DOMAIN runs : ProvenSustain(runs[i], args.min_sustain_minutes)}
        sustained == Cardinality({i \in proven : InWindow(runs[i], runs, args.min_window)})
        clean == Cardinality({p \in DOMAIN prs :
                     prs[p].state = "MERGED" /\ prs[p].merged_at # Unmerged /\ Clean(prs[p])})
        missing == Missing({Lacks("observed_12h_window", ObservedMinutes(runs) < args.min_window),
                            Lacks("sustain_run_count", sustained < args.min_sustain_runs),
                            Lacks("clean_merged_pr_flow", clean < args.min_clean)})
    IN  [sustained |-> sustained, proven |-> Cardinality(proven), clean |-> clean,
         remaining |-> Max({args.min_sustain_runs - sustained, 0}),
         unproven |-> Cardinality({i \in DOMAIN runs \ proven : SuccessfulSustain(runs[i])}),
         missing |-> missing, exceeded |-> missing = {}]

\* runner_ops_slo_audit_report.
OpsReport(args, runs, open, prs) ==
    LET gaps == IdleGapRecovery(IdleGaps(runs, ProofStart(runs, args.min_window), LastCreated(runs), args.min_sustain_minutes),
                                runs, prs)
        backlog == \/ Cardinality(WithStatus(runs, {"Runner Sustain"}, Backlog)) >= args.min_backlog
                   \/ WithStatus(runs, CodexForgeLoop, Backlog) # {}
        Within(i) == InWindow(runs[i], runs, args.min_window)
        wakeups == Cardinality({i \in DOMAIN runs : SuccessfulWatchRehydration(runs[i]) /\ Within(i)})
        failed == Cardinality({i \in WithStatus(runs, OpsWorkflow, {"completed"}) :
                                  Within(i) /\ FailedOps(runs[i], runs, prs)})
        missing == Missing({Lacks("observed_slo_window", ObservedMinutes(runs) < args.min_window),
                            Lacks("idle_gap_slo", gaps.unrecovered > args.max_idle_gap),
                            Lacks("active_or_queued_sustain_backlog", ~backlog),
                            Lacks("event_watch_rehydration", wakeups < args.min_wakeups),
                            Lacks("failed_ops_budget", failed > args.max_failed),
                            Lacks("seamless_pr_flow", ~Seamless(open))})
    IN  [gaps |-> gaps, wakeups |-> wakeups, failed |-> failed,
         missing |-> missing, ready |-> missing = {}]

\* agentic_system_audit_report, of the repository: components and targets that are
\* missing, features that drift, and the loops whose terms are not in their files.
RepositoryEvidence(components, targets, drift, loops) ==
    Missing({Lacks("component_inventory", components # {}), Lacks("target_mining", targets # {}), Lacks("docs_drift", drift # {}),
             Lacks("always_researching", targets # {} \/ "researching" \in loops),
             Lacks("always_evaluating", components # {} \/ drift # {} \/ "evaluating" \in loops),
             Lacks("always_adapting", "adapting" \in loops), Lacks("self_improvement_dispatch", "dispatch" \in loops)})

\* agentic_system_audit_report, always growing: every report is there and good; a
\* black factor that is exceeded has its clean merges.
Growing(flow, black, ops) ==
    /\ \E report \in black : report.exceeded
    /\ \E report \in ops : report.ready
    /\ \E report \in flow : report.seamless /\ ~report.idle_without_work

\* agentic_system_audit_report: whether the fleet is in its lane, and the three
\* reports, or nothing for those without evidence.
AgenticEvidence(fleet_ready, flow, black, ops) ==
    {Lacks("runner_flow_live_evidence", flow = {}), Lacks("runner_flow", \E r \in flow : r.missing # {}),
     Lacks("black_factor_live_evidence", black = {}), Lacks("black_factor_exceeded", \E r \in black : ~r.exceeded),
     Lacks("ops_slo_live_evidence", ops = {}), Lacks("ops_slo_burn_in", \E r \in ops : ~r.ready),
     Lacks("fleet_lane_ownership", ~fleet_ready), Lacks("always_growing", ~Growing(flow, black, ops))}

\* That, and what the repository lacks.
AgenticReport(repository, fleet_ready, flow, black, ops) ==
    repository \cup Missing(AgenticEvidence(fleet_ready, flow, black, ops))
=============================================================================
