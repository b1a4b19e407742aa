-------------------------- MODULE WorkflowHistory ---------------------------
(***************************************************************************)
(* The workflow runs and pull requests of one repository, as they happen   *)
(* on GitHub, and the watch that lists them while they go on: the runs     *)
(* first, then the open requests, then all requests, and last the flow,    *)
(* black-factor and operations audits over what was listed.                *)
(***************************************************************************)
EXTENDS WorkflowAudits

CONSTANTS MaxNow, MaxChecks, RunLimits,
          Scripts,          \* the runs that are made, each [name, event, title], in order, and the
                            \* recovery flags of the requests that are opened, in order
          Plans             \* the arguments an operations audit is run with

\* What the constants are, assumed by Audits.
WorkflowHistoryConstants ==
    /\ {MaxNow, MaxChecks} \subseteq Nat /\ RunLimits \subseteq Nat \ {0}
    /\ \A script \in Scripts : script.requests \in Seq(BOOLEAN)
    /\ \A plan \in Plans : {plan.min_window, plan.min_sustain_minutes, plan.min_sustain_runs, plan.max_idle_gap} \subseteq Nat

VARIABLES
    now,        \* the second on GitHub's clock
    runs,       \* the workflow runs, in the order they were made
    alive,      \* for each second gone by, the runs that were unfinished in it
    prs,        \* the pull requests, in the order they were opened
    listed,     \* gh run list: the run each listed number had
    open,       \* gh pr list --state open
    audit       \* the runs to come, the plan of the audit, its step and what it told

historyVars == <<now, runs, alive, prs, listed, open, audit>>

Nothing == [i \in {} |-> {}]
Newest(n) == {i \in DOMAIN runs : i > Len(runs) - n}

HistoryInit ==
    /\ now = 0 /\ runs = <<>> /\ alive = <<>> /\ prs = <<>>
    /\ listed = Nothing /\ open = Nothing
    /\ \E plan \in Plans, script \in Scripts :
          audit = [script |-> script, plan |-> plan, step |-> "runs", told |-> Nothing]

-----------------------------------------------------------------------------
(* GitHub.  Nothing reads the runs once they are listed: they stop there.  *)

GoesOn == audit.step = "runs"
SetRun(i, status, conclusion) ==
    /\ LET run == [runs[i] EXCEPT !.status = status, !.conclusion = conclusion, !.updated = now]
       IN  runs' = [runs EXCEPT ![i] = run]
    /\ UNCHANGED <<now, alive, prs, listed, open, audit>>

Trigger ==
    /\ GoesOn /\ Len(runs) < Len(audit.script.runs)
    /\ LET t == audit.script.runs[Len(runs) + 1]
       IN  runs' = Append(runs, [name |-> t.name, event |-> t.event, title |-> t.title, branch |-> "",
                                 status |-> "queued", conclusion |-> "", created |-> now, updated |-> now])
    /\ UNCHANGED <<now, alive, prs, listed, open, audit>>

StartRun == GoesOn /\ \E i \in DOMAIN runs : runs[i].status = "queued" /\ SetRun(i, "in_progress", "")

\* No run ends in the second it was made.
EndRun ==
    /\ GoesOn
    /\ \E i \in DOMAIN runs :
          /\ now > runs[i].created
          /\ \/ runs[i].status = "in_progress" /\ \E c \in {"success", "failure"} : SetRun(i, "completed", c)
             \/ runs[i].status = "queued" /\ SetRun(i, "completed", "cancelled")

SetPr(p, pr) == prs' = [prs EXCEPT ![p] = pr] /\ UNCHANGED <<now, runs, alive, listed, open, audit>>

OpenPr ==
    /\ Len(prs) < Len(audit.script.requests)
    /\ prs' = Append(prs, [state |-> "OPEN", recovery |-> audit.script.requests[Len(prs) + 1], merged_at |-> Unmerged, checks |-> <<>>])
    /\ UNCHANGED <<now, runs, alive, listed, open, audit>>

StartCheck ==
    \E p \in DOMAIN prs, name \in RequiredChecks :
        /\ prs[p].state = "OPEN" /\ Len(prs[p].checks) < MaxChecks
        /\ SetPr(p, [prs[p] EXCEPT !.checks = Append(@, [name |-> name, status |-> "queued", conclusion |-> ""])])

EndCheck ==
    \E p \in DOMAIN prs : \E k \in DOMAIN prs[p].checks, c \in {"success", "failure"} :
        /\ prs[p].checks[k].conclusion = ""
        /\ SetPr(p, [prs[p] EXCEPT !.checks[k].status = "completed", !.checks[k].conclusion = c])

Merge == \E p \in DOMAIN prs : prs[p].state = "OPEN" /\ SetPr(p, [prs[p] EXCEPT !.state = "MERGED", !.merged_at = now])

Tick ==
    /\ GoesOn /\ now < MaxNow /\ now' = now + 1
    /\ alive' = Append(alive, {i \in DOMAIN runs : runs[i].status # "completed"})
    /\ UNCHANGED <<runs, prs, listed, open, audit>>

GitHub == Trigger \/ StartRun \/ EndRun \/ OpenPr \/ StartCheck \/ EndCheck \/ Merge \/ Tick

-----------------------------------------------------------------------------
(* The watch.  It asks for no branch, so every run comes without one.      *)

ListRuns ==
    /\ audit.step = "runs" /\ \E limit \in RunLimits : listed' = [i \in Newest(limit) |-> runs[i]]
    /\ audit' = [audit EXCEPT !.step = "open"]
    /\ UNCHANGED <<now, runs, alive, prs, open>>

ListOpen ==
    /\ audit.step = "open" /\ open' = [p \in {q \in DOMAIN prs : prs[q].state = "OPEN"} |-> prs[p]]
    /\ audit' = [audit EXCEPT !.step = "all"]
    /\ UNCHANGED <<now, runs, alive, prs, listed>>

\* The commands; a strict audit fails when evidence is missing.
Strict(missing) == IF missing = {} THEN "ok" ELSE "failed"
RunnerFlowAudit(flow) == Strict(flow.missing)
RunnerBlackFactorAudit(black) == Strict(black.missing)
RunnerOpsSloAudit(ops) == Strict(ops.missing)

\* The audit of the whole system may be given no evidence of the runs.
AgenticSystemAudit(lacking, flow, black, ops) ==
    LET Given(report) == IF lacking = "evidence" THEN {} ELSE {report}
    IN  Strict(AgenticReport(RepositoryEvidence({}, {}, {lacking} \cap {"drift"}, {lacking} \cap {"adapting"}),
                             lacking # "lane", Given(flow), Given(black), Given(ops)))

\* All requests are listed and the audits run over what was collected; what they
\* find in the repository and of the fleet varies.
Audit ==
    /\ audit.step = "all"
    /\ \E r \in {[ops |-> OpsReport(audit.plan, listed, open, prs), flow |-> FlowReport(TRUE, listed, open),
                 black |-> BlackFactorReport(audit.plan, listed, prs)]},
          lacking \in {"nothing", "evidence", "lane", "drift", "adapting"} :
          audit' = [audit EXCEPT !.step = "told",
                       !.told = [gaps |-> r.ops.gaps, idle |-> r.flow.idle_without_work,
                                 flow |-> RunnerFlowAudit(r.flow), black |-> RunnerBlackFactorAudit(r.black),
                                 ops |-> RunnerOpsSloAudit(r.ops),
                                 agentic |-> AgenticSystemAudit(lacking, r.flow, r.black, r.ops)]]
    /\ UNCHANGED <<now, runs, alive, prs, listed, open>>

Watch == ListRuns \/ ListOpen \/ Audit
HistoryDone == audit.step = "told" /\ UNCHANGED historyVars
\* The audited requests stay as they are.
HistoryNext == (audit.step # "told" /\ GitHub) \/ Watch \/ HistoryDone

-----------------------------------------------------------------------------
LocalRunnerName == {"Runner Sustain"} \cup Checks \cup CodexForgeLoop
Told == audit.step = "told"

\* The stretches of the audited window in which no run of a kind was unfinished.
\* Before the first second nothing ran.
IdleStretches(kind) ==
    LET from == ProofStart(listed, audit.plan.min_window)
        Quiet(second) == second < 1 \/ alive[second] \cap kind = {}
    IN  {s \in (from .. LastCreated(listed)) \X (from .. LastCreated(listed)) :
            s[1] < s[2] /\ \A second \in s[1] + 1 .. s[2] : Quiet(second)}

RoundedUp(seconds) == (seconds + Minute - 1) \div Minute
LongestOf(stretches) == Max({RoundedUp(s[2] - s[1]) : s \in stretches} \cup {0})

\* The idle gap the operations audit reports is no shorter than any stretch in
\* which no local-runner workflow was unfinished, and no longer than the longest
\* in which none was that the audit counts and saw finished.
GapsAreReal ==
    Told => /\ audit.told.gaps.max_idle_gap >=
                  LongestOf(IdleStretches({i \in DOMAIN runs : runs[i].name \in LocalRunnerName}))
            /\ audit.told.gaps.max_idle_gap <=
                  LongestOf(IdleStretches({i \in DOMAIN listed :
                      listed[i].status = "completed" /\ Productive(listed[i], audit.plan.min_sustain_minutes)}))

\* A burn-in or the whole system is called ready only when after every longer
\* stretch of true idleness a recovery request was merged with no check that only
\* failed, and a run that succeeded was started after it.
IdlenessIsAnswered ==
    Told /\ "ok" \in {audit.told.ops, audit.told.agentic} =>
        \A s \in IdleStretches({i \in DOMAIN runs : runs[i].name \in LocalRunnerName}) :
            RoundedUp(s[2] - s[1]) > audit.plan.max_idle_gap =>
                \E p \in DOMAIN prs, i \in DOMAIN runs :
                    /\ prs[p].recovery /\ prs[p].state = "MERGED" /\ prs[p].merged_at >= s[2]
                    /\ runs[i].created >= prs[p].merged_at /\ runs[i].conclusion = "success"

\* What the audits tell is what happened: the gaps, their recovery, and the work the
\* flow audit saw, which existed while the history was collected, as did a long
\* enough sustain run when the black factor or the whole system is called proven.
IdleIsTold ==
    /\ GapsAreReal /\ IdlenessIsAnswered
    /\ Told /\ (~audit.told.idle \/ audit.told.agentic = "ok") =>
          (\E i \in DOMAIN runs : runs[i].status # "completed") \/ DOMAIN prs # {}
    /\ Told /\ "ok" \in {audit.told.black, audit.told.agentic} /\ audit.plan.min_sustain_runs > 0 =>
          \E i \in DOMAIN runs :
             /\ runs[i].name = "Runner Sustain" /\ runs[i].conclusion = "success"
             /\ Cardinality({t \in DOMAIN alive : i \in alive[t]}) >= audit.plan.min_sustain_minutes * Minute
=============================================================================
