------------------------------- MODULE Audits --------------------------------
(***************************************************************************)
(* Eight parts of the system that share no state, in one specification: a  *)
(* behaviour is a behaviour of one of them, chosen in the initial state,   *)
(* and the variables of the others keep the value "unused".                *)
(***************************************************************************)
CONSTANTS
    RequiredChecks, Minute, ReplacementSecs, PrRecoverySecs, RehydrationSecs, IdleRecoverySecs,
    MaxNow, MaxChecks, RunLimits, Scripts, Plans,                            \* WorkflowHistory
    Repos, RepoOf, RunOf, LabelsOf, StartsAs, LocalLabels, QueueRunLimit,
    MaxQueuedLocal, MaxCollections, MaxLost,                                \* QueueAudit
    JobOf, StrayJob, MaxPid, MaxDepth, ExpectedScope, MaxOutOfScope,        \* FleetAudit
    FixtureGoal, Requests, Homes, DefaultHome, Measures, MaxDryRuns, MinScore,           \* CycleEval
    MaxLedger, MaxChecklist, MaxConfig, SchemaNodes, RequiredKeys, SchemaKeys, \* RepoAudits
    Servers, MaxStarts, MaxEdits,                                           \* ServerStart
    Writers, MaxEvents, MaxFailures, MinSecretLen, Emitted, Configured,              \* AuditTrail
    CanonicalRoot, Catalog, ReleaseCases                                    \* OperatorCli

VARIABLES
    subject,        \* the part that runs
    now, runs, alive, prs, listed, open, audit,
    job, trail, collector, evidence, queue_told,
    process, scan, through, fleet_told,
    home, dryruns, made, cycle, eval,
    repo, strict, repo_told,
    server, path, private, later, lost, disturbed, starts, edits,
    emitting, secrets, log, events, failures,
    asked, tree, release, cli_told

History == INSTANCE WorkflowHistory
Queue   == INSTANCE QueueAudit
Fleet   == INSTANCE FleetAudit
Cycle   == INSTANCE CycleEval
Repo    == INSTANCE RepoAudits
Start   == INSTANCE ServerStart
Trail   == INSTANCE AuditTrail
Cli     == INSTANCE OperatorCli

ASSUME AuditsAssumption ==
    /\ History!WorkflowAuditsConstants /\ History!WorkflowHistoryConstants
    /\ Queue!QueueAuditConstants
    /\ Fleet!FleetAuditConstants
    /\ Cycle!CycleEvalConstants
    /\ Repo!RepoAuditsConstants
    /\ Start!ServerStartConstants
    /\ Trail!AuditTrailConstants

Unused == "unused"
HistoryUnused == now = Unused /\ runs = Unused /\ alive = Unused /\ prs = Unused /\ listed = Unused /\ open = Unused /\ audit = Unused
QueueUnused == job = Unused /\ trail = Unused /\ collector = Unused /\ evidence = Unused /\ queue_told = Unused
FleetUnused == process = Unused /\ scan = Unused /\ through = Unused /\ fleet_told = Unused
CycleUnused == home = Unused /\ dryruns = Unused /\ made = Unused /\ cycle = Unused /\ eval = Unused
RepoUnused == repo = Unused /\ strict = Unused /\ repo_told = Unused
StartUnused == server = Unused /\ path = Unused /\ private = Unused /\ later = Unused /\ lost = Unused /\ disturbed = Unused /\ starts = Unused /\ edits = Unused
TrailUnused == emitting = Unused /\ secrets = Unused /\ log = Unused /\ events = Unused /\ failures = Unused
CliUnused == asked = Unused /\ tree = Unused /\ release = Unused /\ cli_told = Unused

historyVars == <<now, runs, alive, prs, listed, open, audit>>
queueVars == <<job, trail, collector, evidence, queue_told>>
fleetVars == <<process, scan, through, fleet_told>>
cycleVars == <<home, dryruns, made, cycle, eval>>
repoVars == <<repo, strict, repo_told>>
startVars == <<server, path, private, later, lost, disturbed, starts, edits>>
trailVars == <<emitting, secrets, log, events, failures>>
cliVars == <<asked, tree, release, cli_told>>
vars == <<subject, historyVars, queueVars, fleetVars, cycleVars, repoVars, startVars, trailVars, cliVars>>

Init ==
    \/ /\ subject = "history" /\ History!HistoryInit
       /\ QueueUnused /\ FleetUnused /\ CycleUnused /\ RepoUnused /\ StartUnused /\ TrailUnused /\ CliUnused
    \/ /\ subject = "queue" /\ Queue!QueueInit
       /\ HistoryUnused /\ FleetUnused /\ CycleUnused /\ RepoUnused /\ StartUnused /\ TrailUnused /\ CliUnused
    \/ /\ subject = "fleet" /\ Fleet!FleetInit
       /\ HistoryUnused /\ QueueUnused /\ CycleUnused /\ RepoUnused /\ StartUnused /\ TrailUnused /\ CliUnused
    \/ /\ subject = "cycle" /\ Cycle!CycleInit
       /\ HistoryUnused /\ QueueUnused /\ FleetUnused /\ RepoUnused /\ StartUnused /\ TrailUnused /\ CliUnused
    \/ /\ subject = "repo" /\ Repo!RepoInit
       /\ HistoryUnused /\ QueueUnused /\ FleetUnused /\ CycleUnused /\ StartUnused /\ TrailUnused /\ CliUnused
    \/ /\ subject = "start" /\ Start!StartInit
       /\ HistoryUnused /\ QueueUnused /\ FleetUnused /\ CycleUnused /\ RepoUnused /\ TrailUnused /\ CliUnused
    \/ /\ subject = "trail" /\ Trail!TrailInit
       /\ HistoryUnused /\ QueueUnused /\ FleetUnused /\ CycleUnused /\ RepoUnused /\ StartUnused /\ CliUnused
    \/ /\ subject = "cli" /\ Cli!CliInit
       /\ HistoryUnused /\ QueueUnused /\ FleetUnused /\ CycleUnused /\ RepoUnused /\ StartUnused /\ TrailUnused

\* The burn-in audits over a history of runs and requests.
HistoryStep ==
    /\ subject = "history" /\ History!HistoryNext
    /\ UNCHANGED <<subject, queueVars, fleetVars, cycleVars, repoVars, startVars, trailVars, cliVars>>

\* The queue audit over collected jobs.
QueueStep ==
    /\ subject = "queue" /\ Queue!QueueNext
    /\ UNCHANGED <<subject, historyVars, fleetVars, cycleVars, repoVars, startVars, trailVars, cliVars>>

\* The fleet audit over /proc.
FleetStep ==
    /\ subject = "fleet" /\ Fleet!FleetNext
    /\ UNCHANGED <<subject, historyVars, queueVars, cycleVars, repoVars, startVars, trailVars, cliVars>>

\* Dry runs and the evaluation of a cycle.
CycleStep ==
    /\ subject = "cycle" /\ Cycle!CycleNext
    /\ UNCHANGED <<subject, historyVars, queueVars, fleetVars, repoVars, startVars, trailVars, cliVars>>

\* The audits of the repository's files.
RepoStep ==
    /\ subject = "repo" /\ Repo!RepoNext
    /\ UNCHANGED <<subject, historyVars, queueVars, fleetVars, cycleVars, startVars, trailVars, cliVars>>

\* Dispatchers that start on one path.
StartStep ==
    /\ subject = "start" /\ Start!StartNext
    /\ UNCHANGED <<subject, historyVars, queueVars, fleetVars, cycleVars, repoVars, trailVars, cliVars>>

\* The audit logs of the dispatchers.
TrailStep ==
    /\ subject = "trail" /\ Trail!TrailNext
    /\ UNCHANGED <<subject, historyVars, queueVars, fleetVars, cycleVars, repoVars, startVars, cliVars>>

\* The operator's route and release commands.
CliStep ==
    /\ subject = "cli" /\ Cli!CliNext
    /\ UNCHANGED <<subject, historyVars, queueVars, fleetVars, cycleVars, repoVars, startVars, trailVars>>

Next == HistoryStep \/ QueueStep \/ FleetStep \/ CycleStep \/ RepoStep \/ StartStep \/ TrailStep \/ CliStep

Spec == Init /\ [][Next]_vars

-----------------------------------------------------------------------------
\* The idle gaps, the recovery and the proofs the burn-in audits tell of (forge_loop.rs
\* runner-flow, -black-factor, -ops-slo and agentic-system audits) happened on GitHub.
IdleIsTold == subject = "history" => History!IdleIsTold

\* The jobs the queue audit counts were in that state while the evidence was
\* collected, each steady job once, and a longer queue than allowed fails a strict audit.
QueueIsTold == subject = "queue" => Queue!QueueIsTold

\* The jobs the fleet audit finds ran under a local worker, every job that ran all
\* through the scan is found, and out-of-scope work beyond the limit fails a strict audit.
FleetIsTold == subject = "fleet" => Fleet!FleetIsTold

\* An accepted evaluation pairs the metrics and the manifest of one request in the
\* home it runs in, and its score and verdict follow what was measured.
EvaluationIsSound == subject = "cycle" => Cycle!EvaluationIsSound

\* What the docs, components, target and schema audits report of a repository is what
\* a reader of its files would say.
RepoIsTold == subject = "repo" => Repo!RepoIsTold

\* The ledger says that the target audit proves the regression guards of every target
\* (docs/kclaw0-upgrade-ledger.md:432).
GuardsAreProven == subject = "repo" => Repo!GuardsAreProven

\* Dispatchers that start on one path leave it, between starts, with a hardened
\* socket that is served, and remove no file they had seen.
ServerIsReachable == subject = "start" => Start!ServerIsReachable

\* The policy log is the policy part of the log of all events; an event whose writes
\* went well is whole and ended in each, and its line is spoilt by nothing but a write
\* that failed or another server.
AuditTrailAgrees == subject = "trail" => Trail!AuditTrailAgrees

\* What stands in the logs is scrubbed of exactly the secrets.
DetailsAreScrubbed == subject = "trail" => Trail!DetailsAreScrubbed

\* What fxrun route tells of the agent follows the highest source that speaks, and a
\* release is complete, proven, and where fxrun said it would be (main.rs, release.rs).
OperatorIsTold == subject = "cli" => Cli!OperatorIsTold
=============================================================================
