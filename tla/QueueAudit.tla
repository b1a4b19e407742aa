----------------------------- MODULE QueueAudit -----------------------------
(***************************************************************************)
(* How crowded the shared local runners are: the collector script lists    *)
(* the queued and the running workflow runs of every repository and then   *)
(* the jobs of each, call after call while the jobs go on, and the queue   *)
(* audit merges one or more such files (forge_loop.rs).  A job is known by *)
(* its url, so its name and its runner are left out of the merge key.      *)
(***************************************************************************)
EXTENDS Integers, Sequences, FiniteSetsExt, SequencesExt

CONSTANTS Repos,            \* the repositories, in the order of their names
          RepoOf,           \* the repository of each run; a newer run has a larger number
          RunOf,            \* the run of each job
          LabelsOf,         \* the labels a job asks for
          StartsAs,         \* what a job may be doing when the collection begins
          LocalLabels,      \* LOCAL_FLEXNETOS_RUNNER_LABELS
          QueueRunLimit,    \* FXRUN_QUEUE_RUN_LIMIT
          MaxQueuedLocal,   \* max_queued_local_jobs
          MaxCollections, MaxLost

Runs == DOMAIN RepoOf
Jobs == DOMAIN RunOf

\* What the constants are, assumed by Audits.
QueueAuditConstants ==
    /\ Runs \subseteq Nat /\ QueueRunLimit \in Nat /\ MaxQueuedLocal \in Nat
    /\ IsFiniteSet(Jobs) /\ Repos \in Seq(ToSet(Repos))
    /\ \A j \in Jobs : RunOf[j] \in Runs
    /\ \A r \in Runs : RepoOf[r] \in ToSet(Repos)

VARIABLES
    job,            \* what every job is doing, on GitHub
    trail,          \* everything it did since the collection began
    collector,      \* the step of the collector, its next call, the runs it found, the calls that
                    \* told it nothing, and whether some run or job was left out
    evidence,       \* the snapshots in the file
    queue_told      \* the report

queueVars == <<job, trail, collector, evidence, queue_told>>

QueueInit ==
    /\ job \in {f \in [Jobs -> UNION Range(StartsAs)] : \A j \in Jobs : f[j] \in StartsAs[j]}
    /\ trail = [j \in Jobs |-> {job[j]}]
    /\ collector = [step |-> "list", next |-> 1, found |-> {}, count |-> 1, lost |-> 0, partial |-> FALSE]
    /\ evidence = <<>> /\ queue_told = <<>>

-----------------------------------------------------------------------------
(* GitHub.                                                                 *)

After == [absent |-> "queued", waiting |-> "queued", queued |-> "in_progress", in_progress |-> "completed"]

JobGoesOn ==
    /\ collector.step # "told"
    /\ \E j \in Jobs : /\ job[j] # "completed" /\ job' = [job EXCEPT ![j] = After[@]]
                       /\ trail' = [trail EXCEPT ![j] = @ \cup {job'[j]}]
    /\ UNCHANGED <<collector, evidence, queue_told>>

RunStatus(r) ==
    LET states == {job[j] : j \in {k \in Jobs : RunOf[k] = r}} \ {"absent"}
    IN  IF states \subseteq {"completed"} THEN "completed"
        ELSE IF states \cap {"in_progress", "completed"} # {} THEN "in_progress"
        ELSE IF "queued" \in states THEN "queued" ELSE "waiting"

-----------------------------------------------------------------------------
(* The collector.                                                          *)

\* Faulty variant: the running ones first.
CallsRunningFirst ==
    [n \in 1 .. 2 * Len(Repos) |->
        [repo |-> Repos[(n + 1) \div 2], status |-> IF n % 2 = 1 THEN "in_progress" ELSE "queued"]]
\* The calls to gh run list: for each repository the queued runs, then the running.
Calls ==
    [n \in 1 .. 2 * Len(Repos) |->
        [repo |-> Repos[(n + 1) \div 2], status |-> IF n % 2 = 1 THEN "queued" ELSE "in_progress"]]

Advanced(c) == IF c.next < Len(Calls) THEN [c EXCEPT !.next = @ + 1] ELSE [c EXCEPT !.step = "jobs"]
Lost(c) == [c EXCEPT !.lost = @ + 1, !.partial = TRUE]

\* The newest runs that have the status; the runs found twice count once.
ListRuns ==
    /\ collector.step = "list"
    /\ LET call == Calls[collector.next]
           matching == {r \in Runs : RepoOf[r] = call.repo /\ RunStatus(r) = call.status}
           newest == {r \in matching : Cardinality({s \in matching : s > r}) < QueueRunLimit}
       IN  collector' = Advanced([collector EXCEPT !.found = @ \cup newest,
                                                   !.partial = @ \/ newest # matching])
    /\ UNCHANGED <<job, trail, evidence, queue_told>>

\* A listing that fails is skipped.
ListFails ==
    /\ collector.step = "list" /\ collector.lost < MaxLost
    /\ collector' = Advanced(Lost(collector))
    /\ UNCHANGED <<job, trail, evidence, queue_told>>

\* The jobs of the next run, or none when they cannot be had.
Snapshot(r, fetched) ==
    /\ evidence' = Append(evidence, [run |-> r,
          jobs |-> SetToSeq(IF fetched THEN {[job |-> j, status |-> job[j]] :
                                                 j \in {k \in Jobs : RunOf[k] = r /\ job[k] # "absent"}} ELSE {})])
    /\ UNCHANGED <<job, trail, queue_told>>

FetchJobs ==
    /\ collector.step = "jobs" /\ collector.found # {}
    /\ Snapshot(Min(collector.found), TRUE)
    /\ collector' = [collector EXCEPT !.found = @ \ {Min(@)}]

FetchFails ==
    /\ collector.step = "jobs" /\ collector.found # {} /\ collector.lost < MaxLost
    /\ Snapshot(Min(collector.found), FALSE)
    /\ collector' = Lost([collector EXCEPT !.found = @ \ {Min(@)}])

\* Another collection is added to the file.
CollectAgain ==
    /\ collector.step = "jobs" /\ collector.found = {} /\ collector.count < MaxCollections
    /\ collector' = [collector EXCEPT !.step = "list", !.next = 1, !.count = @ + 1]
    /\ UNCHANGED <<job, trail, evidence, queue_told>>

-----------------------------------------------------------------------------
(* The audit.                                                              *)

\* dedupe_runner_queue_jobs: one entry for each job and status.
DedupeJobs(jobs) == SetToSeq(jobs)

\* dedupe_runner_queue_runs: the jobs of a run that comes again join those it had.
DedupeRuns(snapshots) ==
    [r \in {snapshots[i].run : i \in DOMAIN snapshots} |->
        LET those == {i \in DOMAIN snapshots : snapshots[i].run = r}
        IN  IF those = {Min(those)} THEN snapshots[Min(those)].jobs
            ELSE DedupeJobs(UNION {ToSet(snapshots[i].jobs) : i \in those})]

HasLocalLabels(j) == LocalLabels \subseteq LabelsOf[j]
QueuedStatus == {"queued", "pending", "waiting", "requested"}
ActiveStatus == {"in_progress", "running"}

\* The jobs in one of the states on local runners, or not, each at its place in its run.
Chosen(merged, statuses, local) ==
    LET places == UNION {{<<r, i>> : i \in DOMAIN merged[r]} : r \in DOMAIN merged}
    IN  [p \in {q \in places : LET e == merged[q[1]][q[2]]
                               IN  (HasLocalLabels(e.job) <=> local) /\ e.status \in statuses} |->
            merged[p[1]][p[2]]]

\* runner_queue_audit_report.
QueueReport(snapshots) ==
    LET merged == DedupeRuns(snapshots)
        queued == Chosen(merged, QueuedStatus, TRUE)
        missing == (IF DOMAIN merged = {} THEN {"repo_job_snapshots"} ELSE {})
                       \cup (IF Cardinality(DOMAIN queued) > MaxQueuedLocal THEN {"local_runner_queue_pressure"} ELSE {})
    IN  [active |-> Chosen(merged, ActiveStatus, TRUE), queued |-> queued,
         nonlocal |-> Chosen(merged, QueuedStatus, FALSE), missing |-> missing]

\* runner_queue_audit, with --strict.
QueueAudit ==
    /\ collector.step = "jobs" /\ collector.found = {}
    /\ \E r \in {QueueReport(evidence)} :
          queue_told' = [active |-> r.active, queued |-> r.queued, nonlocal |-> r.nonlocal,
                         exit |-> IF r.missing = {} THEN "ok" ELSE "failed"]
    /\ collector' = [collector EXCEPT !.step = "told"]
    /\ UNCHANGED <<job, trail, evidence>>

QueueDone == collector.step = "told" /\ UNCHANGED queueVars

QueueNext ==
    JobGoesOn \/ ListRuns \/ ListFails \/ FetchJobs \/ FetchFails \/ CollectAgain \/ QueueAudit \/ QueueDone

-----------------------------------------------------------------------------
\* What the queue audit tells was so while the evidence was collected; a local job
\* that stayed queued all along is told once, unless a call failed or a listing was
\* cut short, and a queue longer than allowed then fails the audit.
QueueIsTold ==
    collector.step = "told" =>
        LET steady == {j \in Jobs : HasLocalLabels(j) /\ trail[j] = {"queued"}}
            Times(j) == Cardinality({i \in DOMAIN queue_told.queued : queue_told.queued[i].job = j})
        IN  /\ \A list \in {queue_told.active, queue_told.queued, queue_told.nonlocal} :
                   \A i \in DOMAIN list : list[i].status \in trail[list[i].job]
            /\ \A j \in steady : Times(j) <= 1 /\ (~collector.partial => Times(j) = 1)
            /\ ~collector.partial /\ queue_told.exit = "ok" => Cardinality(steady) <= MaxQueuedLocal
=============================================================================
