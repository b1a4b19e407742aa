----------------------------- MODULE FleetAudit -----------------------------
(***************************************************************************)
(* Whose jobs the local runners run (forge_loop.rs, the fleet audit): the  *)
(* processes under /proc are indexed one by one, then gone through again,  *)
(* and each whose indexed ancestors include a Runner.Worker tells its job  *)
(* by its environment, while processes come and go.  Pid 1 is init; the    *)
(* pid of a worker, or one the scan has met, is not used again while it    *)
(* goes on.                                                                *)
(***************************************************************************)
EXTENDS Integers, Sequences, FiniteSetsExt, SequencesExt

CONSTANTS JobOf,            \* the job [org, repo, name] of each Runner.Worker process
          StrayJob,         \* what processes outside any worker have in their environment
          MaxPid,
          MaxDepth,         \* how far the ancestors are followed
          ExpectedScope,    \* an organisation [org] or a repository [org, repo]
          MaxOutOfScope     \* max_out_of_scope_jobs

Workers == DOMAIN JobOf
Pid == 1 .. MaxPid
NoJob == [org |-> "", repo |-> "", name |-> ""]

\* What the constants are, assumed by Audits.
FleetAuditConstants ==
    /\ MaxPid \in Nat \ {0} /\ MaxDepth \in Nat /\ MaxOutOfScope \in Nat
    /\ Workers \subseteq Pid \ {1} /\ DOMAIN StrayJob \subseteq Pid \ ({1} \cup Workers)
    /\ \A w \in Workers : JobOf[w] # NoJob

VARIABLES
    process,        \* the processes: their parent and the job their environment names, if any
    scan,           \* the step of the audit, the entry it is at, the one half read, the index, the jobs
    through,        \* the processes that have run since the scan began, under one parent
    fleet_told      \* the report

fleetVars == <<process, scan, through, fleet_told>>

FleetInit ==
    /\ process = [p \in {1} \cup Workers \cup DOMAIN StrayJob |->
                     [ppid |-> IF p = 1 THEN 0 ELSE 1, job |-> IF p \in DOMAIN StrayJob THEN StrayJob[p] ELSE NoJob]]
    /\ scan = [step |-> "before", at |-> 0, half |-> 0, index |-> <<>>, found |-> <<>>]
    /\ through = {} /\ fleet_told = <<>>

-----------------------------------------------------------------------------
(* The machine.  A worker gives its job to the processes it starts, which  *)
(* hand it on; the children of a process that ends become children of 1.   *)

Alive == DOMAIN process
Runs == scan.step # "told"
NextPid == Max(Alive \cup Workers \cup through \cup DOMAIN scan.index) + 1

Fork ==
    /\ Runs /\ NextPid \in Pid
    /\ \E p \in Alive \ {1} :
          process' = [q \in Alive \cup {NextPid} |->
              IF q = NextPid THEN [ppid |-> p, job |-> IF p \in Workers THEN JobOf[p] ELSE process[p].job]
              ELSE process[q]]
    /\ UNCHANGED <<scan, through, fleet_told>>

Exit ==
    /\ Runs
    /\ \E p \in Alive \ {1} :
          LET orphans == {q \in Alive : process[q].ppid = p}
          IN  /\ process' = [q \in Alive \ {p} |-> IF q \in orphans THEN [process[q] EXCEPT !.ppid = 1]
                                                   ELSE process[q]]
              /\ through' = through \ ({p} \cup orphans)
    /\ UNCHANGED <<scan, fleet_told>>

-----------------------------------------------------------------------------
(* The scan.                                                               *)

Begin ==
    /\ scan.step = "before" /\ scan' = [scan EXCEPT !.step = "index"] /\ through' = Alive
    /\ UNCHANGED <<process, fleet_told>>

Ahead == {p \in Alive : p > scan.at}
At(p) == scan.half = 0 /\ Ahead # {} /\ p = Min(Ahead)

\* proc_index: the parent of the next process, then its command line, which is
\* empty when the process has ended meanwhile.
ReadStatus ==
    /\ scan.step = "index"
    /\ \E p \in Ahead :
          /\ At(p)
          /\ scan' = [scan EXCEPT !.at = p, !.half = p,
                         !.index = [q \in DOMAIN @ \cup {p} |->
                             IF q = p THEN [ppid |-> process[p].ppid, worker |-> FALSE] ELSE @[q]]]
    /\ UNCHANGED <<process, through, fleet_told>>

ReadCmdline ==
    /\ scan.step = "index" /\ scan.half # 0
    /\ scan' = [scan EXCEPT !.half = 0, !.index[scan.half].worker = scan.half \in Workers \cap Alive]
    /\ UNCHANGED <<process, through, fleet_told>>

Indexed ==
    /\ scan.step = "index" /\ scan.half = 0 /\ Ahead = {}
    /\ scan' = [scan EXCEPT !.step = "find", !.at = 0]
    /\ UNCHANGED <<process, through, fleet_told>>

\* The process itself and its indexed ancestors; 0 when there is none.
Candidate(pid, index) ==
    LET up[d \in 0 .. MaxDepth] ==
            IF d = 0 THEN pid ELSE IF up[d - 1] \in DOMAIN index THEN index[up[d - 1]].ppid ELSE 0
    IN  up

\* Faulty variant: every process in the index counts, whatever its ancestors.
IsIndexed(pid, index) == pid \in DOMAIN index

HasRunnerWorkerAncestor(pid, index) ==
    \E d \in 0 .. MaxDepth - 1 : Candidate(pid, index)[d] \in DOMAIN index /\ index[Candidate(pid, index)[d]].worker

\* scan_proc_for_runner_jobs: a process under a worker has its environment read next.
FindProcess ==
    /\ scan.step = "find"
    /\ \E p \in Ahead :
          /\ At(p)
          /\ scan' = [scan EXCEPT !.at = p, !.half = IF HasRunnerWorkerAncestor(p, scan.index) THEN p ELSE 0]
    /\ UNCHANGED <<process, through, fleet_told>>

ReadEnviron ==
    /\ scan.step = "find" /\ scan.half # 0
    /\ scan' = [scan EXCEPT !.half = 0,
                   !.found = IF scan.half \in Alive /\ process[scan.half].job # NoJob
                             THEN Append(@, [job |-> process[scan.half].job, pid |-> scan.half]) ELSE @]
    /\ UNCHANGED <<process, through, fleet_told>>

\* dedupe_runner_fleet_jobs: the processes of a job count as one.
DedupeFleet(found) ==
    SetToSeq({[job |-> found[i].job, pids |-> {found[k].pid : k \in {n \in DOMAIN found : found[n].job = found[i].job}}] :
                 i \in DOMAIN found})

\* repository_matches_expected_scope.
InScope(job) ==
    /\ job.org = ExpectedScope.org
    /\ "repo" \in DOMAIN ExpectedScope => job.repo = ExpectedScope.repo

\* runner_fleet_audit_report.
FleetReport(found) ==
    LET jobs == DedupeFleet(found)
        out == {i \in DOMAIN jobs : ~InScope(jobs[i].job)}
    IN  [jobs |-> jobs, out |-> Cardinality(out), ready |-> Cardinality(out) <= MaxOutOfScope]

\* runner_fleet_audit, with --strict.
FleetAudit ==
    /\ scan.step = "find" /\ scan.half = 0 /\ Ahead = {}
    /\ \E report \in {FleetReport(scan.found)} :
          fleet_told' = [jobs |-> report.jobs, exit |-> IF report.ready THEN "ok" ELSE "failed"]
    /\ scan' = [scan EXCEPT !.step = "told"]
    /\ UNCHANGED <<process, through>>

FleetDone == scan.step = "told" /\ UNCHANGED fleetVars

FleetNext ==
    \/ Fork \/ Exit \/ Begin \/ ReadStatus \/ ReadCmdline \/ Indexed \/ FindProcess \/ ReadEnviron
    \/ FleetAudit \/ FleetDone

-----------------------------------------------------------------------------
\* A job has a process that ran all through the scan under its worker, which is
\* not further away than the scan looks.
RanThrough(job) ==
    \E p \in through : /\ process[p].job = job
                       /\ \E d \in 1 .. MaxDepth - 1 : LET up == Candidate(p, process)
                                                       IN  /\ up[d] \in Workers
                                                           /\ \A k \in 0 .. d : up[k] \in through

\* The fleet audit tells of no job that no worker runs or ran, of every job that
\* ran all through the scan, and of each once; and the fleet audit does not pass
\* when more jobs of other owners than allowed ran all through it.
FleetIsTold ==
    scan.step = "told" =>
        LET told == {fleet_told.jobs[i].job : i \in DOMAIN fleet_told.jobs}
            steady == {job \in Range(JobOf) : RanThrough(job)}
        IN  /\ steady \subseteq told /\ told \subseteq Range(JobOf)
            /\ Len(fleet_told.jobs) = Cardinality(told)
            /\ fleet_told.exit = "ok" => Cardinality({job \in steady : ~InScope(job)}) <= MaxOutOfScope
=============================================================================
