--------------------------- MODULE EvidenceProofs ----------------------------
(***************************************************************************)
(* The audits of what is collected from GitHub tell what was so, while it  *)
(* goes on there.                                                          *)
(*                                                                         *)
(* The queue audit: whatever the jobs do from one call of the collector to *)
(* the next, no job that is queued all along is forgotten.  The listing    *)
(* asks for the queued runs of a repository before it asks for the running *)
(* ones, so a run that leaves the queue between the two calls is found by  *)
(* the second; asked the other way round, it would be missed.              *)
(*                                                                         *)
(* The flow, black-factor, operations and system audits: a gap they tell   *)
(* of was one, and no stretch without a local runner at work is left out   *)
(* of them.  The invariant says what the recorded runs have to do with     *)
(* the seconds in which they were unfinished (Spans) and what was listed   *)
(* of them (Listing); the sweep over the intervals is proved to find every *)
(* stretch that is free of them (GapsAreFree, FreeIsInGap).                *)
(***************************************************************************)
EXTENDS FleetAuditProofs

-----------------------------------------------------------------------------
(* The queue audit.                                                        *)

-----------------------------------------------------------------------------
(* Its invariant.                                                          *)

\* What a job does is among what it did.
Trails ==
    /\ DOMAIN job = Queue!Jobs /\ DOMAIN trail = Queue!Jobs
    /\ \A j \in Queue!Jobs : job[j] \in trail[j]

Steps == {"list", "jobs", "told"}

CollectorShape ==
    /\ collector = [step |-> collector.step, next |-> collector.next, found |-> collector.found,
                    count |-> collector.count, lost |-> collector.lost, partial |-> collector.partial]
    /\ collector.step \in Steps /\ collector.next \in Nat \ {0} /\ collector.found \subseteq Queue!Runs
    /\ collector.partial \in BOOLEAN

\* An entry of a list of jobs of run r, none of which stands there twice.
Listed(jobs, r) ==
    /\ IsFiniteSet(DOMAIN jobs)
    /\ \A i \in DOMAIN jobs : /\ jobs[i] = [job |-> jobs[i].job, status |-> jobs[i].status]
                              /\ jobs[i].job \in Queue!Jobs /\ RunOf[jobs[i].job] = r
                              /\ jobs[i].status \in trail[jobs[i].job]
    /\ \A i, k \in DOMAIN jobs : jobs[i] = jobs[k] => i = k

Snapshots ==
    /\ IsSequence(evidence)
    /\ \A i \in DOMAIN evidence : Listed(evidence[i].jobs, evidence[i].run)

Steady(j) == trail[j] = {"queued"}
Collected(j) == \E i \in DOMAIN evidence : /\ evidence[i].run = RunOf[j]
                                           /\ \E k \in DOMAIN evidence[i].jobs : evidence[i].jobs[k].job = j

\* A run whose listing still comes is queued until it is found, or runs by then.
Comes(r) ==
    \A i \in DOMAIN Repos : Repos[i] = RepoOf[r] =>
        /\ collector.next > 2 * i - 1 => r \in collector.found \/ Queue!RunStatus(r) = "in_progress"
        /\ collector.next > 2 * i => r \in collector.found

\* What is queued all along is collected, or is going to be.
NoneForgotten ==
    ~collector.partial =>
        \A j \in Queue!Jobs : Steady(j) =>
            \/ Collected(j)
            \/ collector.step = "list" /\ Comes(RunOf[j])
            \/ collector.step = "jobs" /\ RunOf[j] \in collector.found

QueueReported ==
    collector.step = "told" =>
        LET r == Queue!QueueReport(evidence)
        IN  queue_told = [active |-> r.active, queued |-> r.queued, nonlocal |-> r.nonlocal,
                          exit |-> IF r.missing = {} THEN "ok" ELSE "failed"]

QueueInv == Trails /\ CollectorShape /\ Snapshots /\ NoneForgotten /\ QueueReported

\* The repositories are numbered from one.
LEMMA RepoNumbers == Len(Repos) \in Nat /\ DOMAIN Repos = 1 .. Len(Repos)
  <1>1. Repos \in Seq(Queue!ToSet(Repos))
    BY AuditsAssumption DEF Queue!QueueAuditConstants
  <1>2. QED
    BY <1>1, LenProperties

\* A run one of whose jobs is queued is queued, or runs if another one does or did.
LEMMA RunStates ==
    ASSUME NEW j \in Queue!Jobs, job[j] = "queued"
    PROVE  /\ Queue!RunStatus(RunOf[j]) \in {"queued", "in_progress"}
           /\ Queue!RunStatus(RunOf[j]) = "in_progress" <=>
                  \E k \in Queue!Jobs : RunOf[k] = RunOf[j] /\ job[k] \in {"in_progress", "completed"}
  <1> DEFINE states == {job[k] : k \in {i \in Queue!Jobs : RunOf[i] = RunOf[j]}} \ {"absent"}
  <1>1. "queued" \in states
    OBVIOUS
  <1>2. states \cap {"in_progress", "completed"} # {} <=>
            \E k \in Queue!Jobs : RunOf[k] = RunOf[j] /\ job[k] \in {"in_progress", "completed"}
    OBVIOUS
  <1>3. Queue!RunStatus(RunOf[j]) =
            IF states \subseteq {"completed"} THEN "completed"
            ELSE IF states \cap {"in_progress", "completed"} # {} THEN "in_progress"
            ELSE IF "queued" \in states THEN "queued" ELSE "waiting"
    BY DEF Queue!RunStatus
  <1>4. QED
    <2> HIDE DEF states
    <2>1. QED
      BY <1>1, <1>2, <1>3

\* Nothing is collected yet, and every call is still to be made.
LEMMA QueueInitial == Queue!QueueInit => QueueInv
  <1> SUFFICES ASSUME Queue!QueueInit PROVE QueueInv
    OBVIOUS
  <1>1. /\ DOMAIN job = Queue!Jobs /\ trail = [j \in Queue!Jobs |-> {job[j]}]
        /\ collector = [step |-> "list", next |-> 1, found |-> {}, count |-> 1, lost |-> 0, partial |-> FALSE]
        /\ evidence = <<>>
    BY DEF Queue!QueueInit
  <1>2. Trails
    BY <1>1 DEF Trails
  <1>3. CollectorShape
    BY <1>1 DEF CollectorShape, Steps
  <1>4. Snapshots
    BY <1>1, NothingIsSequence DEF Snapshots
  <1>5. \A r : Comes(r)
    <2>1. \A i \in DOMAIN Repos : i \in Nat /\ i >= 1
      BY RepoNumbers
    <2>2. collector.next = 1
      BY <1>1
    <2>3. QED
      BY <2>1, <2>2 DEF Comes
  <1>6. NoneForgotten /\ QueueReported
    BY <1>1, <1>5 DEF NoneForgotten, QueueReported
  <1>7. QED
    BY <1>2, <1>3, <1>4, <1>6 DEF QueueInv

\* A job that goes on leaves the collector where it is; the runs of the jobs that
\* stay queued do not stop running.
LEMMA JobGoesOnStep == QueueInv /\ Queue!JobGoesOn => QueueInv'
  <1> SUFFICES ASSUME QueueInv, Queue!JobGoesOn PROVE QueueInv'
    OBVIOUS
  <1> USE DEF QueueInv
  <1>1. PICK g \in Queue!Jobs :
            /\ job[g] # "completed" /\ job' = [job EXCEPT ![g] = Queue!After[@]]
            /\ trail' = [trail EXCEPT ![g] = @ \cup {job'[g]}]
    BY DEF Queue!JobGoesOn
  <1>2. collector.step # "told" /\ UNCHANGED <<collector, evidence, queue_told>>
    BY DEF Queue!JobGoesOn
  <1>3. /\ DOMAIN job' = Queue!Jobs /\ DOMAIN trail' = Queue!Jobs
        /\ job'[g] = Queue!After[job[g]] /\ trail'[g] = trail[g] \cup {job'[g]}
        /\ \A j \in Queue!Jobs : j # g => job'[j] = job[j] /\ trail'[j] = trail[j]
    BY <1>1 DEF Trails
  <1>4. Trails'
    BY <1>3 DEF Trails
  <1>5. CollectorShape'
    BY <1>2 DEF CollectorShape
  <1>6. \A j \in Queue!Jobs : trail[j] \subseteq trail'[j]
    BY <1>3
  <1>7. Snapshots'
    <2>1. \A i \in DOMAIN evidence : Listed(evidence[i].jobs, evidence[i].run)'
      BY <1>2, <1>6 DEF Snapshots, Listed
    <2>2. QED
      BY <1>2, <2>1 DEF Snapshots, IsSequence
  <1>8. \A k \in Queue!Jobs : job[k] \in {"in_progress", "completed"} => job'[k] \in {"in_progress", "completed"}
    BY <1>1, <1>3 DEF Queue!After
  <1>9. ASSUME NEW j \in Queue!Jobs, trail'[j] = {"queued"}
        PROVE  /\ Steady(j) /\ job[j] = "queued"
               /\ Queue!RunStatus(RunOf[j]) = "in_progress" => Queue!RunStatus(RunOf[j])' = "in_progress"
    <2>1. job[j] = "queued" /\ job'[j] = "queued" /\ trail[j] = {"queued"}
      BY <1>4, <1>6, <1>9 DEF Trails
    <2>2. Queue!RunStatus(RunOf[j]) = "in_progress" =>
              \E k \in Queue!Jobs : RunOf[k] = RunOf[j] /\ job[k] \in {"in_progress", "completed"}
      BY <2>1, RunStates
    <2>3. (Queue!RunStatus(RunOf[j]) = "in_progress")' <=>
              \E k \in Queue!Jobs : RunOf[k] = RunOf[j] /\ job'[k] \in {"in_progress", "completed"}
      <3> DEFINE states == {job'[k] : k \in {i \in Queue!Jobs : RunOf[i] = RunOf[j]}} \ {"absent"}
      <3>1. "queued" \in states
        BY <2>1
      <3>2. states \cap {"in_progress", "completed"} # {} <=>
                \E k \in Queue!Jobs : RunOf[k] = RunOf[j] /\ job'[k] \in {"in_progress", "completed"}
        OBVIOUS
      <3>3. Queue!RunStatus(RunOf[j])' =
                IF states \subseteq {"completed"} THEN "completed"
                ELSE IF states \cap {"in_progress", "completed"} # {} THEN "in_progress"
                ELSE IF "queued" \in states THEN "queued" ELSE "waiting"
        BY DEF Queue!RunStatus
      <3>4. QED
        <4> HIDE DEF states
        <4>1. QED
          BY <3>1, <3>2, <3>3
    <2>4. QED
      BY <1>8, <2>1, <2>2, <2>3 DEF Steady
  <1>10. NoneForgotten'
    <2> SUFFICES ASSUME ~collector.partial, NEW j \in Queue!Jobs, Steady(j)'
                 PROVE  \/ Collected(j)'
                        \/ collector.step = "list" /\ Comes(RunOf[j])'
                        \/ collector.step = "jobs" /\ RunOf[j] \in collector.found
      BY <1>2 DEF NoneForgotten
    <2>1. Steady(j) /\ (Queue!RunStatus(RunOf[j]) = "in_progress" => Queue!RunStatus(RunOf[j])' = "in_progress")
      BY <1>9 DEF Steady
    <2>2. Collected(j) => Collected(j)'
      BY <1>2 DEF Collected
    <2>3. Comes(RunOf[j]) => Comes(RunOf[j])'
      BY <1>2, <2>1 DEF Comes
    <2>4. QED
      BY <2>1, <2>2, <2>3 DEF NoneForgotten
  <1>11. QueueReported'
    BY <1>2 DEF QueueReported
  <1>12. QED
    BY <1>4, <1>5, <1>7, <1>10, <1>11

\* There are two calls for each repository, the one for queued runs first.
LEMMA CallFacts ==
    /\ Len(Queue!Calls) = 2 * Len(Repos)
    /\ \A i \in DOMAIN Repos : /\ Queue!Calls[2 * i - 1] = [repo |-> Repos[i], status |-> "queued"]
                               /\ Queue!Calls[2 * i] = [repo |-> Repos[i], status |-> "in_progress"]
  <1> DEFINE n == 2 * Len(Repos)
             call(k) == [repo |-> Repos[(k + 1) \div 2], status |-> IF k % 2 = 1 THEN "queued" ELSE "in_progress"]
  <1>1. n \in Nat
    BY RepoNumbers
  <1>2. Queue!Calls = [k \in 1 .. n |-> call(k)]
    BY DEF Queue!Calls
  <1>3. Len(Queue!Calls) = n
    <2>1. PICK m \in Nat : m = n
      BY <1>1
    <2>2. PICK S : S = {call(k) : k \in 1 .. m}
      OBVIOUS
    <2>3. PICK f : f = Queue!Calls
      OBVIOUS
    <2>4. f \in [1 .. m -> S]
      BY <1>2, <2>1, <2>2, <2>3
    <2>5. f \in Seq(S) /\ DOMAIN f = 1 .. m
      BY <2>4
    <2>6. QED
      BY <2>1, <2>3, <2>5, LenProperties
  <1>4. ASSUME NEW i \in DOMAIN Repos
        PROVE  /\ Queue!Calls[2 * i - 1] = [repo |-> Repos[i], status |-> "queued"]
               /\ Queue!Calls[2 * i] = [repo |-> Repos[i], status |-> "in_progress"]
    <2>1. i \in Nat /\ i >= 1 /\ 2 * i - 1 \in 1 .. n /\ 2 * i \in 1 .. n
      BY RepoNumbers
    <2>2. ((2 * i - 1) + 1) \div 2 = i /\ (2 * i - 1) % 2 = 1
      BY <2>1
    <2>3. (2 * i + 1) \div 2 = i /\ (2 * i) % 2 = 0
      BY <2>1
    <2>4. Queue!Calls[2 * i - 1] = call(2 * i - 1) /\ Queue!Calls[2 * i] = call(2 * i)
      BY <1>2, <2>1
    <2>5. QED
      BY <2>2, <2>3, <2>4
  <1>5. QED
    BY <1>3, <1>4

\* A listing that is not cut short finds what has the status it asks for: first the
\* queued runs of a repository, then those that have begun to run since.
LEMMA ListStep ==
    ASSUME QueueInv, collector.step = "list", UNCHANGED <<job, trail, evidence, queue_told>>,
           NEW F \in SUBSET Queue!Runs, NEW P \in BOOLEAN, NEW gone,
           collector.found \subseteq F, collector.partial => P,
           collector' = Queue!Advanced([step |-> "list", next |-> collector.next, found |-> F,
                                        count |-> collector.count, lost |-> gone, partial |-> P]),
           ~P => \A r \in Queue!Runs : (/\ RepoOf[r] = Queue!Calls[collector.next].repo
                                        /\ Queue!RunStatus(r) = Queue!Calls[collector.next].status) => r \in F
    PROVE  QueueInv'
  <1> USE DEF QueueInv
  <1>1. PICK n \in Nat \ {0} : n = collector.next
    BY DEF CollectorShape
  <1>2. collector' = IF n < 2 * Len(Repos)
                     THEN [step |-> "list", next |-> n + 1, found |-> F, count |-> collector.count,
                           lost |-> gone, partial |-> P]
                     ELSE [step |-> "jobs", next |-> n, found |-> F, count |-> collector.count,
                           lost |-> gone, partial |-> P]
    <2>1. PICK c : c = [step |-> "list", next |-> n, found |-> F, count |-> collector.count,
                        lost |-> gone, partial |-> P]
      OBVIOUS
    <2>2. collector' = IF n < 2 * Len(Repos) THEN [c EXCEPT !.next = @ + 1] ELSE [c EXCEPT !.step = "jobs"]
      BY <1>1, <2>1, CallFacts DEF Queue!Advanced
    <2>3. QED
      BY <2>1, <2>2
  <1>3. /\ collector'.found = F /\ collector'.partial = P
        /\ \/ collector'.step = "list" /\ collector'.next = n + 1
           \/ collector'.step = "jobs" /\ collector'.next = n /\ ~(n < 2 * Len(Repos))
    BY <1>2
  <1>4. Trails'
    BY DEF Trails
  <1>5. CollectorShape'
    <2>1. collector' = [step |-> collector'.step, next |-> collector'.next, found |-> collector'.found,
                        count |-> collector'.count, lost |-> collector'.lost, partial |-> collector'.partial]
      BY <1>2
    <2>2. QED
      BY <1>3, <2>1 DEF CollectorShape, Steps
  <1>6. Snapshots'
    <2>1. \A i \in DOMAIN evidence : Listed(evidence[i].jobs, evidence[i].run)'
      BY DEF Snapshots, Listed
    <2>2. QED
      BY <2>1 DEF Snapshots, IsSequence
  <1>7. NoneForgotten'
    <2> SUFFICES ASSUME ~P, NEW j \in Queue!Jobs, Steady(j), ~Collected(j)
                 PROVE  \/ collector'.step = "list" /\ Comes(RunOf[j])'
                        \/ collector'.step = "jobs" /\ RunOf[j] \in F
      BY <1>3 DEF NoneForgotten, Steady, Collected
    <2>1. PICK r \in Queue!Runs : r = RunOf[j]
      BY AuditsAssumption DEF Queue!QueueAuditConstants
    <2>2. Comes(r) /\ ~collector.partial
      BY <2>1 DEF NoneForgotten
    <2>3. Queue!RunStatus(r) \in {"queued", "in_progress"}
      <3>1. job[j] = "queued"
        BY DEF Trails, Steady
      <3>2. QED
        BY <2>1, <3>1, RunStates
    <2>4. ASSUME NEW i \in DOMAIN Repos, Repos[i] = RepoOf[r]
          PROVE  /\ n >= 2 * i - 1 => r \in F \/ Queue!RunStatus(r) = "in_progress"
                 /\ n >= 2 * i => r \in F
      <3>1. i \in Nat
        BY RepoNumbers
      <3>2. /\ n > 2 * i - 1 => r \in F \/ Queue!RunStatus(r) = "in_progress"
            /\ n > 2 * i => r \in F
        BY <1>1, <2>2, <2>4 DEF Comes
      <3>3. n = 2 * i - 1 => r \in F \/ Queue!RunStatus(r) = "in_progress"
        <4> SUFFICES ASSUME n = 2 * i - 1, Queue!RunStatus(r) = "queued" PROVE r \in F
          BY <2>3
        <4>1. Queue!Calls[collector.next] = [repo |-> Repos[i], status |-> "queued"]
          BY <1>1, CallFacts
        <4>2. Queue!Calls[collector.next].repo = RepoOf[r] /\ Queue!Calls[collector.next].status = Queue!RunStatus(r)
          BY <2>4, <4>1
        <4>3. QED
          BY <4>2
      <3>4. n = 2 * i => r \in F
        <4>1. n = 2 * i => n > 2 * i - 1
          BY <3>1
        <4> SUFFICES ASSUME n = 2 * i, Queue!RunStatus(r) = "in_progress" PROVE r \in F
          BY <3>2, <4>1
        <4>2. Queue!Calls[collector.next] = [repo |-> Repos[i], status |-> "in_progress"]
          BY <1>1, CallFacts
        <4>3. Queue!Calls[collector.next].repo = RepoOf[r] /\ Queue!Calls[collector.next].status = Queue!RunStatus(r)
          BY <2>4, <4>2
        <4>4. QED
          BY <4>3
      <3>5. QED
        BY <3>1, <3>2, <3>3, <3>4
    <2>5. CASE collector'.step = "list" /\ collector'.next = n + 1
      <3>1. \A i \in DOMAIN Repos : Repos[i] = RepoOf[r] =>
                /\ n + 1 > 2 * i - 1 => r \in F \/ Queue!RunStatus(r) = "in_progress"
                /\ n + 1 > 2 * i => r \in F
        BY <2>4, RepoNumbers
      <3>2. Queue!RunStatus(r)' = Queue!RunStatus(r)
        BY DEF Queue!RunStatus
      <3>3. Comes(r)'
        BY <1>3, <2>5, <3>1, <3>2 DEF Comes
      <3>4. QED
        BY <2>1, <2>5, <3>3
    <2>6. CASE collector'.step = "jobs" /\ collector'.next = n /\ ~(n < 2 * Len(Repos))
      <3>1. PICK i \in DOMAIN Repos : Repos[i] = RepoOf[r]
        BY AuditsAssumption DEF Queue!QueueAuditConstants, Queue!ToSet
      <3>2. n >= 2 * i
        BY <2>6, RepoNumbers
      <3>3. QED
        BY <2>1, <2>4, <2>6, <3>1, <3>2
    <2>7. QED
      BY <1>3, <2>5, <2>6
  <1>8. QueueReported'
    BY <1>3 DEF QueueReported
  <1>9. QED
    BY <1>4, <1>5, <1>6, <1>7, <1>8

\* A listing that answers: unless it is cut short, all that matches is found.
LEMMA ListRunsStep == QueueInv /\ Queue!ListRuns => QueueInv'
  <1> SUFFICES ASSUME QueueInv, Queue!ListRuns PROVE QueueInv'
    OBVIOUS
  <1>1. PICK call : call = Queue!Calls[collector.next]
    OBVIOUS
  <1>2. PICK matching : matching = {r \in Queue!Runs : RepoOf[r] = call.repo /\ Queue!RunStatus(r) = call.status}
    OBVIOUS
  <1>3. PICK newest : newest = {r \in matching : Queue!Cardinality({s \in matching : s > r}) < QueueRunLimit}
    OBVIOUS
  <1>4. PICK F : F = collector.found \cup newest
    OBVIOUS
  <1>5. PICK P \in BOOLEAN : P = (collector.partial \/ newest # matching)
    OBVIOUS
  <1>6. collector.step = "list" /\ UNCHANGED <<job, trail, evidence, queue_told>>
    BY DEF Queue!ListRuns
  <1>7. collector' = Queue!Advanced([collector EXCEPT !.found = @ \cup newest,
                                                      !.partial = @ \/ newest # matching])
    BY <1>1, <1>2, <1>3 DEF Queue!ListRuns
  <1>8. [collector EXCEPT !.found = @ \cup newest, !.partial = @ \/ newest # matching]
            = [step |-> "list", next |-> collector.next, found |-> F, count |-> collector.count,
               lost |-> collector.lost, partial |-> P]
    <2>1. PICK c : c = [step |-> collector.step, next |-> collector.next, found |-> collector.found,
                        count |-> collector.count, lost |-> collector.lost, partial |-> collector.partial]
      OBVIOUS
    <2>2. collector = c
      BY <2>1 DEF QueueInv, CollectorShape
    <2>3. PICK d : d = [c EXCEPT !.found = F]
      OBVIOUS
    <2>4. d = [step |-> c.step, next |-> c.next, found |-> F, count |-> c.count,
               lost |-> c.lost, partial |-> c.partial]
      BY <2>1, <2>3
    <2>5. [d EXCEPT !.partial = P] = [step |-> c.step, next |-> c.next, found |-> F, count |-> c.count,
                                      lost |-> c.lost, partial |-> P]
      BY <2>4
    <2>6. [c EXCEPT !.found = @ \cup newest, !.partial = @ \/ newest # matching] = [d EXCEPT !.partial = P]
      <3>1. c.found \cup newest = F /\ (c.partial \/ newest # matching) = P
        BY <1>4, <1>5, <2>2
      <3>2. [c EXCEPT !.found = c.found \cup newest, !.partial = (c.partial \/ newest # matching)]
                = [c EXCEPT !.found = F, !.partial = P]
        BY <3>1, Zenon
      <3>3. [c EXCEPT !.found = F, !.partial = P] = [d EXCEPT !.partial = P]
        BY <2>3
      <3>4. QED
        BY <3>2, <3>3
    <2>7. QED
      BY <1>6, <2>2, <2>5, <2>6
  <1>9. F \in SUBSET Queue!Runs /\ collector.found \subseteq F /\ (collector.partial => P)
    BY <1>2, <1>3, <1>4, <1>5 DEF QueueInv, CollectorShape
  <1>10. ~P => matching \subseteq F
    BY <1>4, <1>5
  <1>11. ~P => \A r \in Queue!Runs : (/\ RepoOf[r] = Queue!Calls[collector.next].repo
                                      /\ Queue!RunStatus(r) = Queue!Calls[collector.next].status) => r \in F
    BY <1>1, <1>2, <1>10
  <1>12. QED
    BY <1>6, <1>7, <1>8, <1>9, <1>11, ListStep

\* A listing that fails: from then on nothing is promised.
LEMMA ListFailsStep == QueueInv /\ Queue!ListFails => QueueInv'
  <1> SUFFICES ASSUME QueueInv, Queue!ListFails PROVE QueueInv'
    OBVIOUS
  <1>1. collector.step = "list" /\ UNCHANGED <<job, trail, evidence, queue_told>>
    BY DEF Queue!ListFails
  <1>2. PICK gone : gone = collector.lost + 1
    OBVIOUS
  <1>3. PICK F : F = collector.found
    OBVIOUS
  <1>4. PICK P \in BOOLEAN : P = TRUE
    OBVIOUS
  <1>5. Queue!Lost(collector) = [step |-> "list", next |-> collector.next, found |-> F,
                                 count |-> collector.count, lost |-> gone, partial |-> P]
    <2>1. PICK c : c = [step |-> collector.step, next |-> collector.next, found |-> collector.found,
                        count |-> collector.count, lost |-> collector.lost, partial |-> collector.partial]
      OBVIOUS
    <2>2. collector = c
      BY <2>1 DEF QueueInv, CollectorShape
    <2>3. PICK d : d = [c EXCEPT !.lost = gone]
      OBVIOUS
    <2>4. d = [step |-> c.step, next |-> c.next, found |-> c.found, count |-> c.count,
               lost |-> gone, partial |-> c.partial]
      BY <2>1, <2>3
    <2>5. [d EXCEPT !.partial = P] = [step |-> c.step, next |-> c.next, found |-> c.found,
                                         count |-> c.count, lost |-> gone, partial |-> P]
      BY <2>4
    <2>6. [c EXCEPT !.lost = @ + 1, !.partial = TRUE] = [d EXCEPT !.partial = P]
      <3>1. c.lost + 1 = gone
        BY <1>2, <2>2
      <3>2. [c EXCEPT !.lost = c.lost + 1, !.partial = TRUE] = [c EXCEPT !.lost = gone, !.partial = P]
        BY <1>4, <3>1, Zenon
      <3>3. [c EXCEPT !.lost = gone, !.partial = P] = [d EXCEPT !.partial = P]
        BY <2>3
      <3>4. QED
        BY <3>2, <3>3
    <2>7. QED
      BY <1>1, <1>3, <2>2, <2>5, <2>6 DEF Queue!Lost
  <1>6. collector' = Queue!Advanced([step |-> "list", next |-> collector.next, found |-> F,
                                     count |-> collector.count, lost |-> gone, partial |-> P])
    BY <1>5 DEF Queue!ListFails
  <1>7. F \in SUBSET Queue!Runs /\ collector.found \subseteq F
    BY <1>3 DEF QueueInv, CollectorShape
  <1>8. QED
    BY <1>1, <1>4, <1>6, <1>7, ListStep

\* The operators of the library are the same for both audits.
LEMMA SameOperators ==
    ASSUME NEW S
    PROVE  Queue!SetToSeq(S) = Fleet!SetToSeq(S) /\ Queue!Min(S) = Fleet!Min(S)
  BY DEF Queue!SetToSeq, Fleet!SetToSeq, Queue!IsInjective, Fleet!IsInjective, Queue!Cardinality,
         Fleet!Cardinality, Queue!Min, Fleet!Min

\* The next run to fetch is one that was found.
LEMMA NextToFetch ==
    ASSUME QueueInv, collector.found # {}
    PROVE  Queue!Min(collector.found) \in collector.found
  <1>1. collector.found \subseteq Nat
    BY AuditsAssumption DEF QueueInv, CollectorShape, Queue!QueueAuditConstants
  <1>2. QED
    BY <1>1, MinFacts, SameOperators

\* A snapshot joins the evidence; the jobs it holds are listed once each.
LEMMA SnapshotTaken ==
    ASSUME QueueInv, UNCHANGED <<job, trail, queue_told>>, NEW jobs, NEW r, Listed(jobs, r),
           evidence' = Append(evidence, [run |-> r, jobs |-> jobs])
    PROVE  /\ Trails' /\ Snapshots'
           /\ \A j \in Queue!Jobs : Collected(j) => Collected(j)'
           /\ \A j \in Queue!Jobs : (RunOf[j] = r /\ \E k \in DOMAIN jobs : jobs[k].job = j) => Collected(j)'
  <1>1. PICK e : e = [run |-> r, jobs |-> jobs]
    OBVIOUS
  <1>2. IsSequence(evidence) /\ \A i \in DOMAIN evidence : Listed(evidence[i].jobs, evidence[i].run)
    BY DEF QueueInv, Snapshots
  <1>3. /\ IsSequence(evidence') /\ Len(evidence) \in Nat /\ DOMAIN evidence = 1 .. Len(evidence)
        /\ DOMAIN evidence' = 1 .. Len(evidence) + 1 /\ evidence'[Len(evidence) + 1] = e
        /\ \A i \in 1 .. Len(evidence) : evidence'[i] = evidence[i]
    BY <1>1, <1>2, GrowFacts
  <1>4. \A i \in DOMAIN evidence' : Listed(evidence'[i].jobs, evidence'[i].run)
    <2>1. \A i \in DOMAIN evidence' : i \in 1 .. Len(evidence) \/ i = Len(evidence) + 1
      BY <1>3
    <2>2. QED
      BY <1>1, <1>2, <1>3, <2>1
  <1>5. \A i \in DOMAIN evidence' : Listed(evidence[i].jobs, evidence[i].run)'
    BY <1>4 DEF Listed
  <1>6. Trails' /\ Snapshots'
    BY <1>3, <1>5 DEF QueueInv, Trails, Snapshots, IsSequence
  <1>7. \A j \in Queue!Jobs : Collected(j) => Collected(j)'
    BY <1>3 DEF Collected
  <1>8. \A j \in Queue!Jobs : (RunOf[j] = r /\ \E k \in DOMAIN jobs : jobs[k].job = j) => Collected(j)'
    <2>1. Len(evidence) + 1 \in DOMAIN evidence'
      BY <1>3
    <2>2. QED
      BY <1>1, <1>3, <2>1 DEF Collected
  <1>9. QED
    BY <1>6, <1>7, <1>8

\* Entries that are listed stand once each in a list, and nothing else does.
Entries(E, r) ==
    /\ IsFiniteSet(E)
    /\ \A e \in E : /\ e = [job |-> e.job, status |-> e.status]
                    /\ e.job \in Queue!Jobs /\ RunOf[e.job] = r /\ e.status \in trail[e.job]

LEMMA EntriesListed ==
    ASSUME NEW E, NEW r, Entries(E, r)
    PROVE  /\ Listed(Queue!SetToSeq(E), r)
           /\ \A i \in DOMAIN Queue!SetToSeq(E) : Queue!SetToSeq(E)[i] \in E
           /\ \A e \in E : \E i \in DOMAIN Queue!SetToSeq(E) : Queue!SetToSeq(E)[i] = e
  <1>1. IsFiniteSet(E)
    BY DEF Entries
  <1>2. PICK n : n = Cardinality(E)
    OBVIOUS
  <1>3. PICK s : s = Queue!SetToSeq(E)
    OBVIOUS
  <1>4. /\ n \in Nat /\ s \in [1 .. n -> E]
        /\ \A a, b \in 1 .. n : s[a] = s[b] => a = b
        /\ \A x \in E : \E i \in 1 .. n : s[i] = x
    BY <1>1, <1>2, <1>3, SameOperators, ListedOnce
  <1>5. DOMAIN s = 1 .. n /\ IsFiniteSet(1 .. n)
    BY <1>4, FS_Interval
  <1>6. \A i \in DOMAIN s : s[i] \in E
    BY <1>4
  <1>7. Listed(s, r)
    BY <1>4, <1>5, <1>6 DEF Listed, Entries
  <1>8. QED
    BY <1>3, <1>4, <1>5, <1>6, <1>7

\* A set that a function of a finite set takes on is finite.
LEMMA TakenFinite ==
    ASSUME NEW S, IsFiniteSet(S), NEW f, DOMAIN f = S
    PROVE  IsFiniteSet({f[x] : x \in S})
  <1>1. PICK T : T = {f[x] : x \in S}
    OBVIOUS
  <1>2. PICK g : g = [x \in S |-> f[x]]
    OBVIOUS
  <1>3. g \in Surjection(S, T)
    BY <1>1, <1>2 DEF Surjection
  <1>4. QED
    BY <1>1, <1>3, FS_Surjection

\* What is fetched of a run: each of its jobs that exists, as it is now.
LEMMA FetchedEntries ==
    ASSUME QueueInv, NEW r, NEW K, K = {k \in Queue!Jobs : RunOf[k] = r /\ job[k] # "absent"},
           NEW E, E = {[job |-> j, status |-> job[j]] : j \in K}
    PROVE  Entries(E, r) /\ \A j \in K : \E e \in E : e.job = j
  <1>1. IsFiniteSet(K)
    <2>1. IsFiniteSet(Queue!Jobs)
      BY AuditsAssumption DEF Queue!QueueAuditConstants, Queue!IsFiniteSet, IsFiniteSet
    <2>2. QED
      BY <2>1, FS_Subset
  <1>2. IsFiniteSet(E)
    <2>1. PICK f : f = [j \in K |-> [job |-> j, status |-> job[j]]]
      OBVIOUS
    <2>2. E = {f[j] : j \in K}
      BY <2>1
    <2>3. QED
      BY <1>1, <2>1, <2>2, TakenFinite
  <1>3. \A j \in K : job[j] \in trail[j]
    BY DEF QueueInv, Trails
  <1>4. ASSUME NEW e \in E
        PROVE  /\ e = [job |-> e.job, status |-> e.status]
               /\ e.job \in Queue!Jobs /\ RunOf[e.job] = r /\ e.status \in trail[e.job]
    <2>1. PICK j \in K : e = [job |-> j, status |-> job[j]]
      OBVIOUS
    <2>2. e.job = j /\ e.status = job[j]
      BY <2>1
    <2>3. QED
      BY <1>3, <2>1, <2>2
  <1>5. \A j \in K : \E e \in E : e.job = j
    <2> SUFFICES ASSUME NEW j \in K PROVE \E e \in E : e.job = j
      OBVIOUS
    <2>1. [job |-> j, status |-> job[j]] \in E
      OBVIOUS
    <2>2. QED
      BY <2>1
  <1>6. QED
    BY <1>2, <1>4, <1>5 DEF Entries

\* The jobs of a run are had: those that are queued all along are among them.
LEMMA FetchJobsStep == QueueInv /\ Queue!FetchJobs => QueueInv'
  <1> SUFFICES ASSUME QueueInv, Queue!FetchJobs PROVE QueueInv'
    OBVIOUS
  <1>1. PICK r : r = Queue!Min(collector.found)
    OBVIOUS
  <1>2. collector.step = "jobs" /\ collector.found # {} /\ r \in collector.found
    BY <1>1, NextToFetch DEF Queue!FetchJobs
  <1>3. PICK K : K = {k \in Queue!Jobs : RunOf[k] = r /\ job[k] # "absent"}
    OBVIOUS
  <1>4. PICK E : E = {[job |-> j, status |-> job[j]] : j \in K}
    OBVIOUS
  <1>5. PICK jobs : jobs = Queue!SetToSeq(E)
    OBVIOUS
  <1>6. Entries(E, r) /\ \A j \in K : \E e \in E : e.job = j
    BY <1>3, <1>4, FetchedEntries
  <1>7. Listed(jobs, r) /\ \A j \in K : \E i \in DOMAIN jobs : jobs[i].job = j
    BY <1>5, <1>6, EntriesListed
  <1>8. evidence' = Append(evidence, [run |-> r, jobs |-> jobs]) /\ UNCHANGED <<job, trail, queue_told>>
    BY <1>1, <1>3, <1>4, <1>5 DEF Queue!FetchJobs, Queue!Snapshot
  <1>9. /\ Trails' /\ Snapshots'
        /\ \A j \in Queue!Jobs : Collected(j) => Collected(j)'
        /\ \A j \in Queue!Jobs : (RunOf[j] = r /\ \E k \in DOMAIN jobs : jobs[k].job = j) => Collected(j)'
    BY <1>7, <1>8, SnapshotTaken
  <1>10. collector' = [collector EXCEPT !.found = collector.found \ {r}]
    BY <1>1 DEF Queue!FetchJobs
  <1>11. CollectorShape' /\ collector'.step = "jobs" /\ collector'.partial = collector.partial
         /\ collector'.found = collector.found \ {r}
    BY <1>2, <1>10 DEF QueueInv, CollectorShape
  <1>12. NoneForgotten'
    <2> SUFFICES ASSUME ~collector.partial, NEW j \in Queue!Jobs, Steady(j)
                 PROVE  Collected(j)' \/ RunOf[j] \in collector.found \ {r}
      BY <1>8, <1>11 DEF NoneForgotten, Steady
    <2>1. Collected(j) \/ RunOf[j] \in collector.found
      BY <1>2 DEF QueueInv, NoneForgotten
    <2>2. CASE Collected(j)
      BY <1>9, <2>2
    <2>3. CASE RunOf[j] = r
      <3>1. job[j] = "queued"
        BY DEF QueueInv, Trails, Steady
      <3>2. QED
        BY <1>3, <1>7, <1>9, <2>3, <3>1
    <2>4. QED
      BY <2>1, <2>2, <2>3
  <1>13. QueueReported'
    BY <1>11 DEF QueueReported
  <1>14. QED
    BY <1>9, <1>11, <1>12, <1>13 DEF QueueInv

\* The jobs of a run cannot be had: from then on nothing is promised.
LEMMA FetchFailsStep == QueueInv /\ Queue!FetchFails => QueueInv'
  <1> SUFFICES ASSUME QueueInv, Queue!FetchFails PROVE QueueInv'
    OBVIOUS
  <1>1. PICK r : r = Queue!Min(collector.found)
    OBVIOUS
  <1>2. PICK jobs : jobs = Queue!SetToSeq({})
    OBVIOUS
  <1>3. Listed(jobs, r)
    <2>1. Entries({}, r)
      BY FS_EmptySet DEF Entries
    <2>2. QED
      BY <1>2, <2>1, EntriesListed
  <1>4. evidence' = Append(evidence, [run |-> r, jobs |-> jobs]) /\ UNCHANGED <<job, trail, queue_told>>
    BY <1>1, <1>2 DEF Queue!FetchFails, Queue!Snapshot
  <1>5. Trails' /\ Snapshots'
    BY <1>3, <1>4, SnapshotTaken
  <1>6. collector.step = "jobs"
    BY DEF Queue!FetchFails
  <1>7. PICK c : c = [collector EXCEPT !.found = collector.found \ {r}]
    OBVIOUS
  <1>8. collector' = [c EXCEPT !.lost = c.lost + 1, !.partial = TRUE]
    BY <1>1, <1>7 DEF Queue!FetchFails, Queue!Lost
  <1>9. c = [step |-> "jobs", next |-> collector.next, found |-> collector.found \ {r},
             count |-> collector.count, lost |-> collector.lost, partial |-> collector.partial]
    BY <1>6, <1>7 DEF QueueInv, CollectorShape
  <1>10. CollectorShape' /\ collector'.step = "jobs" /\ collector'.partial
    <2>1. PICK d : d = [c EXCEPT !.lost = c.lost + 1]
      OBVIOUS
    <2>2. d = [step |-> "jobs", next |-> collector.next, found |-> collector.found \ {r},
               count |-> collector.count, lost |-> c.lost + 1, partial |-> collector.partial]
      BY <1>9, <2>1
    <2>3. PICK P \in BOOLEAN : P = TRUE
      OBVIOUS
    <2>4. collector' = [d EXCEPT !.partial = P]
      <3>1. collector' = [c EXCEPT !.lost = c.lost + 1, !.partial = P]
        BY <1>8, <2>3, Zenon
      <3>2. QED
        BY <2>1, <3>1
    <2>5. collector' = [step |-> "jobs", next |-> collector.next, found |-> collector.found \ {r},
                        count |-> collector.count, lost |-> c.lost + 1, partial |-> P]
      BY <2>2, <2>4
    <2>6. PICK x : x = collector'
      OBVIOUS
    <2>7. /\ x = [step |-> x.step, next |-> x.next, found |-> x.found,
                  count |-> x.count, lost |-> x.lost, partial |-> x.partial]
          /\ x.step = "jobs" /\ x.next = collector.next /\ x.found = collector.found \ {r} /\ x.partial = P
      BY <2>5, <2>6
    <2>8. QED
      BY <2>3, <2>6, <2>7 DEF QueueInv, CollectorShape, Steps
  <1>11. NoneForgotten' /\ QueueReported'
    BY <1>10 DEF NoneForgotten, QueueReported
  <1>12. QED
    BY <1>5, <1>10, <1>11 DEF QueueInv

\* Another collection: by then every run that was found has been fetched.
LEMMA CollectAgainStep == QueueInv /\ Queue!CollectAgain => QueueInv'
  <1> SUFFICES ASSUME QueueInv, Queue!CollectAgain PROVE QueueInv'
    OBVIOUS
  <1>1. collector.step = "jobs" /\ collector.found = {} /\ UNCHANGED <<job, trail, evidence, queue_told>>
    BY DEF Queue!CollectAgain
  <1>2. PICK c : c = [collector EXCEPT !.step = "list"]
    OBVIOUS
  <1>3. c = [step |-> "list", next |-> collector.next, found |-> {}, count |-> collector.count,
             lost |-> collector.lost, partial |-> collector.partial]
    BY <1>1, <1>2 DEF QueueInv, CollectorShape
  <1>4. PICK d : d = [c EXCEPT !.next = 1]
    OBVIOUS
  <1>5. d = [step |-> "list", next |-> 1, found |-> {}, count |-> collector.count,
             lost |-> collector.lost, partial |-> collector.partial]
    BY <1>3, <1>4
  <1>6. collector' = [d EXCEPT !.count = collector.count + 1]
    BY <1>2, <1>4 DEF Queue!CollectAgain
  <1>7. collector' = [step |-> "list", next |-> 1, found |-> {}, count |-> collector.count + 1,
                      lost |-> collector.lost, partial |-> collector.partial]
    BY <1>5, <1>6
  <1>8. CollectorShape' /\ collector'.step = "list" /\ collector'.partial = collector.partial
    BY <1>7 DEF QueueInv, CollectorShape, Steps
  <1>9. Trails' /\ Snapshots'
    <2>1. \A i \in DOMAIN evidence : Listed(evidence[i].jobs, evidence[i].run)'
      BY <1>1 DEF QueueInv, Snapshots, Listed
    <2>2. QED
      BY <1>1, <2>1 DEF QueueInv, Trails, Snapshots, IsSequence
  <1>10. NoneForgotten' /\ QueueReported'
    BY <1>1, <1>8 DEF QueueInv, NoneForgotten, QueueReported, Steady, Collected
  <1>11. QED
    BY <1>8, <1>9, <1>10 DEF QueueInv

\* The report is told; nothing else changes.
LEMMA QueueAuditStep == QueueInv /\ Queue!QueueAudit => QueueInv'
  <1> SUFFICES ASSUME QueueInv, Queue!QueueAudit PROVE QueueInv'
    OBVIOUS
  <1>1. collector.step = "jobs" /\ collector.found = {} /\ UNCHANGED <<job, trail, evidence>>
    BY DEF Queue!QueueAudit
  <1>2. collector' = [collector EXCEPT !.step = "told"]
    BY DEF Queue!QueueAudit
  <1>3. CollectorShape' /\ collector'.step = "told" /\ collector'.partial = collector.partial
    BY <1>2 DEF QueueInv, CollectorShape, Steps
  <1>4. Trails' /\ Snapshots'
    <2>1. \A i \in DOMAIN evidence : Listed(evidence[i].jobs, evidence[i].run)'
      BY <1>1 DEF QueueInv, Snapshots, Listed
    <2>2. QED
      BY <1>1, <2>1 DEF QueueInv, Trails, Snapshots, IsSequence
  <1>5. NoneForgotten'
    BY <1>1, <1>3 DEF QueueInv, NoneForgotten, Steady, Collected
  <1>6. QueueReported'
    <2>1. PICK r : r = Queue!QueueReport(evidence)
      OBVIOUS
    <2>2. queue_told' = [active |-> r.active, queued |-> r.queued, nonlocal |-> r.nonlocal,
                         exit |-> IF r.missing = {} THEN "ok" ELSE "failed"]
      BY <2>1 DEF Queue!QueueAudit
    <2>3. Queue!QueueReport(evidence') = r
      BY <1>1, <2>1
    <2>4. QED
      BY <2>2, <2>3 DEF QueueReported
  <1>7. QED
    BY <1>3, <1>4, <1>5, <1>6 DEF QueueInv

\* The step taken, one case for each action.
LEMMA QueueKept == QueueInv /\ [Queue!QueueNext]_queueVars => QueueInv'
  <1> SUFFICES ASSUME QueueInv, [Queue!QueueNext]_queueVars PROVE QueueInv'
    OBVIOUS
  <1>1. ASSUME UNCHANGED queueVars PROVE QueueInv'
    <2>1. UNCHANGED <<job, trail, collector, evidence, queue_told>>
      BY <1>1 DEF queueVars
    <2>2. \A i \in DOMAIN evidence : Listed(evidence[i].jobs, evidence[i].run)'
      BY <2>1 DEF QueueInv, Snapshots, Listed
    <2>3. Trails' /\ CollectorShape' /\ Snapshots' /\ QueueReported'
      BY <2>1, <2>2 DEF QueueInv, Trails, CollectorShape, Snapshots, IsSequence, QueueReported
    <2>4. NoneForgotten'
      BY <2>1 DEF QueueInv, NoneForgotten, Steady, Collected, Comes, Queue!RunStatus
    <2>5. QED
      BY <2>3, <2>4 DEF QueueInv
  <1>2. ASSUME Queue!QueueDone PROVE UNCHANGED queueVars
    BY <1>2 DEF Queue!QueueDone, Queue!queueVars, queueVars
  <1>3. QED
    BY <1>1, <1>2, JobGoesOnStep, ListRunsStep, ListFailsStep, FetchJobsStep, FetchFailsStep,
       CollectAgainStep, QueueAuditStep
       DEF Queue!QueueNext

\* The queue audit, too, goes on by its own steps.
LEMMA QueueRuns ==
    /\ Init => (subject = "queue" => QueueInv)
    /\ [Next]_vars => subject' = subject /\ (subject = "queue" => [Queue!QueueNext]_queueVars)
  <1>1. Init => (subject = "queue" => QueueInv)
    BY QueueInitial DEF Init
  <1>2. [Next]_vars => subject' = subject /\ (subject = "queue" => [Queue!QueueNext]_queueVars)
    BY DEF Next, HistoryStep, QueueStep, FleetStep, CycleStep, RepoStep, StartStep, TrailStep, CliStep, vars
  <1>3. QED
    BY <1>1, <1>2

-----------------------------------------------------------------------------
(* The report.                                                             *)

\* A union, over a finite set, of sets that are finite.
LEMMA GatheredFinite ==
    ASSUME NEW S, IsFiniteSet(S), NEW f, DOMAIN f = S, \A x \in S : IsFiniteSet(f[x])
    PROVE  IsFiniteSet(UNION {f[x] : x \in S})
  <1>1. PICK T : T = {f[x] : x \in S}
    OBVIOUS
  <1>2. IsFiniteSet(T)
    BY <1>1, TakenFinite
  <1>3. \A t \in T : IsFiniteSet(t)
    BY <1>1
  <1>4. QED
    BY <1>1, <1>2, <1>3, FS_UNION

\* The merge keeps what the snapshots hold, once each.
LEMMA MergeFacts ==
    ASSUME QueueInv, NEW merged, merged = Queue!DedupeRuns(evidence)
    PROVE  /\ IsFiniteSet(DOMAIN merged)
           /\ \A r \in DOMAIN merged : Listed(merged[r], r)
           /\ \A i \in DOMAIN evidence : \A k \in DOMAIN evidence[i].jobs :
                  /\ evidence[i].run \in DOMAIN merged
                  /\ \E m \in DOMAIN merged[evidence[i].run] : merged[evidence[i].run][m] = evidence[i].jobs[k]
  <1>1. PICK ev : ev = evidence
    OBVIOUS
  <1>2. IsSequence(ev) /\ \A i \in DOMAIN ev : Listed(ev[i].jobs, ev[i].run)
    BY <1>1 DEF QueueInv, Snapshots
  <1>3. Len(ev) \in Nat /\ DOMAIN ev = 1 .. Len(ev)
    BY <1>2, GrowFacts
  <1>4. IsFiniteSet(DOMAIN ev)
    BY <1>3, FS_Interval
  <1>5. DOMAIN merged = {ev[i].run : i \in DOMAIN ev}
    BY <1>1 DEF Queue!DedupeRuns
  <1>6. IsFiniteSet(DOMAIN merged)
    <2>1. PICK f : f = [i \in DOMAIN ev |-> ev[i].run]
      OBVIOUS
    <2>2. DOMAIN merged = {f[i] : i \in DOMAIN ev}
      BY <1>5, <2>1
    <2>3. QED
      BY <1>4, <2>1, <2>2, TakenFinite
  <1>7. ASSUME NEW r \in DOMAIN merged
        PROVE  /\ Listed(merged[r], r)
               /\ \A i \in DOMAIN ev : ev[i].run = r =>
                      \A k \in DOMAIN ev[i].jobs : \E m \in DOMAIN merged[r] : merged[r][m] = ev[i].jobs[k]
    <2>1. PICK those : those = {i \in DOMAIN ev : ev[i].run = r}
      OBVIOUS
    <2>2. those # {} /\ those \subseteq Nat /\ those \subseteq DOMAIN ev
      BY <1>3, <1>5, <2>1
    <2>3. Queue!Min(those) \in those
      BY <2>2, MinFacts, SameOperators
    <2>4. PICK E : E = UNION {Queue!ToSet(ev[i].jobs) : i \in those}
      OBVIOUS
    <2>5. merged[r] = IF those = {Queue!Min(those)} THEN ev[Queue!Min(those)].jobs ELSE Queue!SetToSeq(E)
      BY <1>1, <1>5, <2>1, <2>4 DEF Queue!DedupeRuns, Queue!DedupeJobs
    <2>6. CASE those = {Queue!Min(those)}
      <3>1. PICK i : i = Queue!Min(those)
        OBVIOUS
      <3>2. merged[r] = ev[i].jobs /\ ev[i].run = r /\ i \in DOMAIN ev
        BY <2>1, <2>3, <2>5, <2>6, <3>1
      <3>3. \A k \in DOMAIN ev : ev[k].run = r => k = i
        BY <2>1, <2>6, <3>1
      <3>4. QED
        BY <1>2, <3>2, <3>3
    <2>7. CASE those # {Queue!Min(those)}
      <3>1. Entries(E, r)
        <4>1. \A i \in those : IsFiniteSet(Queue!ToSet(ev[i].jobs))
          <5> SUFFICES ASSUME NEW i \in those PROVE IsFiniteSet(Queue!ToSet(ev[i].jobs))
            OBVIOUS
          <5>1. PICK jobs : jobs = ev[i].jobs
            OBVIOUS
          <5>2. IsFiniteSet(DOMAIN jobs)
            BY <1>2, <2>2, <5>1 DEF Listed
          <5>3. IsFiniteSet({jobs[k] : k \in DOMAIN jobs})
            BY <5>2, TakenFinite
          <5>4. QED
            BY <5>1, <5>3 DEF Queue!ToSet
        <4>2. IsFiniteSet(E)
          <5>1. PICK f : f = [i \in those |-> Queue!ToSet(ev[i].jobs)]
            OBVIOUS
          <5>2. E = UNION {f[i] : i \in those}
            BY <2>4, <5>1
          <5>3. IsFiniteSet(those)
            BY <1>4, <2>2, FS_Subset
          <5>4. \A i \in those : IsFiniteSet(f[i])
            BY <4>1, <5>1
          <5>5. QED
            BY <5>1, <5>2, <5>3, <5>4, GatheredFinite
        <4>3. ASSUME NEW e \in E
              PROVE  /\ e = [job |-> e.job, status |-> e.status]
                     /\ e.job \in Queue!Jobs /\ RunOf[e.job] = r /\ e.status \in trail[e.job]
          <5>1. PICK i \in those : e \in Queue!ToSet(ev[i].jobs)
            BY <2>4
          <5>2. PICK k \in DOMAIN ev[i].jobs : e = ev[i].jobs[k]
            BY <5>1 DEF Queue!ToSet
          <5>3. Listed(ev[i].jobs, r)
            BY <1>2, <2>1
          <5>4. QED
            BY <5>2, <5>3 DEF Listed
        <4>4. QED
          BY <4>2, <4>3 DEF Entries
      <3>2. merged[r] = Queue!SetToSeq(E)
        BY <2>5, <2>7
      <3>3. Listed(merged[r], r) /\ \A e \in E : \E m \in DOMAIN merged[r] : merged[r][m] = e
        BY <3>1, <3>2, EntriesListed
      <3>4. ASSUME NEW i \in DOMAIN ev, ev[i].run = r, NEW k \in DOMAIN ev[i].jobs
            PROVE  ev[i].jobs[k] \in E
        BY <2>1, <2>4, <3>4 DEF Queue!ToSet
      <3>5. QED
        BY <3>3, <3>4
    <2>8. QED
      BY <2>6, <2>7
  <1>8. ASSUME NEW i \in DOMAIN ev, NEW k \in DOMAIN ev[i].jobs
        PROVE  /\ ev[i].run \in DOMAIN merged
               /\ \E m \in DOMAIN merged[ev[i].run] : merged[ev[i].run][m] = ev[i].jobs[k]
    <2>1. PICK r \in DOMAIN merged : r = ev[i].run
      BY <1>5
    <2>2. QED
      BY <1>7, <2>1
  <1>9. QED
    BY <1>1, <1>6, <1>7, <1>8

\* What is chosen stands at a place of the merge; what has the state and asks for the
\* labels is chosen.
LEMMA ChosenFacts ==
    ASSUME QueueInv, NEW merged, merged = Queue!DedupeRuns(evidence), NEW statuses, NEW local \in BOOLEAN,
           NEW chosen, chosen = Queue!Chosen(merged, statuses, local)
    PROVE  /\ IsFiniteSet(DOMAIN chosen)
           /\ \A p \in DOMAIN chosen : \E r \in DOMAIN merged : \E i \in DOMAIN merged[r] :
                  p = <<r, i>> /\ chosen[p] = merged[r][i]
           /\ \A r \in DOMAIN merged : \A i \in DOMAIN merged[r] :
                  (merged[r][i].status \in statuses /\ (Queue!HasLocalLabels(merged[r][i].job) <=> local))
                      => <<r, i>> \in DOMAIN chosen /\ chosen[<<r, i>>] = merged[r][i]
  <1>1. PICK places : places = UNION {{<<r, i>> : i \in DOMAIN merged[r]} : r \in DOMAIN merged}
    OBVIOUS
  <1>2. IsFiniteSet(DOMAIN merged) /\ \A r \in DOMAIN merged : IsFiniteSet(DOMAIN merged[r])
    BY MergeFacts DEF Listed
  <1>3. IsFiniteSet(places)
    <2>1. PICK f : f = [r \in DOMAIN merged |-> {<<r, i>> : i \in DOMAIN merged[r]}]
      OBVIOUS
    <2>2. ASSUME NEW r \in DOMAIN merged PROVE IsFiniteSet(f[r])
      <3>1. PICK g : g = [i \in DOMAIN merged[r] |-> <<r, i>>]
        OBVIOUS
      <3>2. f[r] = {g[i] : i \in DOMAIN merged[r]}
        BY <2>1, <3>1
      <3>3. QED
        BY <1>2, <3>1, <3>2, TakenFinite
    <2>3. places = UNION {f[r] : r \in DOMAIN merged}
      BY <1>1, <2>1
    <2>4. IsFiniteSet(UNION {f[r] : r \in DOMAIN merged})
      <3>1. PICK D : D = DOMAIN merged
        OBVIOUS
      <3>2. IsFiniteSet(D) /\ DOMAIN f = D /\ \A r \in D : IsFiniteSet(f[r])
        BY <1>2, <2>1, <2>2, <3>1
      <3>3. IsFiniteSet(UNION {f[r] : r \in D})
        BY <3>2, GatheredFinite
      <3>4. QED
        BY <3>1, <3>3
    <2>5. QED
      BY <2>3, <2>4
  <1>4. /\ DOMAIN chosen = {q \in places : /\ Queue!HasLocalLabels(merged[q[1]][q[2]].job) <=> local
                                           /\ merged[q[1]][q[2]].status \in statuses}
        /\ \A p \in DOMAIN chosen : chosen[p] = merged[p[1]][p[2]]
    BY <1>1 DEF Queue!Chosen
  <1>5. IsFiniteSet(DOMAIN chosen)
    BY <1>3, <1>4, FS_Subset
  <1>6. \A p \in DOMAIN chosen : \E r \in DOMAIN merged : \E i \in DOMAIN merged[r] :
            p = <<r, i>> /\ chosen[p] = merged[r][i]
    <2> SUFFICES ASSUME NEW p \in DOMAIN chosen
                 PROVE  \E r \in DOMAIN merged : \E i \in DOMAIN merged[r] : p = <<r, i>> /\ chosen[p] = merged[r][i]
      OBVIOUS
    <2>1. p \in places /\ chosen[p] = merged[p[1]][p[2]]
      BY <1>4
    <2>2. PICK r \in DOMAIN merged : p \in {<<r, i>> : i \in DOMAIN merged[r]}
      BY <1>1, <2>1
    <2>3. PICK i \in DOMAIN merged[r] : p = <<r, i>>
      BY <2>2
    <2>4. QED
      BY <2>1, <2>3
  <1>7. ASSUME NEW r \in DOMAIN merged, NEW i \in DOMAIN merged[r], merged[r][i].status \in statuses,
               Queue!HasLocalLabels(merged[r][i].job) <=> local
        PROVE  <<r, i>> \in DOMAIN chosen /\ chosen[<<r, i>>] = merged[r][i]
    <2>1. PICK q : q = <<r, i>>
      OBVIOUS
    <2>2. q \in places /\ q[1] = r /\ q[2] = i
      BY <1>1, <2>1
    <2>3. q \in DOMAIN chosen
      BY <1>4, <1>7, <2>2
    <2>4. QED
      BY <1>4, <2>1, <2>2, <2>3
  <1>8. QED
    BY <1>5, <1>6, <1>7

LEMMA QueueCardinality == \A S : Queue!Cardinality(S) = Cardinality(S)
  BY DEF Queue!Cardinality, Cardinality

\* What is told was so.
LEMMA ChosenWas ==
    ASSUME QueueInv, NEW merged, merged = Queue!DedupeRuns(evidence), NEW statuses, NEW local \in BOOLEAN,
           NEW chosen, chosen = Queue!Chosen(merged, statuses, local)
    PROVE  \A p \in DOMAIN chosen : chosen[p].status \in trail[chosen[p].job]
  <1>1. \A p \in DOMAIN chosen : \E r \in DOMAIN merged : \E i \in DOMAIN merged[r] :
            p = <<r, i>> /\ chosen[p] = merged[r][i]
    BY ChosenFacts
  <1>2. \A r \in DOMAIN merged : Listed(merged[r], r)
    BY MergeFacts
  <1>3. QED
    BY <1>1, <1>2 DEF Listed

\* The queued jobs of local runners, as the report tells them.
LocalQueue == Queue!Chosen(Queue!DedupeRuns(evidence), Queue!QueuedStatus, TRUE)

\* A local job that stayed queued is queued at one place at most, and at one if it is collected.
LEMMA SteadyChosen ==
    ASSUME QueueInv, NEW queued, queued = LocalQueue,
           NEW j \in Queue!Jobs, Queue!HasLocalLabels(j), Steady(j),
           NEW at, at = {p \in DOMAIN queued : queued[p].job = j}
    PROVE  /\ \A p, q \in at : p = q
           /\ Collected(j) => at # {}
  <1>0. PICK merged : merged = Queue!DedupeRuns(evidence)
    OBVIOUS
  <1>1. /\ \A p \in DOMAIN queued : \E r \in DOMAIN merged : \E i \in DOMAIN merged[r] :
               p = <<r, i>> /\ queued[p] = merged[r][i]
        /\ \A r \in DOMAIN merged : \A i \in DOMAIN merged[r] :
               (merged[r][i].status \in Queue!QueuedStatus /\ Queue!HasLocalLabels(merged[r][i].job))
                   => <<r, i>> \in DOMAIN queued /\ queued[<<r, i>>] = merged[r][i]
    <2>1. PICK statuses : statuses = Queue!QueuedStatus
      OBVIOUS
    <2>2. PICK local \in BOOLEAN : local = TRUE
      OBVIOUS
    <2>3. queued = Queue!Chosen(merged, statuses, local)
      BY <1>0, <2>1, <2>2, Zenon DEF LocalQueue
    <2>4. /\ \A p \in DOMAIN queued : \E r \in DOMAIN merged : \E i \in DOMAIN merged[r] :
                 p = <<r, i>> /\ queued[p] = merged[r][i]
          /\ \A r \in DOMAIN merged : \A i \in DOMAIN merged[r] :
                 (merged[r][i].status \in statuses /\ (Queue!HasLocalLabels(merged[r][i].job) <=> local))
                     => <<r, i>> \in DOMAIN queued /\ queued[<<r, i>>] = merged[r][i]
      BY <1>0, <2>3, ChosenFacts
    <2>5. QED
      BY <2>1, <2>2, <2>4
  <1>2. \A r \in DOMAIN merged : Listed(merged[r], r)
    BY <1>0, MergeFacts
  <1>3. ASSUME NEW p \in at
        PROVE  /\ RunOf[j] \in DOMAIN merged
               /\ \E i \in DOMAIN merged[RunOf[j]] :
                      p = <<RunOf[j], i>> /\ merged[RunOf[j]][i] = [job |-> j, status |-> "queued"]
    <2>1. PICK r \in DOMAIN merged : \E i \in DOMAIN merged[r] : p = <<r, i>> /\ queued[p] = merged[r][i]
      BY <1>1
    <2>2. PICK i \in DOMAIN merged[r] : p = <<r, i>> /\ queued[p] = merged[r][i]
      BY <2>1
    <2>3. merged[r][i].job = j
      BY <2>2
    <2>4. Listed(merged[r], r)
      BY <1>2
    <2>5. /\ merged[r][i] = [job |-> merged[r][i].job, status |-> merged[r][i].status]
          /\ RunOf[j] = r /\ merged[r][i].status \in trail[j]
      BY <2>3, <2>4 DEF Listed
    <2>6. merged[r][i].status = "queued"
      BY <2>5 DEF Steady
    <2>7. QED
      BY <2>2, <2>3, <2>5, <2>6
  <1>4. \A p, q \in at : p = q
    <2> SUFFICES ASSUME NEW p \in at, NEW q \in at PROVE p = q
      OBVIOUS
    <2>1. PICK jobs : jobs = merged[RunOf[j]]
      OBVIOUS
    <2>2. RunOf[j] \in DOMAIN merged
      BY <1>3
    <2>3. PICK i \in DOMAIN jobs : p = <<RunOf[j], i>> /\ jobs[i] = [job |-> j, status |-> "queued"]
      BY <1>3, <2>1
    <2>4. PICK k \in DOMAIN jobs : q = <<RunOf[j], k>> /\ jobs[k] = [job |-> j, status |-> "queued"]
      BY <1>3, <2>1
    <2>5. i = k
      BY <1>2, <2>1, <2>2, <2>3, <2>4 DEF Listed
    <2>6. QED
      BY <2>3, <2>4, <2>5
  <1>5. ASSUME Collected(j) PROVE at # {}
    <2>1. PICK i \in DOMAIN evidence : /\ evidence[i].run = RunOf[j]
                                       /\ \E k \in DOMAIN evidence[i].jobs : evidence[i].jobs[k].job = j
      BY <1>5 DEF Collected
    <2>2. PICK k \in DOMAIN evidence[i].jobs : evidence[i].jobs[k].job = j
      BY <2>1
    <2>3. PICK r : r = RunOf[j]
      OBVIOUS
    <2>4. r \in DOMAIN merged /\ \E m \in DOMAIN merged[r] : merged[r][m] = evidence[i].jobs[k]
      BY <1>0, <2>1, <2>3, MergeFacts
    <2>5. PICK m \in DOMAIN merged[r] : merged[r][m] = evidence[i].jobs[k]
      BY <2>4
    <2>6. merged[r][m].job = j
      BY <2>2, <2>5
    <2>7. merged[r][m].status = "queued"
      BY <1>2, <2>4, <2>6 DEF Listed, Steady
    <2>8. merged[r][m].status \in Queue!QueuedStatus /\ Queue!HasLocalLabels(merged[r][m].job)
      BY <2>6, <2>7 DEF Queue!QueuedStatus
    <2>9. <<r, m>> \in DOMAIN queued /\ queued[<<r, m>>] = merged[r][m]
      BY <1>1, <2>4, <2>8
    <2>10. QED
      BY <2>6, <2>9
  <1>6. QED
    BY <1>4, <1>5

\* For any jobs, runs, repositories and limits, whatever the jobs do and whichever calls
\* fail while the collector goes from call to call: the report has nothing that was not
\* so, each local job that stayed queued once at most, and if no call failed and no
\* listing was cut short, once; then it does not pass when they are too many.
THEOREM QueueTold == Spec => []QueueIsTold
  <1> DEFINE inv == subject = "queue" => QueueInv
  <1>1. Init => inv
    BY QueueRuns
  <1>2. inv /\ [Next]_vars => inv'
    BY QueueRuns, QueueKept
  <1>3. inv => QueueIsTold
    <2> SUFFICES ASSUME subject = "queue", QueueInv PROVE Queue!QueueIsTold
      BY DEF QueueIsTold
    <2> SUFFICES ASSUME collector.step = "told" PROVE Queue!QueueIsTold
      BY DEF Queue!QueueIsTold
    <2>1. PICK merged : merged = Queue!DedupeRuns(evidence)
      OBVIOUS
    <2>2. PICK queued : queued = Queue!Chosen(merged, Queue!QueuedStatus, TRUE)
      OBVIOUS
    <2>3. PICK active : active = Queue!Chosen(merged, Queue!ActiveStatus, TRUE)
      OBVIOUS
    <2>4. PICK nonlocal : nonlocal = Queue!Chosen(merged, Queue!QueuedStatus, FALSE)
      OBVIOUS
    <2>5. PICK report : report = Queue!QueueReport(evidence)
      OBVIOUS
    <2>6. /\ report.active = active /\ report.queued = queued /\ report.nonlocal = nonlocal
          /\ Cardinality(DOMAIN queued) > MaxQueuedLocal => report.missing # {}
      BY <2>1, <2>2, <2>3, <2>4, <2>5, QueueCardinality DEF Queue!QueueReport
    <2>7. /\ queue_told.active = active /\ queue_told.queued = queued /\ queue_told.nonlocal = nonlocal
          /\ queue_told.exit = "ok" => ~(Cardinality(DOMAIN queued) > MaxQueuedLocal)
      <3>1. queue_told = [active |-> report.active, queued |-> report.queued, nonlocal |-> report.nonlocal,
                          exit |-> IF report.missing = {} THEN "ok" ELSE "failed"]
        BY <2>5 DEF QueueInv, QueueReported
      <3>2. QED
        BY <2>6, <3>1
    <2>8. \A list \in {queue_told.active, queue_told.queued, queue_told.nonlocal} :
              \A i \in DOMAIN list : list[i].status \in trail[list[i].job]
      <3>1. \A i \in DOMAIN active : active[i].status \in trail[active[i].job]
        BY <2>1, <2>3, ChosenWas
      <3>2. \A i \in DOMAIN queued : queued[i].status \in trail[queued[i].job]
        BY <2>1, <2>2, ChosenWas
      <3>3. \A i \in DOMAIN nonlocal : nonlocal[i].status \in trail[nonlocal[i].job]
        BY <2>1, <2>4, ChosenWas
      <3>4. QED
        BY <2>7, <3>1, <3>2, <3>3
    <2>9. PICK steady : steady = {j \in Queue!Jobs : Queue!HasLocalLabels(j) /\ trail[j] = {"queued"}}
      OBVIOUS
    <2>10. ASSUME NEW j \in steady, NEW at, at = {p \in DOMAIN queued : queued[p].job = j}
           PROVE  /\ Cardinality(at) <= 1
                  /\ ~collector.partial => Cardinality(at) = 1 /\ at # {}
      <3>1. j \in Queue!Jobs /\ Queue!HasLocalLabels(j) /\ Steady(j)
        BY <2>9 DEF Steady
      <3>2. (\A p, q \in at : p = q) /\ (Collected(j) => at # {})
        <4>1. queued = LocalQueue
          BY <2>1, <2>2, Zenon DEF LocalQueue
        <4>2. QED
          BY <2>10, <3>1, <4>1, SteadyChosen
      <3>3. ~collector.partial => at # {}
        BY <3>1, <3>2 DEF QueueInv, NoneForgotten
      <3>4. CASE at = {}
        BY <3>3, <3>4, FS_EmptySet
      <3>5. CASE at # {}
        <4>1. PICK p \in at : at = {p}
          BY <3>2, <3>5
        <4>2. Cardinality(at) = 1
          BY <4>1, FS_Singleton
        <4>3. QED
          BY <3>5, <4>2
      <3>6. QED
        BY <3>4, <3>5
    <2>11. ASSUME ~collector.partial, queue_told.exit = "ok"
           PROVE  Cardinality(steady) <= MaxQueuedLocal
      <3>1. PICK all : all = {queued[p].job : p \in DOMAIN queued}
        OBVIOUS
      <3>2. IsFiniteSet(DOMAIN queued) /\ Cardinality(DOMAIN queued) \in Nat
        BY <2>1, <2>2, ChosenFacts, FS_CardinalityType
      <3>3. PICK f : f = [p \in DOMAIN queued |-> queued[p].job]
        OBVIOUS
      <3>4. f \in Surjection(DOMAIN queued, all)
        BY <3>1, <3>3 DEF Surjection
      <3>5. IsFiniteSet(all) /\ Cardinality(all) <= Cardinality(DOMAIN queued) /\ Cardinality(all) \in Nat
        BY <3>2, <3>4, FS_Surjection, FS_CardinalityType
      <3>6. steady \subseteq all
        <4> SUFFICES ASSUME NEW j \in steady PROVE j \in all
          OBVIOUS
        <4>1. PICK at : at = {p \in DOMAIN queued : queued[p].job = j}
          OBVIOUS
        <4>2. at # {}
          BY <2>10, <2>11, <4>1
        <4>3. QED
          BY <3>1, <4>1, <4>2
      <3>7. Cardinality(steady) <= Cardinality(all) /\ Cardinality(steady) \in Nat
        BY <3>5, <3>6, FS_Subset, FS_CardinalityType
      <3>8. MaxQueuedLocal \in Nat
        BY AuditsAssumption DEF Queue!QueueAuditConstants
      <3>9. QED
        BY <2>7, <2>11, <3>2, <3>5, <3>7, <3>8
    <2>12. \A j \in steady :
               LET times == Queue!Cardinality({i \in DOMAIN queue_told.queued : queue_told.queued[i].job = j})
               IN  times <= 1 /\ (~collector.partial => times = 1)
      BY <2>7, <2>10, QueueCardinality
    <2>13. ~collector.partial /\ queue_told.exit = "ok" => Queue!Cardinality(steady) <= MaxQueuedLocal
      BY <2>11, QueueCardinality
    <2>14. QED
      BY <2>8, <2>9, <2>12, <2>13, Zenon DEF Queue!QueueIsTold
  <1>4. QED
    BY <1>1, <1>2, <1>3, PTL DEF Spec

-----------------------------------------------------------------------------
(* Whole minutes, and the latest of some seconds.                          *)

\* The longer a time the more minutes it has.
LEMMA DivisionGrows ==
    ASSUME NEW d \in Nat \ {0}, NEW x \in Int, NEW y \in Int, x <= y
    PROVE  /\ x \div d \in Int /\ y \div d \in Int /\ x \div d <= y \div d
  <1>1. d \in Int /\ d > 0
    OBVIOUS
  <1>2. QED
    BY <1>1, SMT

\* A time that has so many whole minutes has the seconds of these.
LEMMA DivisionBounds ==
    ASSUME NEW d \in Nat \ {0}, NEW x \in Int, NEW m \in Int, x \div d >= m
    PROVE  x >= m * d
  <1>1. d \in Int /\ d > 0
    OBVIOUS
  <1>2. x = d * (x \div d) + (x % d)
    BY <1>1, SMT
  <1>3. 0 <= x % d /\ x % d \in Int
    BY <1>1, SMT
  <1>4. PICK p \in Int : p = x \div d
    BY <1>1, SMT
  <1>5. x >= d * p
    BY <1>1, <1>2, <1>3, <1>4
  <1>6. d * p >= d * m
    BY <1>1, <1>4
  <1>7. d * m = m * d
    BY <1>1
  <1>8. QED
    BY <1>1, <1>4, <1>5, <1>6, <1>7

\* Seconds with a bound have a latest one.
LEMMA LatestFacts ==
    ASSUME NEW S, S \subseteq Int, S # {}, NEW b \in Int, \A x \in S : x <= b
    PROVE  History!Max(S) \in S /\ \A y \in S : y <= History!Max(S)
  <1>1. PICK T : T = {b - x : x \in S}
    OBVIOUS
  <1>2. T \subseteq Nat /\ T # {}
    <2>1. \A x \in S : b - x \in Nat
      OBVIOUS
    <2>2. QED
      BY <1>1, <2>1
  <1>3. PICK t \in T : \A u \in T : t <= u
    BY <1>2, LeastOf
  <1>4. PICK x \in S : t = b - x
    BY <1>1, <1>3
  <1>5. \A y \in S : x >= y
    <2> SUFFICES ASSUME NEW y \in S PROVE x >= y
      OBVIOUS
    <2>1. b - y \in T
      BY <1>1
    <2>2. t <= b - y
      BY <1>3, <2>1
    <2>3. QED
      BY <1>4, <2>2
  <1>6. QED
    BY <1>5 DEF History!Max

\* The later and the earlier of two seconds.
LEMMA PairFacts ==
    ASSUME NEW x \in Int, NEW y \in Int
    PROVE  /\ History!Max({x, y}) = IF x >= y THEN x ELSE y
           /\ History!Min({x, y}) = IF x <= y THEN x ELSE y
  BY DEF History!Max, History!Min

-----------------------------------------------------------------------------
(* The sweep.                                                              *)

\* Some intervals within a window.
Within(intervals, from, to) ==
    /\ from \in Int /\ to \in Int /\ from < to
    /\ \A y \in intervals : y[1] \in Int /\ y[2] \in Int /\ from <= y[1] /\ y[1] <= y[2] /\ y[2] <= to

\* No interval reaches into the stretch between two seconds.
Free(intervals, from, to) == \A y \in intervals : y[2] <= from \/ to <= y[1]

\* The cursor is at the latest end.
LEMMA CursorFacts ==
    ASSUME NEW intervals, NEW from, NEW to, Within(intervals, from, to), NEW some \in SUBSET intervals
    PROVE  /\ History!Cursor(some, from) \in Int
           /\ from <= History!Cursor(some, from) /\ History!Cursor(some, from) <= to
           /\ \A y \in some : y[2] <= History!Cursor(some, from)
           /\ \A s \in Int : (from <= s /\ \A y \in some : y[2] <= s) => History!Cursor(some, from) <= s
  <1>1. PICK S : S = {from} \cup {y[2] : y \in some}
    OBVIOUS
  <1>2. S \subseteq Int /\ S # {} /\ to \in Int /\ \A x \in S : from <= x /\ x <= to
    BY <1>1 DEF Within
  <1>3. PICK c : c = History!Max(S)
    OBVIOUS
  <1>4. c \in S /\ \A y \in S : y <= c
    BY <1>2, <1>3, LatestFacts
  <1>5. History!Cursor(some, from) = c
    BY <1>1, <1>3 DEF History!Cursor
  <1>6. QED
    BY <1>1, <1>2, <1>4, <1>5 DEF Within

\* What the sweep tells is free: an interval that ends after began no sooner than
\* the one the gap ends at.
LEMMA GapsAreFree ==
    ASSUME NEW intervals, NEW from, NEW to, Within(intervals, from, to),
           NEW g \in History!Gaps(intervals, from, to)
    PROVE  \E a, b \in Int : g = <<a, b>> /\ from <= a /\ a < b /\ b <= to /\ Free(intervals, a, b)
  <1>1. CASE \E i \in intervals : i[1] > History!CursorAt(i, intervals, from)
                                     /\ g = <<History!CursorAt(i, intervals, from), i[1]>>
    <2>1. PICK i \in intervals : i[1] > History!CursorAt(i, intervals, from)
                                     /\ g = <<History!CursorAt(i, intervals, from), i[1]>>
      BY <1>1
    <2>2. PICK some \in SUBSET intervals : some = {j \in intervals : History!Sooner(j, i)}
      OBVIOUS
    <2>3. PICK a : a = History!Cursor(some, from)
      OBVIOUS
    <2>4. History!CursorAt(i, intervals, from) = a
      BY <2>2, <2>3 DEF History!CursorAt
    <2>5. a \in Int /\ from <= a /\ \A y \in some : y[2] <= a
      BY <2>3, CursorFacts
    <2>6. i[1] \in Int /\ i[1] <= to
      BY DEF Within
    <2>7. \A y \in intervals : y[2] <= a \/ i[1] <= y[1]
      BY <2>2, <2>5 DEF Within, History!Sooner
    <2>8. QED
      BY <2>1, <2>4, <2>5, <2>6, <2>7 DEF Free
  <1>2. CASE to > History!Cursor(intervals, from) /\ g = <<History!Cursor(intervals, from), to>>
    <2>1. PICK a : a = History!Cursor(intervals, from)
      OBVIOUS
    <2>2. a \in Int /\ from <= a /\ \A y \in intervals : y[2] <= a
      BY <2>1, CursorFacts
    <2>3. QED
      BY <1>2, <2>1, <2>2 DEF Free, Within
  <1>3. QED
    BY <1>1, <1>2 DEF History!Gaps

\* A free stretch lies in one gap: the one that ends at the first interval after it.
LEMMA FreeIsInGap ==
    ASSUME NEW intervals, NEW from, NEW to, Within(intervals, from, to),
           NEW s \in Int, NEW e \in Int, from <= s, s < e, e <= to, Free(intervals, s, e)
    PROVE  \E g \in History!Gaps(intervals, from, to) : g[1] \in Int /\ g[2] \in Int /\ g[1] <= s /\ e <= g[2]
  <1>1. PICK after : after = {y \in intervals : e <= y[1]}
    OBVIOUS
  <1>2. CASE after = {}
    <2>1. PICK a : a = History!Cursor(intervals, from)
      OBVIOUS
    <2>2. \A y \in intervals : y[2] <= s
      BY <1>1, <1>2 DEF Free
    <2>3. a \in Int /\ a <= s
      BY <2>1, <2>2, CursorFacts
    <2>4. <<a, to>> \in History!Gaps(intervals, from, to)
      BY <2>1, <2>3 DEF History!Gaps, Within
    <2>5. QED
      BY <2>3, <2>4 DEF Within
  <1>3. CASE after # {}
    <2>1. PICK x \in after : \A y \in after : x[1] < y[1] \/ (x[1] = y[1] /\ x[2] <= y[2])
      <3>1. PICK begins : begins = {y[1] - e : y \in after}
        OBVIOUS
      <3>2. begins \subseteq Nat /\ begins # {}
        <4>1. \A y \in after : y[1] \in Int /\ e <= y[1]
          BY <1>1 DEF Within
        <4>2. QED
          BY <1>3, <3>1, <4>1
      <3>3. PICK first \in begins : \A n \in begins : first <= n
        BY <3>2, LeastOf
      <3>4. PICK those : those = {y \in after : y[1] - e = first}
        OBVIOUS
      <3>5. PICK ends : ends = {y[2] - e : y \in those}
        OBVIOUS
      <3>6. ends \subseteq Nat /\ ends # {}
        BY <1>1, <3>1, <3>4, <3>5 DEF Within
      <3>7. PICK last \in ends : \A n \in ends : last <= n
        BY <3>6, LeastOf
      <3>8. PICK x \in those : x[2] - e = last
        BY <3>5
      <3>9. x \in after /\ x[1] - e = first
        BY <3>4
      <3>10. ASSUME NEW y \in after PROVE x[1] < y[1] \/ (x[1] = y[1] /\ x[2] <= y[2])
        <4>1. x[1] \in Int /\ x[2] \in Int /\ y[1] \in Int /\ y[2] \in Int
          BY <1>1, <3>9 DEF Within
        <4>2. y[1] - e \in begins
          BY <3>1
        <4>3. first <= y[1] - e
          BY <3>3, <4>2
        <4>4. CASE y[1] - e = first
          <5>1. y[2] - e \in ends
            BY <3>4, <3>5, <4>4
          <5>2. last <= y[2] - e
            BY <3>7, <5>1
          <5>3. QED
            BY <3>8, <3>9, <4>1, <4>4, <5>2
        <4>5. CASE y[1] - e # first
          BY <3>2, <3>9, <4>1, <4>3, <4>5
        <4>6. QED
          BY <4>4, <4>5
      <3>11. QED
        BY <3>9, <3>10
    <2>2. PICK some \in SUBSET intervals : some = {j \in intervals : History!Sooner(j, x)}
      OBVIOUS
    <2>3. \A y \in some : y[2] <= s
      <3> SUFFICES ASSUME NEW y \in some PROVE y[2] <= s
        OBVIOUS
      <3>1. y \in intervals /\ x \in intervals /\ History!Sooner(y, x)
        BY <1>1, <2>2
      <3>2. y \notin after
        BY <2>1, <3>1 DEF History!Sooner, Within
      <3>3. QED
        BY <1>1, <3>1, <3>2 DEF Free
    <2>4. PICK a : a = History!Cursor(some, from)
      OBVIOUS
    <2>5. a \in Int /\ a <= s
      BY <2>3, <2>4, CursorFacts
    <2>6. History!CursorAt(x, intervals, from) = a
      BY <2>2, <2>4 DEF History!CursorAt
    <2>7. x \in intervals /\ x[1] \in Int /\ e <= x[1]
      BY <1>1 DEF Within
    <2>8. <<a, x[1]>> \in History!Gaps(intervals, from, to)
      BY <2>5, <2>6, <2>7 DEF History!Gaps
    <2>9. QED
      BY <2>5, <2>7, <2>8
  <1>4. QED
    BY <1>2, <1>3

-----------------------------------------------------------------------------
(* What happened on GitHub, and what was listed.                           *)

\* A second of alive for every second gone by.
Clock == now \in Nat /\ IsSequence(alive) /\ Len(alive) = now

\* A run that has ended ended after it was made; another one has not concluded.
RunShape(run) ==
    /\ run = [name |-> run.name, event |-> run.event, title |-> run.title, branch |-> run.branch,
              status |-> run.status, conclusion |-> run.conclusion, created |-> run.created, updated |-> run.updated]
    /\ run.created \in 0 .. now /\ run.updated \in run.created .. now
    /\ run.status = "completed" => run.created < run.updated

\* A run is unfinished from its creation to its end.
SpansOver(run, t) == run.created < t /\ (run.status = "completed" => t <= run.updated)

Spans ==
    /\ IsSequence(runs)
    /\ \A i \in DOMAIN runs : RunShape(runs[i])
    /\ \A t \in 1 .. now : alive[t] = {i \in DOMAIN runs : SpansOver(runs[i], t)}

WatchSteps == {"runs", "open", "all", "told"}

\* The watch lists what there is: runs as they stay, and requests, of which none goes.
Listing ==
    /\ audit = [script |-> audit.script, plan |-> audit.plan, step |-> audit.step, told |-> audit.told]
    /\ audit.step \in WatchSteps /\ audit.plan \in Plans
    /\ IsSequence(prs)
    /\ audit.step # "runs" => DOMAIN listed \subseteq DOMAIN runs /\ \A i \in DOMAIN listed : listed[i] = runs[i]
    /\ audit.step \in {"all", "told"} => DOMAIN open \subseteq DOMAIN prs

OfOps == History!OpsReport(audit.plan, listed, open, prs)
OfFlow == History!FlowReport(TRUE, listed, open)
OfBlack == History!BlackFactorReport(audit.plan, listed, prs)

HistoryReported ==
    audit.step = "told" =>
        \E lacking \in {"nothing", "evidence", "lane", "drift", "adapting"} :
            audit.told = [gaps |-> OfOps.gaps, idle |-> OfFlow.idle_without_work,
                          flow |-> History!RunnerFlowAudit(OfFlow), black |-> History!RunnerBlackFactorAudit(OfBlack),
                          ops |-> History!RunnerOpsSloAudit(OfOps),
                          agentic |-> History!AgenticSystemAudit(lacking, OfFlow, OfBlack, OfOps)]

HistoryInv == Clock /\ Spans /\ Listing /\ HistoryReported

\* Nothing has happened at first.
LEMMA HistoryInitial == History!HistoryInit => HistoryInv
  <1> SUFFICES ASSUME History!HistoryInit PROVE HistoryInv
    OBVIOUS
  <1>1. now = 0 /\ runs = <<>> /\ alive = <<>> /\ prs = <<>>
    BY DEF History!HistoryInit
  <1>2. PICK plan \in Plans, script \in Scripts :
            audit = [script |-> script, plan |-> plan, step |-> "runs", told |-> History!Nothing]
    BY DEF History!HistoryInit
  <1>3. Clock
    BY <1>1, NothingIsSequence DEF Clock
  <1>4. Spans
    BY <1>1, NothingIsSequence DEF Spans
  <1>5. Listing /\ HistoryReported
    BY <1>1, <1>2, NothingIsSequence DEF Listing, WatchSteps, HistoryReported
  <1>6. QED
    BY <1>3, <1>4, <1>5 DEF HistoryInv

\* A place of a sequence may be written.
LEMMA PutFacts ==
    ASSUME NEW s, IsSequence(s), NEW i \in DOMAIN s, NEW e
    PROVE  /\ IsSequence([s EXCEPT ![i] = e]) /\ DOMAIN [s EXCEPT ![i] = e] = DOMAIN s
           /\ [s EXCEPT ![i] = e][i] = e
           /\ \A k \in DOMAIN s : k # i => [s EXCEPT ![i] = e][k] = s[k]
  <1>1. PICK n \in Nat : DOMAIN s = 1 .. n
    BY LenProperties DEF IsSequence
  <1>2. PICK t : t = [s EXCEPT ![i] = e]
    OBVIOUS
  <1>3. PICK S : S = Range(s) \cup {e}
    OBVIOUS
  <1>4. s \in [1 .. n -> Range(s)]
    BY <1>1, LenProperties DEF IsSequence
  <1>5. t \in [1 .. n -> S]
    BY <1>2, <1>3, <1>4
  <1>6. t \in Seq(S)
    BY <1>5
  <1>7. t \in Seq(Range(t))
    BY <1>6, SeqOfRange
  <1>8. QED
    BY <1>1, <1>2, <1>5, <1>7 DEF IsSequence

\* While runs go on nothing is listed or told.
LEMMA GoesOnFacts ==
    ASSUME HistoryInv, audit.step = "runs", UNCHANGED <<prs, listed, open, audit>>
    PROVE  Listing' /\ HistoryReported'
  <1>1. Listing'
    BY DEF HistoryInv, Listing, IsSequence
  <1>2. HistoryReported'
    BY DEF HistoryReported
  <1>3. QED
    BY <1>1, <1>2

\* A run is made: until the second is over it is in no second of alive.
LEMMA TriggerStep == HistoryInv /\ History!Trigger => HistoryInv'
  <1> SUFFICES ASSUME HistoryInv, History!Trigger PROVE HistoryInv'
    OBVIOUS
  <1>1. audit.step = "runs" /\ UNCHANGED <<now, alive, prs, listed, open, audit>>
    BY DEF History!Trigger, History!GoesOn
  <1>2. PICK run : /\ runs' = Append(runs, run)
                   /\ \E n, e, t : run = [name |-> n, event |-> e, title |-> t, branch |-> "", status |-> "queued",
                                          conclusion |-> "", created |-> now, updated |-> now]
    BY DEF History!Trigger
  <1>3. /\ IsSequence(runs') /\ Len(runs) \in Nat /\ DOMAIN runs = 1 .. Len(runs)
        /\ DOMAIN runs' = 1 .. Len(runs) + 1 /\ runs'[Len(runs) + 1] = run
        /\ \A i \in 1 .. Len(runs) : runs'[i] = runs[i]
    <2>1. IsSequence(runs)
      BY DEF HistoryInv, Spans
    <2>2. runs' = Append(runs, run)
      BY <1>2
    <2>3. QED
      BY <2>1, <2>2, GrowFacts
  <1>4. Clock'
    BY <1>1 DEF HistoryInv, Clock, IsSequence
  <1>5. now \in Nat
    BY DEF HistoryInv, Clock
  <1>6. RunShape(run) /\ run.status = "queued" /\ run.created = now
    <2>1. PICK n, e, t : run = [name |-> n, event |-> e, title |-> t, branch |-> "", status |-> "queued",
                                conclusion |-> "", created |-> now, updated |-> now]
      BY <1>2
    <2>2. run = [name |-> run.name, event |-> run.event, title |-> run.title, branch |-> run.branch,
                 status |-> run.status, conclusion |-> run.conclusion, created |-> run.created, updated |-> run.updated]
      BY <2>1
    <2>3. run.status = "queued" /\ run.created = now /\ run.updated = now
      BY <2>1
    <2>4. QED
      BY <1>5, <2>2, <2>3 DEF RunShape
  <1>7. \A i \in DOMAIN runs' : i \in DOMAIN runs \/ i = Len(runs) + 1
    BY <1>3
  <1>8. \A i \in DOMAIN runs' : RunShape(runs'[i])
    BY <1>3, <1>6, <1>7 DEF HistoryInv, Spans
  <1>9. \A i \in DOMAIN runs' : RunShape(runs[i])'
    BY <1>1, <1>8 DEF RunShape
  <1>10. ASSUME NEW t \in 1 .. now PROVE alive[t] = {i \in DOMAIN runs' : SpansOver(runs'[i], t)}
    <2>1. alive[t] = {i \in DOMAIN runs : SpansOver(runs[i], t)}
      BY DEF HistoryInv, Spans
    <2>2. ~SpansOver(run, t)
      BY <1>5, <1>6 DEF SpansOver
    <2>3. QED
      BY <1>3, <1>7, <2>1, <2>2
  <1>11. Spans'
    <2>1. \A t \in 1 .. now : alive[t] = {i \in DOMAIN runs' : SpansOver(runs[i], t)'}
      BY <1>10 DEF SpansOver
    <2>2. QED
      BY <1>1, <1>3, <1>9, <2>1 DEF Spans, IsSequence
  <1>12. QED
    BY <1>1, <1>4, <1>11, GoesOnFacts DEF HistoryInv

\* A run begins or ends: it was unfinished until now, and is not after its end.
LEMMA SetRunStep ==
    ASSUME HistoryInv, audit.step = "runs", NEW i \in DOMAIN runs, NEW status, NEW conclusion,
           runs[i].status # "completed", History!SetRun(i, status, conclusion),
           status = "completed" => now > runs[i].created
    PROVE  HistoryInv'
  <1>1. UNCHANGED <<now, alive, prs, listed, open, audit>>
    BY DEF History!SetRun
  <1>2. now \in Nat
    BY DEF HistoryInv, Clock
  <1>3. PICK run : run = [name |-> runs[i].name, event |-> runs[i].event, title |-> runs[i].title, branch |-> runs[i].branch,
                          status |-> status, conclusion |-> conclusion, created |-> runs[i].created, updated |-> now]
    OBVIOUS
  <1>4. RunShape(runs[i]) /\ IsSequence(runs)
    BY DEF HistoryInv, Spans
  <1>5. runs' = [runs EXCEPT ![i] = run]
    <2>1. PICK r : r = runs[i]
      OBVIOUS
    <2>2. PICK r1 : r1 = [r EXCEPT !.status = status]
      OBVIOUS
    <2>3. PICK r2 : r2 = [r1 EXCEPT !.conclusion = conclusion]
      OBVIOUS
    <2>4. PICK r3 : r3 = [r2 EXCEPT !.updated = now]
      OBVIOUS
    <2>5. runs' = [runs EXCEPT ![i] = r3]
      BY <2>1, <2>2, <2>3, <2>4 DEF History!SetRun
    <2>6. r1 = [name |-> r.name, event |-> r.event, title |-> r.title, branch |-> r.branch,
                status |-> status, conclusion |-> r.conclusion, created |-> r.created, updated |-> r.updated]
      BY <1>4, <2>1, <2>2 DEF RunShape
    <2>7. r2 = [name |-> r.name, event |-> r.event, title |-> r.title, branch |-> r.branch,
                status |-> status, conclusion |-> conclusion, created |-> r.created, updated |-> r.updated]
      BY <2>3, <2>6
    <2>8. r3 = run
      BY <1>3, <2>1, <2>4, <2>7
    <2>9. QED
      BY <2>5, <2>8
  <1>6. /\ IsSequence(runs') /\ DOMAIN runs' = DOMAIN runs /\ runs'[i] = run
        /\ \A k \in DOMAIN runs : k # i => runs'[k] = runs[k]
    BY <1>4, <1>5, PutFacts
  <1>7. RunShape(run)
    BY <1>2, <1>3, <1>4 DEF RunShape
  <1>8. \A k \in DOMAIN runs' : RunShape(runs'[k])
    BY <1>6, <1>7 DEF HistoryInv, Spans
  <1>9. \A k \in DOMAIN runs' : RunShape(runs[k])'
    BY <1>1, <1>8 DEF RunShape
  <1>10. ASSUME NEW t \in 1 .. now PROVE alive[t] = {k \in DOMAIN runs' : SpansOver(runs'[k], t)}
    <2>1. alive[t] = {k \in DOMAIN runs : SpansOver(runs[k], t)}
      BY DEF HistoryInv, Spans
    <2>2. SpansOver(run, t) <=> SpansOver(runs[i], t)
      BY <1>2, <1>3 DEF SpansOver
    <2>3. QED
      BY <1>6, <2>1, <2>2
  <1>11. Spans'
    <2>1. \A t \in 1 .. now : alive[t] = {k \in DOMAIN runs' : SpansOver(runs[k], t)'}
      BY <1>10 DEF SpansOver
    <2>2. QED
      BY <1>1, <1>6, <1>9, <2>1 DEF Spans, IsSequence
  <1>12. Clock'
    BY <1>1 DEF HistoryInv, Clock, IsSequence
  <1>13. QED
    BY <1>1, <1>11, <1>12, GoesOnFacts DEF HistoryInv

\* A queued run starts.
LEMMA StartRunStep == HistoryInv /\ History!StartRun => HistoryInv'
  <1> SUFFICES ASSUME HistoryInv, History!StartRun PROVE HistoryInv'
    OBVIOUS
  <1>1. PICK i \in DOMAIN runs : runs[i].status = "queued" /\ History!SetRun(i, "in_progress", "")
    BY DEF History!StartRun
  <1>2. audit.step = "runs"
    BY DEF History!StartRun, History!GoesOn
  <1>3. PICK status, conclusion : status = "in_progress" /\ conclusion = ""
    OBVIOUS
  <1>4. History!SetRun(i, status, conclusion) /\ runs[i].status # "completed" /\ status # "completed"
    BY <1>1, <1>3
  <1>5. QED
    BY <1>2, <1>4, SetRunStep

\* A run ends, later than it was made.
LEMMA EndRunStep == HistoryInv /\ History!EndRun => HistoryInv'
  <1> SUFFICES ASSUME HistoryInv, History!EndRun PROVE HistoryInv'
    OBVIOUS
  <1>1. PICK i \in DOMAIN runs :
            /\ now > runs[i].created
            /\ \/ runs[i].status = "in_progress" /\ \E c \in {"success", "failure"} : History!SetRun(i, "completed", c)
               \/ runs[i].status = "queued" /\ History!SetRun(i, "completed", "cancelled")
    BY DEF History!EndRun
  <1>2. audit.step = "runs"
    BY DEF History!EndRun, History!GoesOn
  <1>3. PICK conclusion : History!SetRun(i, "completed", conclusion)
    BY <1>1
  <1>4. PICK status : status = "completed"
    OBVIOUS
  <1>5. History!SetRun(i, status, conclusion) /\ runs[i].status # "completed"
    BY <1>1, <1>3, <1>4
  <1>6. QED
    BY <1>1, <1>2, <1>5, SetRunStep

\* A second is over: what is unfinished now was so in it.
LEMMA TickStep == HistoryInv /\ History!Tick => HistoryInv'
  <1> SUFFICES ASSUME HistoryInv, History!Tick PROVE HistoryInv'
    OBVIOUS
  <1>1. PICK unfinished : unfinished = {i \in DOMAIN runs : runs[i].status # "completed"}
    OBVIOUS
  <1>2. /\ audit.step = "runs" /\ UNCHANGED <<runs, prs, listed, open, audit>>
        /\ now' = now + 1 /\ alive' = Append(alive, unfinished)
    BY <1>1 DEF History!Tick, History!GoesOn
  <1>3. now \in Nat /\ IsSequence(alive) /\ Len(alive) = now
    BY DEF HistoryInv, Clock
  <1>4. /\ IsSequence(alive') /\ DOMAIN alive' = 1 .. now + 1 /\ alive'[now + 1] = unfinished
        /\ \A t \in 1 .. now : alive'[t] = alive[t]
    BY <1>2, <1>3, GrowFacts
  <1>5. Clock'
    <2>1. Len(alive') = now + 1
      BY <1>3, <1>4, LenProperties DEF IsSequence
    <2>2. QED
      BY <1>2, <1>3, <1>4, <2>1 DEF Clock, IsSequence
  <1>6. \A i \in DOMAIN runs : RunShape(runs[i])
    BY DEF HistoryInv, Spans
  <1>7. \A i \in DOMAIN runs : RunShape(runs[i])'
    BY <1>2, <1>3, <1>6 DEF RunShape
  <1>8. ASSUME NEW t \in 1 .. now + 1 PROVE alive'[t] = {i \in DOMAIN runs : SpansOver(runs[i], t)}
    <2>1. CASE t \in 1 .. now
      BY <1>4, <2>1 DEF HistoryInv, Spans
    <2>2. CASE t = now + 1
      <3>1. \A i \in DOMAIN runs : SpansOver(runs[i], t) <=> runs[i].status # "completed"
        BY <1>3, <1>6, <2>2 DEF RunShape, SpansOver
      <3>2. QED
        BY <1>1, <1>4, <2>2, <3>1
    <2>3. QED
      BY <1>3, <2>1, <2>2
  <1>9. Spans'
    <2>1. \A t \in 1 .. now + 1 : alive'[t] = {i \in DOMAIN runs : SpansOver(runs[i], t)'}
      BY <1>2, <1>8 DEF SpansOver
    <2>2. IsSequence(runs)
      BY DEF HistoryInv, Spans
    <2>3. QED
      BY <1>2, <1>7, <2>1, <2>2 DEF Spans, IsSequence
  <1>10. QED
    BY <1>2, <1>5, <1>9, GoesOnFacts DEF HistoryInv

\* What happens to the requests leaves the runs alone, and takes none away.
LEMMA RequestsStep ==
    ASSUME HistoryInv, audit.step # "told", UNCHANGED <<now, runs, alive, listed, open, audit>>,
           IsSequence(prs'), DOMAIN prs \subseteq DOMAIN prs'
    PROVE  HistoryInv'
  <1>1. Clock'
    BY DEF HistoryInv, Clock, IsSequence
  <1>2. Spans'
    <2>1. \A i \in DOMAIN runs : RunShape(runs[i])'
      BY DEF HistoryInv, Spans, RunShape
    <2>2. \A t \in 1 .. now : alive[t] = {i \in DOMAIN runs : SpansOver(runs[i], t)'}
      BY DEF HistoryInv, Spans, SpansOver
    <2>3. QED
      BY <2>1, <2>2 DEF HistoryInv, Spans, IsSequence
  <1>3. Listing'
    BY DEF HistoryInv, Listing, IsSequence
  <1>4. QED
    BY <1>1, <1>2, <1>3 DEF HistoryInv, HistoryReported

\* A request changes, and stays.
LEMMA SetPrFacts ==
    ASSUME HistoryInv, audit.step # "told", NEW p \in DOMAIN prs, NEW pr, History!SetPr(p, pr)
    PROVE  HistoryInv'
  <1>1. IsSequence(prs) /\ prs' = [prs EXCEPT ![p] = pr]
    BY DEF HistoryInv, Listing, History!SetPr
  <1>2. IsSequence(prs') /\ DOMAIN prs' = DOMAIN prs
    BY <1>1, PutFacts
  <1>3. QED
    BY <1>2, RequestsStep DEF History!SetPr

\* Whatever happens on GitHub keeps the invariant.
LEMMA GitHubStep == HistoryInv /\ audit.step # "told" /\ History!GitHub => HistoryInv'
  <1> SUFFICES ASSUME HistoryInv, audit.step # "told", History!GitHub PROVE HistoryInv'
    OBVIOUS
  <1>1. CASE History!OpenPr
    <2>1. PICK e : prs' = Append(prs, e)
      BY <1>1 DEF History!OpenPr
    <2>2. IsSequence(prs)
      BY DEF HistoryInv, Listing
    <2>3. IsSequence(prs') /\ DOMAIN prs' = 1 .. Len(prs) + 1 /\ DOMAIN prs = 1 .. Len(prs) /\ Len(prs) \in Nat
      BY <2>1, <2>2, GrowFacts
    <2>4. DOMAIN prs \subseteq DOMAIN prs'
      BY <2>3
    <2>5. QED
      BY <1>1, <2>3, <2>4, RequestsStep DEF History!OpenPr
  <1>2. CASE History!StartCheck
    <2>1. PICK p \in DOMAIN prs : \E pr : History!SetPr(p, pr)
      BY <1>2 DEF History!StartCheck
    <2>2. QED
      BY <2>1, SetPrFacts
  <1>3. CASE History!EndCheck
    <2>1. PICK p \in DOMAIN prs : \E pr : History!SetPr(p, pr)
      BY <1>3 DEF History!EndCheck
    <2>2. QED
      BY <2>1, SetPrFacts
  <1>4. CASE History!Merge
    <2>1. PICK p \in DOMAIN prs : \E pr : History!SetPr(p, pr)
      BY <1>4 DEF History!Merge
    <2>2. QED
      BY <2>1, SetPrFacts
  <1>5. QED
    BY <1>1, <1>2, <1>3, <1>4, TriggerStep, StartRunStep, EndRunStep, TickStep DEF History!GitHub

\* The watch looks on: runs, alive and requests stay.
LEMMA LookedOn ==
    ASSUME HistoryInv, UNCHANGED <<now, runs, alive, prs>>
    PROVE  Clock' /\ Spans' /\ IsSequence(prs')
  <1>1. Clock'
    BY DEF HistoryInv, Clock, IsSequence
  <1>2. Spans'
    <2>1. \A i \in DOMAIN runs : RunShape(runs[i])'
      BY DEF HistoryInv, Spans, RunShape
    <2>2. \A t \in 1 .. now : alive[t] = {i \in DOMAIN runs : SpansOver(runs[i], t)'}
      BY DEF HistoryInv, Spans, SpansOver
    <2>3. QED
      BY <2>1, <2>2 DEF HistoryInv, Spans, IsSequence
  <1>3. QED
    BY <1>1, <1>2 DEF HistoryInv, Listing

\* The runs are listed, the newest of them.
LEMMA ListRunsTaken == HistoryInv /\ History!ListRuns => HistoryInv'
  <1> SUFFICES ASSUME HistoryInv, History!ListRuns PROVE HistoryInv'
    OBVIOUS
  <1>1. PICK limit \in RunLimits : listed' = [i \in History!Newest(limit) |-> runs[i]]
    BY DEF History!ListRuns
  <1>2. audit.step = "runs" /\ audit' = [audit EXCEPT !.step = "open"] /\ UNCHANGED <<now, runs, alive, prs, open>>
    BY DEF History!ListRuns
  <1>3. DOMAIN listed' \subseteq DOMAIN runs /\ \A i \in DOMAIN listed' : listed'[i] = runs[i]
    BY <1>1 DEF History!Newest
  <1>4. audit' = [script |-> audit.script, plan |-> audit.plan, step |-> "open", told |-> audit.told]
    BY <1>2 DEF HistoryInv, Listing
  <1>5. Clock' /\ Spans' /\ IsSequence(prs')
    BY <1>2, LookedOn
  <1>6. Listing' /\ HistoryReported'
    BY <1>2, <1>3, <1>4, <1>5 DEF HistoryInv, Listing, HistoryReported, WatchSteps, IsSequence
  <1>7. QED
    BY <1>5, <1>6 DEF HistoryInv

\* The open requests are listed.
LEMMA ListOpenTaken == HistoryInv /\ History!ListOpen => HistoryInv'
  <1> SUFFICES ASSUME HistoryInv, History!ListOpen PROVE HistoryInv'
    OBVIOUS
  <1>1. open' = [p \in {q \in DOMAIN prs : prs[q].state = "OPEN"} |-> prs[p]]
    BY DEF History!ListOpen
  <1>2. audit.step = "open" /\ audit' = [audit EXCEPT !.step = "all"] /\ UNCHANGED <<now, runs, alive, prs, listed>>
    BY DEF History!ListOpen
  <1>3. DOMAIN open' \subseteq DOMAIN prs
    BY <1>1
  <1>4. audit' = [script |-> audit.script, plan |-> audit.plan, step |-> "all", told |-> audit.told]
    BY <1>2 DEF HistoryInv, Listing
  <1>5. Clock' /\ Spans' /\ IsSequence(prs')
    BY <1>2, LookedOn
  <1>6. Listing' /\ HistoryReported'
    BY <1>2, <1>3, <1>4, <1>5 DEF HistoryInv, Listing, HistoryReported, WatchSteps, IsSequence
  <1>7. QED
    BY <1>5, <1>6 DEF HistoryInv

\* The audits are told.
LEMMA AuditTaken == HistoryInv /\ History!Audit => HistoryInv'
  <1> SUFFICES ASSUME HistoryInv, History!Audit PROVE HistoryInv'
    OBVIOUS
  <1>0. PICK lacking \in {"nothing", "evidence", "lane", "drift", "adapting"} : \E told :
            /\ audit' = [audit EXCEPT !.step = "told", !.told = told]
            /\ told = [gaps |-> OfOps.gaps, idle |-> OfFlow.idle_without_work,
                       flow |-> History!RunnerFlowAudit(OfFlow), black |-> History!RunnerBlackFactorAudit(OfBlack),
                       ops |-> History!RunnerOpsSloAudit(OfOps),
                       agentic |-> History!AgenticSystemAudit(lacking, OfFlow, OfBlack, OfOps)]
    <2>1. PICK r : r = [ops |-> OfOps, flow |-> OfFlow, black |-> OfBlack]
      OBVIOUS
    <2>2. PICK lacking \in {"nothing", "evidence", "lane", "drift", "adapting"} :
              audit' = [audit EXCEPT !.step = "told",
                           !.told = [gaps |-> r.ops.gaps, idle |-> r.flow.idle_without_work,
                                     flow |-> History!RunnerFlowAudit(r.flow), black |-> History!RunnerBlackFactorAudit(r.black),
                                     ops |-> History!RunnerOpsSloAudit(r.ops),
                                     agentic |-> History!AgenticSystemAudit(lacking, r.flow, r.black, r.ops)]]
      BY <2>1 DEF History!Audit, OfOps, OfFlow, OfBlack
    <2>3. r.ops = OfOps /\ r.flow = OfFlow /\ r.black = OfBlack
      BY <2>1
    <2>4. PICK told : told = [gaps |-> r.ops.gaps, idle |-> r.flow.idle_without_work,
                              flow |-> History!RunnerFlowAudit(r.flow), black |-> History!RunnerBlackFactorAudit(r.black),
                              ops |-> History!RunnerOpsSloAudit(r.ops),
                              agentic |-> History!AgenticSystemAudit(lacking, r.flow, r.black, r.ops)]
      OBVIOUS
    <2>5. audit' = [audit EXCEPT !.step = "told", !.told = told]
      BY <2>2, <2>4
    <2>6. told = [gaps |-> OfOps.gaps, idle |-> OfFlow.idle_without_work,
                  flow |-> History!RunnerFlowAudit(OfFlow), black |-> History!RunnerBlackFactorAudit(OfBlack),
                  ops |-> History!RunnerOpsSloAudit(OfOps),
                  agentic |-> History!AgenticSystemAudit(lacking, OfFlow, OfBlack, OfOps)]
      BY <2>3, <2>4
    <2>7. QED
      BY <2>5, <2>6
  <1>1. PICK told :
            /\ audit' = [audit EXCEPT !.step = "told", !.told = told]
            /\ told = [gaps |-> OfOps.gaps, idle |-> OfFlow.idle_without_work,
                       flow |-> History!RunnerFlowAudit(OfFlow), black |-> History!RunnerBlackFactorAudit(OfBlack),
                       ops |-> History!RunnerOpsSloAudit(OfOps),
                       agentic |-> History!AgenticSystemAudit(lacking, OfFlow, OfBlack, OfOps)]
    BY <1>0
  <1>2. audit.step = "all" /\ UNCHANGED <<now, runs, alive, prs, listed, open>>
    BY DEF History!Audit
  <1>3. audit' = [script |-> audit.script, plan |-> audit.plan, step |-> "told", told |-> told]
    <2>1. PICK a : a = [audit EXCEPT !.step = "told"]
      OBVIOUS
    <2>2. a = [script |-> audit.script, plan |-> audit.plan, step |-> "told", told |-> audit.told]
      BY <2>1 DEF HistoryInv, Listing
    <2>3. audit' = [a EXCEPT !.told = told]
      BY <1>1, <2>1
    <2>4. QED
      BY <2>2, <2>3
  <1>4. Clock' /\ Spans' /\ IsSequence(prs')
    BY <1>2, LookedOn
  <1>5. Listing'
    BY <1>2, <1>3, <1>4 DEF HistoryInv, Listing, WatchSteps, IsSequence
  <1>6. HistoryReported'
    <2>1. OfOps' = OfOps /\ OfFlow' = OfFlow /\ OfBlack' = OfBlack
      BY <1>2, <1>3 DEF OfOps, OfFlow, OfBlack
    <2>2. QED
      BY <1>1, <1>3, <2>1 DEF HistoryReported
  <1>7. QED
    BY <1>4, <1>5, <1>6 DEF HistoryInv

\* The invariant is inductive.
LEMMA HistoryKept == HistoryInv /\ [History!HistoryNext]_historyVars => HistoryInv'
  <1> SUFFICES ASSUME HistoryInv, [History!HistoryNext]_historyVars PROVE HistoryInv'
    OBVIOUS
  <1>1. ASSUME UNCHANGED historyVars PROVE HistoryInv'
    <2>1. UNCHANGED <<now, runs, alive, prs, listed, open, audit>>
      BY <1>1 DEF historyVars
    <2>2. Clock' /\ Spans' /\ IsSequence(prs')
      BY <2>1, LookedOn
    <2>3. Listing'
      BY <2>1, <2>2 DEF HistoryInv, Listing, IsSequence
    <2>4. HistoryReported'
      <3>1. OfOps' = OfOps /\ OfFlow' = OfFlow /\ OfBlack' = OfBlack
        BY <2>1 DEF OfOps, OfFlow, OfBlack
      <3>2. QED
        BY <2>1, <3>1 DEF HistoryInv, HistoryReported
    <2>5. QED
      BY <2>2, <2>3, <2>4 DEF HistoryInv
  <1>2. ASSUME History!HistoryDone PROVE UNCHANGED historyVars
    BY <1>2 DEF History!HistoryDone, History!historyVars, historyVars
  <1>3. QED
    BY <1>1, <1>2, GitHubStep, ListRunsTaken, ListOpenTaken, AuditTaken DEF History!HistoryNext, History!Watch

\* In a behavior of Audits whose subject is the history, every step is one of it.
LEMMA HistoryRuns ==
    /\ Init => (subject = "history" => HistoryInv)
    /\ [Next]_vars => subject' = subject /\ (subject = "history" => [History!HistoryNext]_historyVars)
  <1>1. Init => (subject = "history" => HistoryInv)
    BY HistoryInitial DEF Init
  <1>2. [Next]_vars => subject' = subject /\ (subject = "history" => [History!HistoryNext]_historyVars)
    BY DEF Next, HistoryStep, QueueStep, FleetStep, CycleStep, RepoStep, StartStep, TrailStep, CliStep, vars
  <1>3. QED
    BY <1>1, <1>2

-----------------------------------------------------------------------------
(* The window.                                                             *)

\* The window of the audit, in seconds.
PlanWindow == audit.plan.min_window
PlanSustain == audit.plan.min_sustain_minutes
WindowFrom == History!ProofStart(listed, PlanWindow)
WindowTo == History!LastCreated(listed)

\* What the arguments of an audit are.
LEMMA PlanFacts ==
    HistoryInv => /\ PlanWindow \in Nat /\ PlanSustain \in Nat
                  /\ audit.plan.min_sustain_runs \in Nat /\ audit.plan.max_idle_gap \in Nat
                  /\ Minute \in Nat \ {0}
  <1> SUFFICES ASSUME HistoryInv
               PROVE  /\ PlanWindow \in Nat /\ PlanSustain \in Nat
                      /\ audit.plan.min_sustain_runs \in Nat /\ audit.plan.max_idle_gap \in Nat
                      /\ Minute \in Nat \ {0}
    OBVIOUS
  <1>1. audit.plan \in Plans
    BY DEF HistoryInv, Listing
  <1>2. \A plan \in Plans : {plan.min_window, plan.min_sustain_minutes, plan.min_sustain_runs, plan.max_idle_gap} \subseteq Nat
    BY AuditsAssumption DEF History!WorkflowHistoryConstants
  <1>3. Minute \in Nat \ {0}
    BY AuditsAssumption DEF History!WorkflowAuditsConstants
  <1>4. QED
    BY <1>1, <1>2, <1>3 DEF PlanWindow, PlanSustain

\* The window lies within what has gone by, and holds no run that was made after it.
LEMMA WindowFacts ==
    ASSUME HistoryInv, audit.step = "told"
    PROVE  /\ WindowTo \in 0 .. now /\ WindowFrom \in Int
           /\ \A i \in DOMAIN listed :
                  i \in DOMAIN runs /\ listed[i] = runs[i] /\ RunShape(runs[i]) /\ runs[i].created <= WindowTo
  <1>1. now \in Nat
    BY DEF HistoryInv, Clock
  <1>2. \A i \in DOMAIN listed : i \in DOMAIN runs /\ listed[i] = runs[i] /\ RunShape(runs[i])
    BY DEF HistoryInv, Listing, Spans
  <1>3. WindowTo \in 0 .. now /\ \A i \in DOMAIN listed : runs[i].created <= WindowTo
    <2>1. CASE DOMAIN listed = {}
      BY <1>1, <2>1 DEF WindowTo, History!LastCreated
    <2>2. CASE DOMAIN listed # {}
      <3>1. PICK S : S = {listed[i].created : i \in DOMAIN listed}
        OBVIOUS
      <3>2. S \subseteq 0 .. now /\ S # {} /\ \A i \in DOMAIN listed : runs[i].created \in S
        BY <1>2, <2>2, <3>1 DEF RunShape
      <3>3. S \subseteq Int /\ S # {} /\ now \in Int /\ \A x \in S : x <= now
        BY <1>1, <3>2
      <3>4. History!Max(S) \in S /\ \A y \in S : y <= History!Max(S)
        BY <3>3, LatestFacts
      <3>5. WindowTo = History!Max(S)
        BY <2>2, <3>1 DEF WindowTo, History!LastCreated
      <3>6. QED
        BY <3>2, <3>4, <3>5
    <2>3. QED
      BY <2>1, <2>2
  <1>4. PICK w, m : w = PlanWindow /\ m = Minute
    OBVIOUS
  <1>5. w \in Int /\ m \in Int
    BY <1>4, PlanFacts
  <1>6. WindowFrom = WindowTo - w * m
    BY <1>4 DEF WindowFrom, WindowTo, PlanWindow, History!ProofStart
  <1>7. QED
    BY <1>1, <1>2, <1>3, <1>5, <1>6

\* The intervals the audit sees, and what a run it counts has of the window.
IntervalsSeen == History!ProductiveIntervals(listed, WindowFrom, WindowTo, PlanSustain)
Counts(i) == i \in DOMAIN listed /\ History!Productive(listed[i], PlanSustain)
BeginOf(i) == IF runs[i].created >= WindowFrom THEN runs[i].created ELSE WindowFrom
EndOf(i) == IF runs[i].updated <= WindowTo THEN runs[i].updated ELSE WindowTo

\* An interval is what a run the audit counts has of the window.
LEMMA IntervalFacts ==
    ASSUME HistoryInv, audit.step = "told", WindowFrom < WindowTo
    PROVE  /\ Within(IntervalsSeen, WindowFrom, WindowTo)
           /\ \A y \in IntervalsSeen : \E i \in DOMAIN listed : Counts(i) /\ y[1] = BeginOf(i) /\ y[2] = EndOf(i)
           /\ \A i \in DOMAIN listed : Counts(i) /\ runs[i].updated >= WindowFrom => <<BeginOf(i), EndOf(i)>> \in IntervalsSeen
  <1>1. PICK from, to : from = WindowFrom /\ to = WindowTo
    OBVIOUS
  <1>2. from \in Int /\ to \in Int /\ from < to /\ now \in Nat
    BY <1>1, WindowFacts DEF HistoryInv, Clock
  <1>3. \A i \in DOMAIN listed : /\ listed[i] = runs[i] /\ runs[i].created \in Int /\ runs[i].updated \in Int
                                 /\ runs[i].created <= to /\ runs[i].created <= runs[i].updated
    <2> SUFFICES ASSUME NEW i \in DOMAIN listed
                 PROVE  /\ listed[i] = runs[i] /\ runs[i].created \in Int /\ runs[i].updated \in Int
                        /\ runs[i].created <= to /\ runs[i].created <= runs[i].updated
      OBVIOUS
    <2>1. listed[i] = runs[i] /\ RunShape(runs[i]) /\ runs[i].created <= to
      BY <1>1, WindowFacts
    <2>2. PICK r : r = runs[i]
      OBVIOUS
    <2>3. r.created \in 0 .. now /\ r.updated \in r.created .. now
      BY <2>1, <2>2 DEF RunShape
    <2>4. QED
      BY <1>2, <2>1, <2>2, <2>3
  <1>4. PICK counted : counted = {j \in DOMAIN listed : History!Productive(listed[j], PlanSustain)}
    OBVIOUS
  <1>5. PICK clipped : clipped = {<<History!Max({listed[i].created, from}),
                                    History!Min({History!Max({listed[i].created, listed[i].updated}), to})>> : i \in counted}
    OBVIOUS
  <1>6. IntervalsSeen = {y \in clipped : y[2] >= y[1]}
    BY <1>1, <1>4, <1>5 DEF IntervalsSeen, History!ProductiveIntervals
  <1>7. ASSUME NEW i \in counted
        PROVE  /\ History!Max({listed[i].created, from}) = BeginOf(i)
               /\ History!Min({History!Max({listed[i].created, listed[i].updated}), to}) = EndOf(i)
    <2>1. PICK c, u : c = listed[i].created /\ u = listed[i].updated
      OBVIOUS
    <2>2. c \in Int /\ u \in Int /\ c <= to /\ c <= u /\ c = runs[i].created /\ u = runs[i].updated
      BY <1>3, <1>4, <2>1
    <2>3. History!Max({c, from}) = IF c >= from THEN c ELSE from
      BY <1>2, <2>2, PairFacts
    <2>4. History!Max({c, u}) = u
      BY <2>2, PairFacts
    <2>5. History!Min({u, to}) = IF u <= to THEN u ELSE to
      BY <1>2, <2>2, PairFacts
    <2>6. QED
      BY <1>1, <2>1, <2>2, <2>3, <2>4, <2>5 DEF BeginOf, EndOf
  <1>8. clipped = {<<BeginOf(i), EndOf(i)>> : i \in counted}
    BY <1>5, <1>7
  <1>9. \A i \in counted : Counts(i) /\ i \in DOMAIN listed
    BY <1>4 DEF Counts
  <1>10. ASSUME NEW i \in counted
         PROVE  /\ BeginOf(i) \in Int /\ EndOf(i) \in Int /\ from <= BeginOf(i) /\ EndOf(i) <= to
                /\ runs[i].updated >= from => BeginOf(i) <= EndOf(i)
    BY <1>1, <1>2, <1>3, <1>9 DEF BeginOf, EndOf
  <1>11. Within(IntervalsSeen, from, to)
    BY <1>2, <1>6, <1>8, <1>10 DEF Within
  <1>12. \A y \in IntervalsSeen : \E i \in DOMAIN listed : Counts(i) /\ y[1] = BeginOf(i) /\ y[2] = EndOf(i)
    BY <1>6, <1>8, <1>9
  <1>13. \A i \in DOMAIN listed : Counts(i) /\ runs[i].updated >= from => <<BeginOf(i), EndOf(i)>> \in IntervalsSeen
    BY <1>4, <1>6, <1>8, <1>10 DEF Counts
  <1>14. QED
    BY <1>1, <1>11, <1>12, <1>13

\* An idle stretch of the window.
IdleIn(kind, s) ==
    /\ s[1] \in WindowFrom .. WindowTo /\ s[2] \in WindowFrom .. WindowTo /\ s[1] < s[2]
    /\ \A second \in s[1] + 1 .. s[2] : second < 1 \/ alive[second] \cap kind = {}

LocalRuns == {i \in DOMAIN runs : runs[i].name \in History!LocalRunnerName}
SeenEnding == {i \in DOMAIN listed : listed[i].status = "completed" /\ History!Productive(listed[i], PlanSustain)}

\* A second of the window in which a run was unfinished.
LEMMA UnfinishedThen ==
    ASSUME HistoryInv, NEW t \in 1 .. now, NEW i \in DOMAIN runs
    PROVE  i \in alive[t] <=> SpansOver(runs[i], t)
  BY DEF HistoryInv, Spans

\* Where no local runner was at work no interval is.
LEMMA IdleIsFree ==
    ASSUME HistoryInv, audit.step = "told", WindowFrom < WindowTo, NEW s, IdleIn(LocalRuns, s)
    PROVE  Free(IntervalsSeen, s[1], s[2])
  <1> SUFFICES ASSUME NEW y \in IntervalsSeen, ~(y[2] <= s[1]), ~(s[2] <= y[1]) PROVE FALSE
    BY DEF Free
  <1>1. PICK i \in DOMAIN listed : Counts(i) /\ y[1] = BeginOf(i) /\ y[2] = EndOf(i)
    BY IntervalFacts
  <1>2. PICK from, to, c, u : from = WindowFrom /\ to = WindowTo /\ c = runs[i].created /\ u = runs[i].updated
    OBVIOUS
  <1>3. /\ from \in Int /\ to \in 0 .. now /\ now \in Nat /\ i \in DOMAIN runs /\ listed[i] = runs[i]
        /\ c \in 0 .. now /\ u \in c .. now /\ (runs[i].status = "completed" => c < u)
    BY <1>2, WindowFacts DEF HistoryInv, Clock, RunShape
  <1>4. s[1] \in from .. to /\ s[2] \in from .. to /\ s[1] < s[2]
    BY <1>2 DEF IdleIn
  <1>5. /\ y[1] = (IF c >= from THEN c ELSE from) /\ y[2] = (IF u <= to THEN u ELSE to)
    BY <1>1, <1>2 DEF BeginOf, EndOf
  <1>6. c < s[2] /\ s[1] < u
    BY <1>3, <1>4, <1>5
  <1>7. PICK t : t = IF c >= s[1] THEN c + 1 ELSE s[1] + 1
    OBVIOUS
  <1>8. /\ t \in s[1] + 1 .. s[2] /\ c < t /\ (runs[i].status = "completed" => t <= u)
    BY <1>3, <1>4, <1>6, <1>7
  <1>9. t >= 1 /\ t \in 1 .. now
    BY <1>3, <1>4, <1>8
  <1>10. i \in alive[t]
    BY <1>2, <1>3, <1>8, <1>9, UnfinishedThen DEF SpansOver
  <1>11. i \in LocalRuns
    BY <1>1, <1>3 DEF Counts, LocalRuns, History!Productive, History!LocalRunnerName
  <1>12. QED
    BY <1>8, <1>9, <1>10, <1>11 DEF IdleIn

\* Where no interval is no run was at work that the audit counts and saw finished.
LEMMA FreeIsIdle ==
    ASSUME HistoryInv, audit.step = "told", WindowFrom < WindowTo,
           NEW a \in Int, NEW b \in Int, WindowFrom <= a, a < b, b <= WindowTo, Free(IntervalsSeen, a, b)
    PROVE  IdleIn(SeenEnding, <<a, b>>)
  <1>1. ASSUME NEW t \in a + 1 .. b, t >= 1, NEW i \in alive[t], i \in SeenEnding PROVE FALSE
    <2>1. PICK from, to, c, u : from = WindowFrom /\ to = WindowTo /\ c = runs[i].created /\ u = runs[i].updated
      OBVIOUS
    <2>2. i \in DOMAIN listed /\ listed[i].status = "completed" /\ Counts(i)
      BY <1>1 DEF SeenEnding, Counts
    <2>3. /\ from \in Int /\ to \in 0 .. now /\ now \in Nat /\ i \in DOMAIN runs /\ listed[i] = runs[i]
          /\ c \in 0 .. now /\ u \in c .. now
      BY <2>1, <2>2, WindowFacts DEF HistoryInv, Clock, RunShape
    <2>4. t \in 1 .. now /\ from <= a /\ a < t /\ t <= b /\ b <= to /\ t \in Int
      BY <1>1, <2>1, <2>3
    <2>5. c < t /\ t <= u
      BY <1>1, <2>1, <2>2, <2>3, <2>4, UnfinishedThen DEF SpansOver
    <2>6. u >= from
      BY <2>3, <2>4, <2>5
    <2>7. <<BeginOf(i), EndOf(i)>> \in IntervalsSeen
      BY <2>1, <2>2, <2>6, IntervalFacts
    <2>8. EndOf(i) <= a \/ b <= BeginOf(i)
      BY <2>7 DEF Free
    <2>9. BeginOf(i) = (IF c >= from THEN c ELSE from) /\ EndOf(i) = (IF u <= to THEN u ELSE to)
      BY <2>1 DEF BeginOf, EndOf
    <2>10. QED
      BY <2>3, <2>4, <2>5, <2>8, <2>9
  <1>2. WindowFrom \in Int /\ WindowTo \in Int
    BY WindowFacts DEF HistoryInv, Clock
  <1>3. a \in WindowFrom .. WindowTo /\ b \in WindowFrom .. WindowTo
    BY <1>2
  <1>4. \A t \in a + 1 .. b : t < 1 \/ alive[t] \cap SeenEnding = {}
    <2> SUFFICES ASSUME NEW t \in a + 1 .. b, ~(t < 1), NEW i \in alive[t] \cap SeenEnding PROVE FALSE
      OBVIOUS
    <2>1. t >= 1
      OBVIOUS
    <2>2. QED
      BY <1>1, <2>1
  <1>5. QED
    BY <1>3, <1>4 DEF IdleIn

-----------------------------------------------------------------------------
(* The gaps.                                                               *)

\* Whole minutes, rounded up.
Minutes(s) == (s[2] - s[1] + Minute - 1) \div Minute

\* The longer a stretch the more minutes it has.
LEMMA MinutesGrow ==
    ASSUME HistoryInv, NEW n \in Int, NEW m \in Int, n <= m
    PROVE  /\ (n + Minute - 1) \div Minute \in Int /\ (m + Minute - 1) \div Minute \in Int
           /\ (n + Minute - 1) \div Minute <= (m + Minute - 1) \div Minute
  <1>1. PICK d, x, y : d = Minute /\ x = n + Minute - 1 /\ y = m + Minute - 1
    OBVIOUS
  <1>2. d \in Nat \ {0} /\ x \in Int /\ y \in Int /\ x <= y
    BY <1>1, PlanFacts
  <1>3. x \div d \in Int /\ y \div d \in Int /\ x \div d <= y \div d
    BY <1>2, DivisionGrows
  <1>4. QED
    BY <1>1, <1>3

\* The minutes of the longest of some stretches, 0 without any.
Longest(some) == History!Max({Minutes(s) : s \in some} \cup {0})

\* The longest of stretches that have a bound is one of them, or there is none.
LEMMA LongestFacts ==
    ASSUME HistoryInv, NEW some, NEW n \in Nat,
           \A s \in some : s[2] - s[1] \in Int /\ s[2] - s[1] <= n
    PROVE  /\ Longest(some) \in Int /\ 0 <= Longest(some)
           /\ \A s \in some : Minutes(s) \in Int /\ Minutes(s) <= Longest(some)
           /\ Longest(some) = 0 \/ \E s \in some : Longest(some) = Minutes(s)
  <1>1. PICK S : S = {Minutes(s) : s \in some} \cup {0}
    OBVIOUS
  <1>2. PICK b : b = (n + Minute - 1) \div Minute
    OBVIOUS
  <1>3. b \in Int /\ \A s \in some : Minutes(s) \in Int /\ Minutes(s) <= b
    <2>1. b \in Int
      BY <1>2, MinutesGrow
    <2>2. ASSUME NEW s \in some PROVE Minutes(s) \in Int /\ Minutes(s) <= b
      <3>1. PICK k : k = s[2] - s[1]
        OBVIOUS
      <3>2. k \in Int /\ n \in Int /\ k <= n
        BY <3>1
      <3>3. (k + Minute - 1) \div Minute \in Int /\ (k + Minute - 1) \div Minute <= b
        BY <1>2, <3>2, MinutesGrow
      <3>4. QED
        BY <3>1, <3>3 DEF Minutes
    <2>3. QED
      BY <2>1, <2>2
  <1>4. PICK c : c = IF b >= 0 THEN b ELSE 0
    OBVIOUS
  <1>5. S \subseteq Int /\ S # {} /\ c \in Int /\ \A x \in S : x <= c
    BY <1>1, <1>3, <1>4
  <1>6. History!Max(S) \in S /\ \A y \in S : y <= History!Max(S)
    BY <1>5, LatestFacts
  <1>7. QED
    BY <1>1, <1>3, <1>5, <1>6 DEF Longest

\* The gaps it finds.
GapsSeen == History!IdleGaps(listed, WindowFrom, WindowTo, PlanSustain)

\* The gaps of the window: each is a stretch without a run the audit saw finished,
\* and every truly idle stretch lies in one.
LEMMA GapFacts ==
    ASSUME HistoryInv, audit.step = "told"
    PROVE  /\ \A g \in GapsSeen : g = <<g[1], g[2]>> /\ IdleIn(SeenEnding, g)
           /\ \A s : IdleIn(LocalRuns, s) =>
                  \E g \in GapsSeen : g[1] \in Int /\ g[2] \in Int /\ g[1] <= s[1] /\ s[2] <= g[2]
  <1>1. WindowFrom \in Int /\ WindowTo \in Int
    BY WindowFacts DEF HistoryInv, Clock
  <1>2. CASE WindowTo <= WindowFrom
    <2>1. GapsSeen = {}
      BY <1>2 DEF GapsSeen, History!IdleGaps
    <2>2. \A s : ~IdleIn(LocalRuns, s)
      BY <1>1, <1>2 DEF IdleIn
    <2>3. QED
      BY <2>1, <2>2
  <1>3. CASE ~(WindowTo <= WindowFrom)
    <2>1. WindowFrom < WindowTo
      BY <1>1, <1>3
    <2>2. GapsSeen = History!Gaps(IntervalsSeen, WindowFrom, WindowTo)
      BY <1>3 DEF GapsSeen, IntervalsSeen, History!IdleGaps
    <2>3. Within(IntervalsSeen, WindowFrom, WindowTo)
      BY <2>1, IntervalFacts
    <2>4. ASSUME NEW g \in GapsSeen PROVE g = <<g[1], g[2]>> /\ IdleIn(SeenEnding, g)
      <3>1. PICK a, b \in Int : /\ g = <<a, b>> /\ WindowFrom <= a /\ a < b /\ b <= WindowTo
                                /\ Free(IntervalsSeen, a, b)
        BY <2>2, <2>3, GapsAreFree
      <3>2. IdleIn(SeenEnding, <<a, b>>)
        BY <2>1, <3>1, FreeIsIdle
      <3>3. QED
        BY <3>1, <3>2
    <2>5. ASSUME NEW s, IdleIn(LocalRuns, s)
          PROVE  \E g \in GapsSeen : g[1] \in Int /\ g[2] \in Int /\ g[1] <= s[1] /\ s[2] <= g[2]
      <3>1. PICK x, y : x = s[1] /\ y = s[2]
        OBVIOUS
      <3>2. x \in Int /\ y \in Int /\ WindowFrom <= x /\ x < y /\ y <= WindowTo
        BY <1>1, <2>5, <3>1 DEF IdleIn
      <3>3. Free(IntervalsSeen, x, y)
        BY <2>1, <2>5, <3>1, IdleIsFree
      <3>4. QED
        BY <2>2, <2>3, <3>1, <3>2, <3>3, FreeIsInGap
    <2>6. QED
      BY <2>4, <2>5
  <1>4. QED
    BY <1>2, <1>3

\* The idle stretches of a kind are those of the property.
LEMMA StretchesAre ==
    ASSUME NEW kind
    PROVE  /\ \A s \in History!IdleStretches(kind) : IdleIn(kind, s)
           /\ \A a, b : IdleIn(kind, <<a, b>>) => <<a, b>> \in History!IdleStretches(kind)
  BY DEF History!IdleStretches, IdleIn, WindowFrom, WindowTo, PlanWindow

\* The stretches of the window are no longer than it.
LEMMA StretchesEnd ==
    ASSUME HistoryInv, audit.step = "told", NEW some, NEW kind, \A s \in some : IdleIn(kind, s)
    PROVE  \E n \in Nat : \A s \in some : s[2] - s[1] \in Int /\ s[2] - s[1] <= n
  <1>1. WindowFrom \in Int /\ WindowTo \in Int
    BY WindowFacts DEF HistoryInv, Clock
  <1>2. PICK n : n = IF WindowTo >= WindowFrom THEN WindowTo - WindowFrom ELSE 0
    OBVIOUS
  <1>3. n \in Nat /\ \A s \in some : s[2] - s[1] \in Int /\ s[2] - s[1] <= n
    BY <1>1, <1>2 DEF IdleIn
  <1>4. QED
    BY <1>3

Recovered == {g \in GapsSeen : History!GapRecovered(g[2], listed, prs)}

\* The report gives the longest gap, and the longest of those without recovery.
LEMMA GapsReported ==
    /\ OfOps.gaps.max_idle_gap = Longest(GapsSeen)
    /\ OfOps.gaps.unrecovered = Longest(GapsSeen \ Recovered)
  <1>1. PICK gaps : gaps = History!IdleGapRecovery(GapsSeen, listed, prs)
    OBVIOUS
  <1>2. OfOps.gaps = gaps
    BY <1>1 DEF OfOps, History!OpsReport, GapsSeen, WindowFrom, WindowTo, PlanWindow, PlanSustain
  <1>3. gaps.max_idle_gap = Longest(GapsSeen) /\ gaps.unrecovered = Longest(GapsSeen \ Recovered)
    BY <1>1 DEF History!IdleGapRecovery, Longest, Minutes, Recovered
  <1>4. QED
    BY <1>2, <1>3

\* A stretch within another has no more minutes.
LEMMA MinutesOfPart ==
    ASSUME HistoryInv, audit.step = "told", NEW kind, NEW s, IdleIn(kind, s),
           NEW g, g[1] \in Int, g[2] \in Int, g[1] <= s[1], s[2] <= g[2]
    PROVE  Minutes(s) \in Int /\ Minutes(g) \in Int /\ Minutes(s) <= Minutes(g)
  <1>1. WindowFrom \in Int /\ WindowTo \in Int
    BY WindowFacts DEF HistoryInv, Clock
  <1>2. PICK n, m : n = s[2] - s[1] /\ m = g[2] - g[1]
    OBVIOUS
  <1>3. n \in Int /\ m \in Int /\ n <= m
    BY <1>1, <1>2 DEF IdleIn
  <1>4. QED
    BY <1>2, <1>3, MinutesGrow DEF Minutes

\* The gap that is told is no shorter than any idle stretch, and no longer than the
\* longest in which no run was unfinished that the audit counts and saw finished.
LEMMA GapsReal == HistoryInv => History!GapsAreReal
  <1> SUFFICES ASSUME HistoryInv, audit.step = "told" PROVE History!GapsAreReal
    BY DEF History!GapsAreReal, History!Told
  <1>1. PICK idle : idle = History!IdleStretches(LocalRuns)
    OBVIOUS
  <1>2. PICK ended : ended = History!IdleStretches(SeenEnding)
    OBVIOUS
  <1>3. (\A s \in idle : IdleIn(LocalRuns, s)) /\ (\A s \in ended : IdleIn(SeenEnding, s))
    BY <1>1, <1>2, StretchesAre
  <1>4. \A g \in GapsSeen : IdleIn(SeenEnding, g)
    BY GapFacts
  <1>5. \E n \in Nat : \A s \in idle : s[2] - s[1] \in Int /\ s[2] - s[1] <= n
    BY <1>3, StretchesEnd
  <1>6. \E n \in Nat : \A s \in ended : s[2] - s[1] \in Int /\ s[2] - s[1] <= n
    BY <1>3, StretchesEnd
  <1>7. \E n \in Nat : \A s \in GapsSeen : s[2] - s[1] \in Int /\ s[2] - s[1] <= n
    BY <1>4, StretchesEnd
  <1>8. /\ Longest(idle) \in Int /\ 0 <= Longest(idle)
        /\ Longest(idle) = 0 \/ \E s \in idle : Longest(idle) = Minutes(s)
    BY <1>5, LongestFacts
  <1>9. /\ Longest(ended) \in Int /\ 0 <= Longest(ended)
        /\ \A s \in ended : Minutes(s) \in Int /\ Minutes(s) <= Longest(ended)
    BY <1>6, LongestFacts
  <1>10. /\ Longest(GapsSeen) \in Int /\ 0 <= Longest(GapsSeen)
         /\ \A s \in GapsSeen : Minutes(s) \in Int /\ Minutes(s) <= Longest(GapsSeen)
         /\ Longest(GapsSeen) = 0 \/ \E s \in GapsSeen : Longest(GapsSeen) = Minutes(s)
    BY <1>7, LongestFacts
  <1>11. Longest(GapsSeen) >= Longest(idle)
    <2>1. CASE Longest(idle) = 0
      BY <1>10, <2>1
    <2>2. CASE Longest(idle) # 0
      <3>1. PICK s \in idle : Longest(idle) = Minutes(s)
        BY <1>8, <2>2
      <3>2. PICK g \in GapsSeen : g[1] \in Int /\ g[2] \in Int /\ g[1] <= s[1] /\ s[2] <= g[2]
        BY <1>3, GapFacts
      <3>3. Minutes(s) <= Minutes(g)
        BY <1>3, <3>2, MinutesOfPart
      <3>4. QED
        BY <1>8, <1>10, <3>1, <3>2, <3>3
    <2>3. QED
      BY <2>1, <2>2
  <1>12. Longest(GapsSeen) <= Longest(ended)
    <2>1. CASE Longest(GapsSeen) = 0
      BY <1>9, <2>1
    <2>2. CASE Longest(GapsSeen) # 0
      <3>1. PICK g \in GapsSeen : Longest(GapsSeen) = Minutes(g)
        BY <1>10, <2>2
      <3>2. g = <<g[1], g[2]>> /\ IdleIn(SeenEnding, g)
        BY GapFacts
      <3>3. g \in ended
        BY <1>2, <3>2, StretchesAre
      <3>4. QED
        BY <1>9, <3>1, <3>3
    <2>3. QED
      BY <2>1, <2>2
  <1>13. History!LongestOf(idle) = Longest(idle) /\ History!LongestOf(ended) = Longest(ended)
    BY DEF History!LongestOf, History!RoundedUp, Longest, Minutes
  <1>14. audit.told.gaps.max_idle_gap = Longest(GapsSeen)
    <2>1. PICK t : t = audit.told
      OBVIOUS
    <2>2. t.gaps = OfOps.gaps
      BY <2>1 DEF HistoryInv, HistoryReported
    <2>3. QED
      BY <2>1, <2>2, GapsReported
  <1>15. idle = History!IdleStretches({i \in DOMAIN runs : runs[i].name \in History!LocalRunnerName})
    BY <1>1 DEF LocalRuns
  <1>16. ended = History!IdleStretches({i \in DOMAIN listed :
                      listed[i].status = "completed" /\ History!Productive(listed[i], audit.plan.min_sustain_minutes)})
    BY <1>2 DEF SeenEnding, PlanSustain
  <1>17. QED
    BY <1>8, <1>9, <1>10, <1>11, <1>12, <1>13, <1>14, <1>15, <1>16 DEF History!GapsAreReal

-----------------------------------------------------------------------------
(* What a strict audit that passes saw.                                    *)

\* An audit that misses nothing lacks nothing.
LEMMA NothingMissing ==
    ASSUME NEW E, History!Missing(E) = {}, NEW id, NEW x, NEW y
    PROVE  /\ History!Lacks(id, x > y) \in E => ~(x > y)
           /\ History!Lacks(id, x < y) \in E => ~(x < y)
  <1>1. \A f \in E : ~f.lacking
    BY DEF History!Missing
  <1>2. ASSUME History!Lacks(id, x > y) \in E PROVE ~(x > y)
    <2>1. PICK f \in E : f = [id |-> id, lacking |-> x > y]
      BY <1>2 DEF History!Lacks
    <2>2. f.lacking = (x > y)
      BY <2>1
    <2>3. QED
      BY <1>1, <2>2
  <1>3. ASSUME History!Lacks(id, x < y) \in E PROVE ~(x < y)
    <2>1. PICK f \in E : f = [id |-> id, lacking |-> x < y]
      BY <1>3 DEF History!Lacks
    <2>2. f.lacking = (x < y)
      BY <2>1
    <2>3. QED
      BY <1>1, <2>2
  <1>4. QED
    BY <1>2, <1>3

\* The operations audit passes only when no gap without recovery is too long.
LEMMA OpsPassed ==
    ASSUME OfOps.missing = {}
    PROVE  ~(OfOps.gaps.unrecovered > audit.plan.max_idle_gap)
  <1>1. PICK x, y : x = OfOps.gaps.unrecovered /\ y = audit.plan.max_idle_gap
    OBVIOUS
  <1>2. \A E : History!Missing(E) = {} /\ History!Lacks("idle_gap_slo", x > y) \in E => ~(x > y)
    BY NothingMissing
  <1>3. PICK gaps : gaps = OfOps.gaps
    OBVIOUS
  <1>4. x = gaps.unrecovered
    BY <1>1, <1>3
  <1>5. ~(x > y)
    BY <1>1, <1>2, <1>3, <1>4 DEF OfOps, History!OpsReport
  <1>6. QED
    BY <1>1, <1>5

ProvenRuns == {i \in DOMAIN listed : History!ProvenSustain(listed[i], PlanSustain)}

\* The cardinality in WorkflowHistory is the library's.
LEMMA HistoryCardinality == \A S : History!Cardinality(S) = Cardinality(S)
  BY DEF History!Cardinality, Cardinality

\* The black factor is exceeded only with as many proven runs as asked for.
LEMMA BlackPassed ==
    ASSUME HistoryInv, OfBlack.missing = {}, audit.plan.min_sustain_runs > 0
    PROVE  ProvenRuns # {}
  <1>1. PICK counted : counted = {i \in ProvenRuns : History!InWindow(listed[i], listed, PlanWindow)}
    OBVIOUS
  <1>2. PICK x, y : x = History!Cardinality(counted) /\ y = audit.plan.min_sustain_runs
    OBVIOUS
  <1>3. \A E : History!Missing(E) = {} /\ History!Lacks("sustain_run_count", x < y) \in E => ~(x < y)
    BY NothingMissing
  <1>5. ~(x < y)
    BY <1>1, <1>2, <1>3 DEF OfBlack, History!BlackFactorReport, ProvenRuns, PlanSustain, PlanWindow
  <1>6. ~(Cardinality(counted) < audit.plan.min_sustain_runs)
    BY <1>2, <1>5, HistoryCardinality
  <1>7. counted # {}
    BY <1>6, FS_EmptySet, PlanFacts
  <1>8. QED
    BY <1>1, <1>7

\* The whole system passes only on the three reports, that pass, and that see work.
LEMMA AgenticPassed ==
    ASSUME NEW lacking, History!AgenticSystemAudit(lacking, OfFlow, OfBlack, OfOps) = "ok"
    PROVE  OfOps.missing = {} /\ OfBlack.missing = {} /\ ~OfFlow.idle_without_work
  <1>1. PICK flow, black, ops : flow = OfFlow /\ black = OfBlack /\ ops = OfOps
    OBVIOUS
  <1>2. PICK given : given = [report \in {flow, black, ops} |-> IF lacking = "evidence" THEN {} ELSE {report}]
    OBVIOUS
  <1>3. PICK repository : \E ready : History!AgenticReport(repository, ready, given[flow], given[black], given[ops]) = {}
    BY <1>1, <1>2 DEF History!AgenticSystemAudit, History!Strict
  <1>4. PICK ready : History!AgenticReport(repository, ready, given[flow], given[black], given[ops]) = {}
    BY <1>3
  <1>5. PICK f, b, o : f = given[flow] /\ b = given[black] /\ o = given[ops]
    OBVIOUS
  <1>6. ASSUME NEW E, History!Missing(E) = {}, History!Lacks("always_growing", ~History!Growing(f, b, o)) \in E
        PROVE  History!Growing(f, b, o)
    <2>1. PICK lacks \in E : lacks = [id |-> "always_growing", lacking |-> ~History!Growing(f, b, o)]
      BY <1>6 DEF History!Lacks
    <2>2. lacks.lacking = ~History!Growing(f, b, o)
      BY <2>1
    <2>3. QED
      BY <1>6, <2>2 DEF History!Missing
  <1>7. History!AgenticReport(repository, ready, f, b, o) = {}
    BY <1>4, <1>5
  <1>8. History!Growing(f, b, o)
    <2>1. PICK E : E = History!AgenticEvidence(ready, f, b, o)
      OBVIOUS
    <2>2. History!Missing(E) = {}
      BY <1>7, <2>1 DEF History!AgenticReport
    <2>3. History!Lacks("always_growing", ~History!Growing(f, b, o)) \in E
      BY <2>1 DEF History!AgenticEvidence
    <2>4. QED
      BY <1>6, <2>2, <2>3
  <1>10. black.exceeded /\ ops.ready /\ ~flow.idle_without_work
    BY <1>1, <1>2, <1>5, <1>8 DEF History!Growing
  <1>11. (black.exceeded => black.missing = {}) /\ (ops.ready => ops.missing = {})
    BY <1>1 DEF OfOps, OfBlack, History!OpsReport, History!BlackFactorReport
  <1>12. QED
    BY <1>1, <1>10, <1>11

\* What was told when an audit passed.
LEMMA PassedFacts ==
    ASSUME HistoryInv, audit.step = "told"
    PROVE  /\ "ok" \in {audit.told.ops, audit.told.agentic} => OfOps.missing = {}
           /\ "ok" \in {audit.told.black, audit.told.agentic} => OfBlack.missing = {}
           /\ ~audit.told.idle \/ audit.told.agentic = "ok" => ~OfFlow.idle_without_work
  <1>1. PICK lacking \in {"nothing", "evidence", "lane", "drift", "adapting"} :
            audit.told = [gaps |-> OfOps.gaps, idle |-> OfFlow.idle_without_work,
                          flow |-> History!RunnerFlowAudit(OfFlow), black |-> History!RunnerBlackFactorAudit(OfBlack),
                          ops |-> History!RunnerOpsSloAudit(OfOps),
                          agentic |-> History!AgenticSystemAudit(lacking, OfFlow, OfBlack, OfOps)]
    BY DEF HistoryInv, HistoryReported
  <1>2. /\ audit.told.ops = History!Strict(OfOps.missing) /\ audit.told.black = History!Strict(OfBlack.missing)
        /\ audit.told.agentic = History!AgenticSystemAudit(lacking, OfFlow, OfBlack, OfOps)
    BY <1>1 DEF History!RunnerOpsSloAudit, History!RunnerBlackFactorAudit
  <1>3. audit.told.idle = OfFlow.idle_without_work
    BY <1>1
  <1>4. (audit.told.ops = "ok" => OfOps.missing = {}) /\ (audit.told.black = "ok" => OfBlack.missing = {})
    BY <1>2 DEF History!Strict
  <1>5. audit.told.agentic = "ok" => OfOps.missing = {} /\ OfBlack.missing = {} /\ ~OfFlow.idle_without_work
    BY <1>2, AgenticPassed
  <1>6. QED
    BY <1>3, <1>4, <1>5

\* The gap around a long idle stretch was recovered.
LEMMA IdlenessAnswered == HistoryInv => History!IdlenessIsAnswered
  <1> SUFFICES ASSUME HistoryInv, audit.step = "told", "ok" \in {audit.told.ops, audit.told.agentic},
                      NEW s \in History!IdleStretches(LocalRuns), History!RoundedUp(s[2] - s[1]) > audit.plan.max_idle_gap
               PROVE  \E p \in DOMAIN prs, i \in DOMAIN runs :
                          /\ prs[p].recovery /\ prs[p].state = "MERGED" /\ prs[p].merged_at >= s[2]
                          /\ runs[i].created >= prs[p].merged_at /\ runs[i].conclusion = "success"
    BY DEF History!IdlenessIsAnswered, History!Told, LocalRuns
  <1>1. IdleIn(LocalRuns, s)
    BY StretchesAre
  <1>2. PICK g \in GapsSeen : g[1] \in Int /\ g[2] \in Int /\ g[1] <= s[1] /\ s[2] <= g[2]
    BY <1>1, GapFacts
  <1>3. Minutes(s) \in Int /\ Minutes(g) \in Int /\ Minutes(s) <= Minutes(g)
    BY <1>1, <1>2, MinutesOfPart
  <1>4. Minutes(s) > audit.plan.max_idle_gap
    BY DEF History!RoundedUp, Minutes
  <1>5. ~(OfOps.gaps.unrecovered > audit.plan.max_idle_gap)
    BY PassedFacts, OpsPassed
  <1>6. PICK rest : rest = GapsSeen \ Recovered
    OBVIOUS
  <1>7. \A h \in rest : IdleIn(SeenEnding, h)
    BY <1>6, GapFacts
  <1>8. \E n \in Nat : \A h \in rest : h[2] - h[1] \in Int /\ h[2] - h[1] <= n
    BY <1>7, StretchesEnd
  <1>9. Longest(rest) \in Int /\ \A h \in rest : Minutes(h) \in Int /\ Minutes(h) <= Longest(rest)
    BY <1>8, LongestFacts
  <1>10. ~(Longest(rest) > audit.plan.max_idle_gap) /\ audit.plan.max_idle_gap \in Int
    BY <1>5, <1>6, GapsReported, PlanFacts
  <1>11. g \notin rest
    BY <1>3, <1>4, <1>9, <1>10
  <1>12. History!GapRecovered(g[2], listed, prs)
    BY <1>6, <1>11 DEF Recovered
  <1>13. PICK p \in DOMAIN prs :
             /\ prs[p].state = "MERGED" /\ prs[p].recovery
             /\ prs[p].merged_at \in g[2] .. g[2] + IdleRecoverySecs
             /\ History!RehydratedAfter(prs[p].merged_at, listed)
    BY <1>12 DEF History!GapRecovered
  <1>14. PICK i \in DOMAIN listed :
             /\ listed[i].created \in prs[p].merged_at .. prs[p].merged_at + RehydrationSecs
             /\ listed[i].conclusion = "success"
    BY <1>13 DEF History!RehydratedAfter, History!SuccessfulWatchRehydration, History!SuccessfulSustain, History!Succeeded
  <1>15. i \in DOMAIN runs /\ listed[i] = runs[i]
    BY WindowFacts
  <1>16. s[2] \in Int
    BY <1>1, WindowFacts DEF IdleIn, HistoryInv, Clock
  <1>17. prs[p].merged_at >= s[2] /\ runs[i].created >= prs[p].merged_at /\ runs[i].conclusion = "success"
    <2>1. PICK m, c : m = prs[p].merged_at /\ c = listed[i].created
      OBVIOUS
    <2>2. IdleRecoverySecs \in Nat /\ RehydrationSecs \in Nat
      BY AuditsAssumption DEF History!WorkflowAuditsConstants
    <2>3. m \in Int /\ m >= g[2]
      BY <1>2, <1>13, <2>1, <2>2
    <2>4. c >= m
      BY <1>14, <2>1, <2>2, <2>3
    <2>5. QED
      BY <1>2, <1>14, <1>15, <1>16, <2>1, <2>3, <2>4
  <1>18. QED
    BY <1>13, <1>15, <1>17

\* The work the flow audit saw is in the lists.
LEMMA WorkWasThere ==
    ASSUME HistoryInv, audit.step = "told", ~OfFlow.idle_without_work
    PROVE  (\E i \in DOMAIN runs : runs[i].status # "completed") \/ DOMAIN prs # {}
  <1>1. PICK waiting : waiting = History!WithStatus(listed, History!WorkflowName, History!Backlog)
    OBVIOUS
  <1>2. waiting # {} \/ DOMAIN open # {}
    BY <1>1 DEF OfFlow, History!FlowReport
  <1>3. CASE waiting # {}
    <2>1. PICK i \in DOMAIN listed : listed[i].status \in History!Backlog
      BY <1>1, <1>3 DEF History!WithStatus
    <2>2. i \in DOMAIN runs /\ listed[i] = runs[i]
      BY WindowFacts
    <2>3. QED
      BY <2>1, <2>2 DEF History!Backlog
  <1>4. CASE DOMAIN open # {}
    BY <1>4 DEF HistoryInv, Listing
  <1>5. QED
    BY <1>2, <1>3, <1>4

\* A run the audit takes for proven was unfinished in as many seconds.
LEMMA ProvenWas ==
    ASSUME HistoryInv, audit.step = "told", NEW i \in ProvenRuns
    PROVE  /\ i \in DOMAIN runs /\ runs[i].name = "Runner Sustain" /\ runs[i].conclusion = "success"
           /\ Cardinality({t \in DOMAIN alive : i \in alive[t]}) >= PlanSustain * Minute
  <1>1. PICK c, u : c = runs[i].created /\ u = runs[i].updated
    OBVIOUS
  <1>2. i \in DOMAIN runs /\ listed[i] = runs[i] /\ History!ProvenSustain(runs[i], PlanSustain)
    BY WindowFacts DEF ProvenRuns
  <1>3. now \in Nat /\ c \in 0 .. now /\ u \in c .. now
    BY <1>1, <1>2 DEF HistoryInv, Clock, Spans, RunShape
  <1>4. /\ runs[i].name = "Runner Sustain" /\ runs[i].conclusion = "success" /\ runs[i].status = "completed"
        /\ (u - c) \div Minute >= PlanSustain
    <2>1. /\ History!SuccessfulSustain(runs[i])
          /\ (runs[i].updated - runs[i].created) \div Minute >= PlanSustain
      BY <1>2, Zenon DEF History!ProvenSustain
    <2>2. (u - c) \div Minute >= PlanSustain
      BY <1>1, <2>1, Zenon
    <2>3. QED
      BY <2>1, <2>2 DEF History!SuccessfulSustain, History!Succeeded
  <1>5. u - c >= PlanSustain * Minute
    <2>1. PICK d, m, x : d = Minute /\ m = PlanSustain /\ x = u - c
      OBVIOUS
    <2>2. d \in Nat \ {0} /\ m \in Int /\ x \in Int
      BY <1>3, <2>1, PlanFacts
    <2>3. x \div d >= m
      BY <1>4, <2>1, Zenon
    <2>4. x >= m * d
      BY <2>2, <2>3, DivisionBounds
    <2>5. QED
      BY <2>1, <2>4
  <1>6. {t \in DOMAIN alive : i \in alive[t]} = c + 1 .. u
    <2>1. DOMAIN alive = 1 .. now
      BY LenProperties DEF HistoryInv, Clock, IsSequence
    <2>2. \A t \in 1 .. now : i \in alive[t] <=> c < t /\ t <= u
      BY <1>1, <1>2, <1>4, UnfinishedThen DEF SpansOver
    <2>3. QED
      BY <1>3, <2>1, <2>2
  <1>7. Cardinality(c + 1 .. u) = u - c
    <2>1. PICK a, b : a = c + 1 /\ b = u
      OBVIOUS
    <2>2. a \in Int /\ b \in Int /\ a <= b + 1
      BY <1>3, <2>1
    <2>3. Cardinality(a .. b) = IF a > b THEN 0 ELSE b - a + 1
      BY <2>2, FS_Interval
    <2>4. QED
      BY <1>3, <2>1, <2>2, <2>3
  <1>8. QED
    BY <1>2, <1>4, <1>5, <1>6, <1>7

\* What is told of a history that fits the invariant is so.
LEMMA HistoryTold == HistoryInv => History!IdleIsTold
  <1> SUFFICES ASSUME HistoryInv PROVE History!IdleIsTold
    OBVIOUS
  <1>1. ASSUME History!Told, ~audit.told.idle \/ audit.told.agentic = "ok"
        PROVE  (\E i \in DOMAIN runs : runs[i].status # "completed") \/ DOMAIN prs # {}
    BY <1>1, PassedFacts, WorkWasThere DEF History!Told
  <1>2. ASSUME History!Told, "ok" \in {audit.told.black, audit.told.agentic}, audit.plan.min_sustain_runs > 0
        PROVE  \E i \in DOMAIN runs :
                   /\ runs[i].name = "Runner Sustain" /\ runs[i].conclusion = "success"
                   /\ History!Cardinality({t \in DOMAIN alive : i \in alive[t]}) >= audit.plan.min_sustain_minutes * Minute
    <2>1. PICK i \in ProvenRuns : TRUE
      BY <1>2, PassedFacts, BlackPassed DEF History!Told
    <2>2. /\ i \in DOMAIN runs /\ runs[i].name = "Runner Sustain" /\ runs[i].conclusion = "success"
          /\ Cardinality({t \in DOMAIN alive : i \in alive[t]}) >= audit.plan.min_sustain_minutes * Minute
      BY <1>2, ProvenWas DEF History!Told, PlanSustain
    <2>3. QED
      BY <2>2, HistoryCardinality
  <1>3. QED
    BY <1>1, <1>2, GapsReal, IdlenessAnswered DEF History!IdleIsTold

\* What the flow, black-factor, operations and system audits of forge_loop.rs tell of idle
\* gaps, of their recovery, of work and of proven sustain runs happened on GitHub, for
\* every history, plan and window.
THEOREM IdleTold == Spec => []IdleIsTold
  <1>1. (subject = "history" => HistoryInv) /\ [Next]_vars => (subject = "history" => HistoryInv)'
    BY HistoryRuns, HistoryKept
  <1>2. (subject = "history" => HistoryInv) => IdleIsTold
    BY HistoryTold DEF IdleIsTold
  <1>3. QED
    BY <1>1, <1>2, HistoryRuns, PTL DEF Spec
=============================================================================
