# Verification of flexnetos_runner

TLA+ models of the runner's dispatch path and of its operator's program, the
configurations that model-check them, and TLAPS proofs of what matters most about
them. Line numbers refer to the sources under `crates/`; `main.rs` alone is
`crates/runner-dispatch/src/main.rs`, `forge_loop.rs`, `runner_state.rs` and
`release.rs` are in `crates/runner-cli/src`.

## 1. The system

The control plane sends a signed job to a Unix socket. `runner-dispatch` accepts
one connection at a time, reads the whole frame, puts it through a chain of
admission gates, runs a kernel (an external program) for it, and answers with an
outcome and advice. Everything the gates remember from one connection to the
next lives in the memory of that one process, in small ledgers defined in
`runner-core`. What it decides goes to two audit logs. A separate program, `fxrun`
(`runner-cli`), is the operator's: it drives Codex through a work loop over a git
checkout and GitHub, settles the runner state that accumulates in the same
checkout, audits what the runners and the loop have done, and builds releases.

### Components, state, operations

| component | source | state | operations |
|---|---|---|---|
| budget governor | `governor.rs`, `cost.rs` | spend per dimension, grace used | `admit`, `charge`, `tier` |
| rate limiter | `ratelimit.rs` | admission times of the window, cooldown per route | `check`, `record_failure`, `clear_route` |
| loop breaker | `loopguard.rs` | the last fingerprints dispatched | `observe` |
| single-flight lock | `singleflight.rs` | holder per target, next sequence number | `try_acquire`, `release` |
| recovery routing | `recovery.rs` | retry attempts per fingerprint | `decide`, `clear` |
| quarantine | `quarantine.rs` | failures per fingerprint, latched fingerprints | `record_failure`, `is_quarantined`, `clear` |
| risk ledger | `risk.rs` | outcomes per fingerprint | `record`, `assess` (advice only) |
| stateless gates | `authority.rs`, `approval.rs`, `safety.rs`, `lint.rs`, `scan.rs`, `targets.rs`, `stategate.rs`, `constitution.rs`, `router.rs`, `deadline.rs`, `liveness.rs` | none; policies fixed at start | one check each |
| dispatcher server | `main.rs` `serve`, `serve_stream`, `handle_request`, `handle_failure` | the connection; owns all ledgers | accept, read, gates, run, answer |
| subprocess invoker | `main.rs` `SubprocessInvoker`, `workspace.rs` | workspace, child process, pump threads, last activity | one `invoke` per admitted job |
| socket and start | `main.rs` `main`, `prepare_socket_path`, `serve` | the socket path, shared by all servers that are started on it | configure, check, look, remove, bind, harden |
| audit events, redaction | `events.rs`, `redact.rs`, `main.rs` sinks | two append-only files, the registered secrets | emit: scrub, append to all, append to policy |
| agent selection | `agent.rs` | none | parse, resolve, invocation |
| forge loop: cycle | `forge_loop.rs` `run`, `publish_self_upgrade_if_needed` | checkout, branch, request, event log | one cycle |
| forge loop: evaluation | `forge_loop.rs` `run --dry-run`, `eval`, `self_upgrade` | metrics and manifest of the last dry run | dry run, evaluate, plan an upgrade |
| forge loop: audits | `forge_loop.rs`, `collect-runner-queue-evidence.sh`, `runner-black-factor-watch.yml` | none; evidence files that others write | flow, black-factor, ops, agentic; queue; fleet; docs, components, targets, schema |
| runner state settlement | `runner_state.rs` | a git work tree, its index and branch | audit, normalise, settle |
| release gate, CLI | `release.rs`, `fxrun` `main.rs`, `build-local-ubuntu-release.sh` | a staging directory, an archive and its checksum | route, release check, release build |
| JIT lifecycle | `lifecycle.rs` | none | an enumeration nothing drives |
| runner harness, other workflows, scripts | `nix/`, `scripts/`, `.github/` | deployment | start, register, repair |

### How they interact

`handle_request` calls everything. Before the kernel: constitution check, parse,
signatures, authority, lint, scan, fork, approval, quarantine, target allow-list,
state gate (which reads the governor's tier), single-flight, rate limiter, loop
breaker, governor. After a delivery: charge, and clear the retry, quarantine and
cooldown entries, record the outcome. After a failure: record the outcome, draw
on the retry ledger, count towards quarantine, start the cooldown. The
single-flight permit is given back by `Drop` on every path. The clock is sampled
once, when the connection is accepted (`main.rs:1413`), and that reading is used
both for the admission and, after the kernel has run, for the failure.

Concurrency is in the invoker: the invoking thread polls the child and the clock
while two pump threads drain the child's output and note activity, the child may
end at any time and may leave processes behind that hold its pipes. Between
connections the sealed files may change, and the whole process may be restarted,
which forgets all ledgers. Two servers may be started on one path; they share
nothing but the file system there, and the files of the audit logs.

`fxrun` keeps no process. Its commands meet in files: the forge-loop cycle and
`runner-state` use one checkout, one index and one branch without a lock, while
runners and GitKB write in it; dry runs and evaluations share one directory; the
audits read listings of GitHub, of the queue and of `/proc` that are taken call by
call while what they list goes on. `fxrun release` looks for a workspace and its
tools and starts a script that looks for both again.

### What is hard, and what makes each component correct

- *Governor.* Admission looks at the spend before a job, the cost is known after
  it; grace admissions come on top; counters saturate. Correct: the overrun is
  bounded, and a refusal never turns back into an admission.
- *Rate limiter.* Off-by-one in time, lazy pruning, an entry per route. Correct:
  no window is overfull, no cooldown is cut short, hints are exact.
- *Loop breaker.* Evict-after-push. Correct: bounded passes, no false trips.
- *Single-flight.* Leases can be cloned and released late. Correct: the ledger is
  the running dispatches.
- *Dispatcher.* Six ledgers advanced by different calls and cleared at different
  times, early returns, restarts. Correct: they stay consistent with one another,
  and together they implement a simple promise (`DispatchService`).
- *Invoker.* Races between printing, pumping, polling, exit and kill; reads and
  writes of the pumps that fail unnoticed. Correct: nothing is left behind, output
  that comes before an answer by the exit status is relayed in full unless its stream
  failed, no noted output is overlooked when a kernel is found silent, and the
  invocation ends.
- *Server start.* Look, remove, bind and harden are separate calls on a path.
  Correct: between starts the path is a hardened socket that is served.
- *Audit logs.* An event is appended to up to two files, and each append is two
  writes, the text and its newline. Either can fail, the text in part, a server can be
  killed between them and another can write there. Correct: an event whose writes went
  well is whole and ended in its logs, what stands of an event in both is the same,
  only a failed write or another server's can spoil a line, and both logs are free of
  secrets.
- *Cycle and settlement.* A sequence of git and gh commands, each of which can fail,
  in a checkout others write to. Correct: a request holds what Codex left, the event
  log is at most one effect behind GitHub, runner identity survives, and a settle
  after any failure comes to a clean state.
- *Audits.* Evidence that is stale, cut short or torn between calls; merges, windows
  and ancestors. Correct: what is told was so.
- *Route and release.* The same things found twice by different rules. Correct: the
  first source that speaks decides, a release is complete and proven.

`PROJECT.json` lists the hazards line by line with the properties that watch them.

## 2. The modules

    DispatchService            what the dispatcher promises (abstract)
      ^ implemented by
    Dispatcher                 the server process; EXTENDS Gates, and INSTANCEs
      Gates                    the stateless gates, their order, a frame's facts
      Governor  RateLimiter  LoopGuard  Recovery
      Quarantine  RiskLedger  SingleFlight
    DispatcherHistory          the instance MCDispatcher with history, for the refuted
                               statements
    AdmissionLimits            EXTENDS Governor, RateLimiterHistory: both limits in turn
    DispatchGates              EXTENDS SingleFlightWorkers, INSTANCEs LoopGuardHistory:
                               overlapping dispatches, the target and then the breaker
    Invoker                    one delegation, its threads, the kernel and time
    Checkout                   EXTENDS ForgeLoop, RunnerState, both over
      WorkTree                 the git checkout and GitHub
    Audits                     INSTANCEs eight parts that share no state:
      WorkflowHistory          runs and requests on GitHub, EXTENDS
        WorkflowAudits         the burn-in audits and the health of the runners
      QueueAudit  FleetAudit   the queue evidence and /proc, with their audits
      CycleEval                dry runs, evaluation, self-upgrade
      RepoAudits               docs, components, mined targets, output schema
      ServerStart              dispatchers starting on one path
      AuditTrail               the events and the two logs they are appended to
      OperatorCli              fxrun route and release, the release script
    AdmissionLimitsProofs, DispatchGatesProofs, DispatcherProofs, InvokerProofs,
    CheckoutProofs, AuditsProofs, FleetAuditProofs, EvidenceProofs
                               theorems about each of these, checked by TLAPS
    MC*                        small instances for TLC

`Governor` and `RateLimiter` are specifications of their own, with the calling
discipline of `handle_request` as their Next; the dispatcher run
`dispatcher_timing` shows that `Dispatcher` steps are steps of them
(`GovernorAsSpecified`, `RateLimiterAsSpecified`), so what is checked and proved
of them alone holds inside the dispatcher. The other ledgers are operators on
their own variables that `Dispatcher` and the `*History` / `*Workers` modules use
as they are.

`Audits` is a disjoint union: in its initial states one part is chosen, the
variables of the others are "unused", and the behaviour is one of that part alone.
The parts share no state in the code either; each property names its part.

Correspondence with the code:

- Variables have the names of the fields they stand for: `spent`, `grace_used`
  (`Governor`), `recent`, `cooldown_until` (`RateLimiter`), `seen` (`LoopGuard`),
  `active`, `next_sequence` (`SingleFlightLock`), `attempts` (`RetryLedger`),
  `failures`, `quarantined` (`QuarantineLedger`), `history` (`RiskLedger`).
- A hash map is a total function with a neutral value for absent keys (0, or
  `Free`); the code never tells absent and neutral apart.
- A fingerprint is a model value; a job's class and target are functions of it
  because they are part of what is hashed, while its id and fork flag are not.
- A frame is the facts the gates look at: does it parse, do the two signatures
  verify, tier, grant, scan severity, requested limits.
- `handle_request` from the constitution check to a refusal or to the start of
  the kernel is one action, as nothing else runs in the process: `RefuseAtGate`,
  `RefuseRate`, `RefuseLoop`, `RefuseBudget`, `Start`. From the end of the kernel
  to the response is one action: `Delivered`, `Fails`. `Accept`, `ReadFails`,
  `Respond` are the connection; `Tick`, `Drift`, `Restore`, `Restart` are the
  world.
- In `Invoker` the invoking thread polls, looks at the deadline, looks at `activity`
  under its lock, and kills in separate actions; a pump thread reads, notes the time
  under the lock and relays what it read in separate actions. The kernel, its helper,
  the pumps and time move between any two. A read by a pump may fail, which ends it,
  and a write by one may fail, which loses what was read; neither is told to anybody
  (`faulty`). Output is counted in buffers of a pump. Merged into one action are
  `kill()` and the `wait()` after it, between which nothing is decided; what a phase of
  the start does before it fails or not (encoding the job, its stderr file); and a read
  of the clock with its comparison. `still`, the time since something
  was printed, is history that the code does not have. A process holds or drops both
  output pipes together; it does not close one of them. A thread that cannot be
  created is a panic of the server and left out.
- In `Checkout` a file is its sequence of lines and a path is known by the tests the
  code makes on its name; every git or gh command, every rewritten file and every
  appended event is one step that can fail, after which the cycle or the command is
  over and what it did stays. `git add` fails besides when it is given a path that git
  ignores and has not staged (`_work`, in `AddSnapshot`) or one that is gone from the
  tree and the index (`AddListed`).
- In `WorkflowHistory`, `QueueAudit` and `FleetAudit` the world moves between any two
  reads (`GitHub`, `JobGoesOn`, `Fork`, `Exit`); the audit is an operator on what was
  read, translated with its windows, merges and blockers.
- In `CycleEval` the metrics and the manifest are two files and two reads. The
  prompt, which the pair check compares, is a function of the goal, the merge flag
  and the `CODEX_HOME`.
- In `RepoAudits` a repository is the lines the audits look at: headings and marks of
  the ledger, keys of the checklist and of two configuration files, the components
  that are there, the terms that are gone, a schema as a tree of labelled nodes in
  which one has the keyword looked for.
- In `ServerStart` the check of the path, the look at it, the removal, the bind and the
  hardening are an action each, and a `Kill` may come between any two.
- In `AuditTrail` a log is what was written to it, in order: texts of events, whole or
  torn, and newlines. `writeln!` on a file without a buffer is two writes
  (`WriteText`, `WriteNewline`), each of which may fail (`WriteFails`), and a server may
  be killed before either (`KillWriter`). To open the file is part of the first; an open
  that fails is a write that leaves nothing, and a short write that is not completed
  leaves a torn text. One write lands in one piece, as files are opened to append.
- In `OperatorCli` the places a workspace or tool may be found at are members of a
  sequence, best first; fxrun and the script each take the first of their own.
- Operators introduced as "Faulty variant" are mistakes a change to that code
  could introduce. The specification does not use them; each is the counterpart
  of a property that must fail once the definition it varies is replaced by it.

## 3. The runs

| run | configuration | checks |
|---|---|---|
| limits | `MCAdmissionLimits` | `OverrunBounded`, `RefusalLatches`, `TierNeverImproves`, `WindowCapHolds`, `WindowIsExact`, `RetryAfterExact`, `CooldownHolds` |
| gates | `DispatchGates` | `LedgerMatchesRunning`, `BreakerCountsExactly`, `BusyIsNotObserved` |
| dispatcher | `MCDispatcher.cfg` | `JobsAccountedFor`, `LedgersAgree`, `TargetHeldWhileRunning`, `QuarantineIsTerminal`, `RetryBudgetIsOwn`, `KeepsItsPromise` |
| dispatcher_timing | `MCDispatcherTiming.cfg` | `BackPressureIsFree`, `GovernorAsSpecified`, `RateLimiterAsSpecified` |
| invoker | `Invoker` | `LeavesNothingBehind`, `DeliveredInFull`, `OnlySilenceIsStopped`, `EndsUnlessHeld` |
| checkout | `MCCheckout` | `SettleConverges`, `LogTellsEffects`, `PublishesExactly`, `PreservedStateSurvives` |
| audits | `MCAudits` | `IdleIsTold`, `QueueIsTold`, `FleetIsTold`, `EvaluationIsSound`, `RepoIsTold`, `ServerIsReachable`, `AuditTrailAgrees`, `DetailsAreScrubbed`, `OperatorIsTold` |
| refute_cooldown | `RefuteCooldown` | refutes `CooldownFollowsFailure` |
| refute_breaker | `RefuteBreaker` | refutes `AdvisedRetryPasses` |
| refute_deadline | `RefuteDeadline` | refutes `DeadlineEnforced` |
| refute_strict | `RefuteStrict` | refutes `StrictFailsClosed` |
| refute_guards | `RefuteGuards` | refutes `GuardsAreProven` |

The type invariants of `Governor`, `Dispatcher`, `Invoker` and `Checkout` are checked in
the first run of each, and proved; those of the rate limiter and of the gates are proved.

What the properties mean of which the name does not say enough:

- `DeliveredInFull`: when `invoke()` goes from the join of the pumps to its answer, each
  pumped stream is read to its end, everything read has been passed on and nobody
  is left who could print more, unless a read or a write of that stream's pump failed. It
  rests on when a pump ends and when the wait loop is left, not on the guard of the join.
- `OnlySilenceIsStopped`: at the poll that finds the kernel silent, nothing was printed for
  the idle time, by the clock of who prints, or what was printed is still unread or not
  yet noted by its pump. The kill comes later, and output in between does not save the kernel.

- `SettleConverges`: a settle of all slots that commits and runs alone finds nothing in
  its last audit, whatever an earlier, failed command left. `PreservedStateSurvives`: no
  step of a command changes a file that is neither GitKB's nor known churn, and a
  dedupe loses only the entry a runner adds under its hands.
- `PublishesExactly`: a request that is reported open holds every source file as Codex
  left it and nothing that was not listed, unless settle used the index meanwhile.
  `LogTellsEffects`: an event never precedes its effect on GitHub, and at most one
  effect is without its event.
- `IdleIsTold`: an idle gap that is told was one; an audit that passes leaves no gap
  longer than allowed that was not answered by a merged recovery and a run that
  succeeded after it; a proof rests on a sustain run that really lasted.
- `QueueIsTold`, `FleetIsTold`: what is told was so during the collection; what was so all
  through it is told, once; the limits of a strict audit hold for it.
- `EvaluationIsSound`: an accepted pair was asked for by one dry run in the home of the
  evaluation, a promotion has its red test and gates, and nothing worse scores more.
- `RepoIsTold`: the answers of the four file audits are those of a definition that does
  not walk the file as the code does (blocks, trees, tables).
- `AuditTrailAgrees`: no log has the text of an event twice, and what both hold of an event
  is the same. An event no write of which failed is in the log of all events and, if
  and only if a gate denied it, in the policy log; its text is whole and its newline
  comes after it with nothing in between but what other servers wrote. The text of any event
  begins a line, unless what precedes it was left by a write that failed or is another
  server's. It does not say that an event has a line of its own, which is not
  so (section 4). `DetailsAreScrubbed`: what stands there has no secret left and, where secrets
  do not overlap, lost nothing else.
- `ServerIsReachable`, `OperatorIsTold`: as in section 1.

### Bounds, and why they are enough

- *limits:* a job cap of 4, a token cap of 3 with costs up to 2 and counters that
  saturate at 4, no USD cap, one grace admission; two routes, two admissions per
  three seconds, cooldown of two, seven instants. Caps are met exactly, overshot,
  and overshot into saturation; three windows follow one another, and the cooldown
  ends inside a full window.
- *gates:* two targets, one id, six attempts, two fingerprints, breaker at 2 in 3:
  one target is held several times by the same id, the first lease is released late
  twice, entries are evicted and a tripped fingerprint ages out and passes again.
- *dispatcher:* eleven frames, one per gate outcome, over three fingerprints of
  three classes, two of which share a target; quarantine after 2 failures, breaker at 4 in 5, a job cap of 4
  with one grace, six dispatches, one restart at any point, one sealed file that
  drifts and is restored.
- *dispatcher_timing:* the rate window, cooldown, deadlines and the state gate
  over five instants and five dispatches, without restart.
- *invoker:* deadline 3, idle timeout 2 and clocks that stop counting at 3; past
  both limits times are not told apart, so the run is not cut off in time. A pipe
  holds one buffer (`PipeSize`), so that output is unread, being noted and being relayed
  at once and the next blocks; the theorems have pipes of any size. The job does not fit the stdin
  pipe, so that the kernel may print, fork or end while it is written.
- *checkout:* one file of each kind the rules tell apart, one runner-state command
  (`MaxCalls`) of every kind and one cycle (`MaxCycles`), one write by runners or GitKB
  (`MaxWrites`) and one edit by Codex (`MaxEdits`), from clean and dirty trees with and
  without a `.gitignore` that hides `_work`. A failed command leaves its state to the
  other one, so settle meets what a cycle left half done and the other way round.
- *audits, history:* five instants (`MaxNow`) in minutes of two seconds, three runs with a
  watch or a check among them, listings cut at 2 or 3 runs (`RunLimits`, for
  `RUN_HISTORY_LIMIT`): a gap, an answer to it, and a listing that loses the oldest run.
- *audits, queue:* three jobs in two runs, a listing cut at one run of each status,
  two collections, one lost call. *Fleet:* six pids, two workers, a search of depth 3 standing
  for 64. *Evaluation:* two dry runs, two homes, measures on both sides of each
  boundary of the score. *Repository:* ledgers and checklists of up to 3 lines, schemas of
  5 nodes, which is the deepest path the code asks for with one node between.
- *audits, server:* three servers, five starts (`MaxStarts`), one edit by an operator.
  *Logs:* two servers, two events, one event whose writes fail (`MaxFailures`), an outcome of
  each category; texts with secrets that overlap and one too short to be registered. *Operator:* every combination of
  the sources of an agent; releases with every place the root can be found at, every
  subset of the tools, a catalog of two components and a name that is in none.

`MaxTime`, `MaxDispatches`, `MaxRestarts`, `MaxObserved`, `MaxSequence` and
`MaxCost` are the bounds on what could otherwise grow without limit. Deadlock is
not checked where a bound or a finished delegation ends the behaviour.

### Fairness

Only `Invoker` states fairness, and only of what the process itself schedules:
its invoking thread runs (`WF(InvokerStep)`), each pump thread reads, notes and sees
end-of-file (`WF(PumpStep)`), what the stderr pump relays goes to a file and that write
returns (`WF(RelayStep("stderr"))`), time passes (`WF(Tick)`). Nothing is assumed of the
kernel, of a process it leaves behind, or of whoever reads the server's own stdout, to
which the other pump relays. `EndsUnlessHeld` is checked under this fairness: a
delegation with a deadline ends unless the kernel never reads a job that does not fit
the stdin pipe, a helper holds the output for ever, or the write to the server's stdout
never returns; there is no fourth way.
The dispatcher has no liveness property of its own: it waits for clients, without
a timeout. The commands of `fxrun` run once and end, at any step.

## 4. Where documents and code differ

Five statements of the documentation are refuted by a run:

1. *Cooldown* (`ratelimit.rs:14-16`, "after a route fails, hold further
   dispatches ... for `route_cooldown_secs`"): the cooldown starts when the failed
   dispatch was accepted, not when it failed. A kernel that runs for as long as
   the cooldown uses it up. The limiter itself keeps its word in the times it is
   given (`CooldownHolds`).
2. *Breaker* (`main.rs:918`, "Distinct work and normal retries pass"): with the
   default settings a retry the runner has just advised can trip the breaker,
   because deliveries stay in the window.
3. *Deadline* (`main.rs:397-398`, "this never blocks"): the write of the job to the
   kernel's stdin precedes the watchdog; a job larger than the pipe and a kernel
   that does not read hold the invoker, and with it the server. The job's size is
   not bounded by any gate.
4. *Strict settle* (`docs/forge-loop/runner-state-settle.md:19`, denied paths "fail
   closed under strict gates"): the gate is tested after the commit and the push,
   on the tree they cleaned (`runner_state.rs:254`). A denied path is published.
5. *Guards* (`docs/kclaw0-upgrade-ledger.md:432`, the audit "proves ... regression guard
   evidence"): guard terms are looked for in the file whose own table lists them
   (`forge_loop.rs:3535`), so a guard is never missed. The test named at
   `forge_loop.rs:3560` is gone already.

Noted while reading, not run: the window counts accept times, so actual kernel
starts may be closer together (`main.rs:1413`); the job id is called the dedup key
(`jobspec.rs:59`) and nothing deduplicates by it; a drifted constitution refuses
dispatch "until re-armed" (`main.rs:630`) but putting the file back is enough; the
failure that latches the quarantine may be answered with advice to retry; a
kernel that ends between the poll and the kill is answered `TimedOut`; "every yielded
byte resets liveness" (`main.rs:360`), but no pump runs while the job is written to the
kernel's stdin, so that the first poll may find a kernel silent that printed all the
while, and what is printed between the look at `activity` and the kill comes too late
(`OnlySilenceIsStopped` says how far the code goes); "one JSON object per line"
(`main.rs:512`), but text and newline are two writes, and a kill or a full disk after the
first, or another server in between, leaves a line on which the next event is written
too (`AuditTrailAgrees` says what can spoil a line and what not); a state
gate's deferral says "retry later" although the tier never improves while the
process lives (`TierNeverImproves`).

In `fxrun`: `.kb/store` is called preserved (`runner_state.rs:508`) and removed
(`runner_state.rs:357`); git quotes names that are not ASCII, which the settlement
reads as they are printed; `fxrun forge-loop self-upgrade` evaluates the built-in fixture where its help
says "latest evaluation/research result" (`forge_loop.rs:90`); a cycle that changed no
file can be promoted; a required command that stands twice in the checklist hides one
that is missing (`forge_loop.rs:3958`); of the repeated runs of one check the best
news wins, also when it is the older; the watch does not list the branch of a run;
waiting runs are listed by no call of the collector; two dispatchers can serve at once, the
older one unreachable (`main.rs:1259`); `--root` together with an environment that
names another workspace, or `FXRUN_RELEASE_DIR`, lets a release land elsewhere than
`fxrun release` announced (`release.rs:142`, "Mirrors the script default"); an unknown
name among the components is ignored when another matches; the proof gate passes when
CodeDB cannot be asked.

## 5. What is proved

Every property of the runs `limits`, `gates`, `dispatcher`, `dispatcher_timing`,
`invoker` and `checkout` but the liveness property is a theorem, and so are six of the
run `audits`: what TLC checks on a small instance holds for every value of the
constants. For each, the inductive invariant was first checked by TLC, then proved.

`AdmissionLimitsProofs`, on the governor, for every cap, grace, largest cost and counter
width:

- `TypeCorrect` (type invariant), `OverrunBoundedThm`, `RefusalLatchesThm`,
  `TierNeverImprovesThm`, `HaltedIffExhaustedThm`.
- `OverrunBounded` is not inductive: that spending stays within the caps after one
  more grace job depends on how many graces are left. The invariant `OverrunInv`
  relates them: the job count is at most its cap plus the grace used so far, and a
  cost dimension stays below its cap plus one `MaxCost` per grace used while a job's
  charge is outstanding, and one `MaxCost` more once it is charged.
  The action properties follow from counters that only grow (`SpendGrows`), which
  saturation preserves because a cap fits the counter (`GovernorAssumption`).

On the rate limiter, for any routes, cap, window width and cooldown:

- `LimiterTypeCorrect`, `RetryAfterExactThm`, `WindowCapThm`, `CooldownThm`, `WindowIsExactThm`
  and `HistoryKeepsSpec`: what is proved of `LimiterSpec` holds of the specification
  with history.
- Pruning is a least-element argument: `LiveFromExists` and `LiveFromUnique` say that
  the place where the live entries begin exists and is unique, hence that the
  `CHOOSE` of `FirstLive` means what `prune()` does.
- `WindowCapHolds` and `WindowIsExact` speak of the history, the code only of its deque.
  `WindowInv` ties them: the deque is the end of the history and everything before it
  has aged out. When an admission is made, fewer than the cap are live, so the
  admission that lies a cap's length back has aged out. The deque need not be sorted.
- `CooldownHolds` needs `HeldInv`: a failed route's entry reaches to the end of its
  cooldown, or that time is already past, which is when `check()` drops entries.
- `RetryAfterExact` needs `RoomInv`: the deque never holds more than the cap, so one
  entry less makes room.

On the two together: `LimitsImplementBoth`, the two limits asked in turn implement
the specification of each. One case per action of the composition; it carries every
theorem above over to the two together, which the run `limits` checks.

`DispatchGatesProofs`, on the lock alone, for any targets, ids and number of attempts:

- `TypeCorrect`, `LedgerExact` (`LedgerMatchesRunning`), `OnePerTarget`.
- The invariant `FlightInv` adds that no lease is both running and ended and that
  every number granted is below the next: a new lease differs from all earlier
  ones, hence a late release never names the holder.

On the lock and the breaker under overlapping dispatches, for any window and threshold:

- `GatesTypeCorrect`, `GatesLedgerExact`: `FlightInv` once more, with the step that takes
  a target and gives it back because the breaker trips.
- `BreakerExact`: `WindowInv` says that the breaker's window is the end of the history of
  observations and that each verdict was the count of its fingerprint among the last
  of them (`ShiftedCount` is a bijection between the two). Then, of a run of
  observations no longer than the window, the last one that passed counts all that
  passed before it (`RunBounded`), so fewer than the threshold did.
- `BusyGoesUnobserved`: observations and leases grow together.

`DispatcherProofs`, for any frames, caps, thresholds, windows and number of restarts:

- `TypeCorrect` and `TargetHeld`. The invariant `TypeOK /\ FlightHeld` names the lease:
  the ledger holds the target of the running frame, for its job, with the number it
  was granted. Every later result rests on it. The steps are sorted once
  (`StepCases`): plumbing that touches no ledger, refusals, the start and the two ends
  of a kernel, a restart; each kind has a lemma that says what it changes.
- `LedgersInAgreement`, `QuarantineLatches`: a delivery clears the quarantine, so that only
  a restart takes work out of it depends on the gate. `FailuresOrdered` adds to
  `LedgersAgree` that a running fingerprint is not quarantined.
- `RetryBudget`, `BackPressure`: action properties, by the kind of step.
- `JobsSettled` is about a sum over all fingerprints. `SumFunction` recurses over subsets,
  and induction over data is out of reach; instead the least subset that would
  contradict the claim is taken (`SmallestSubset`, from the well-founded order of finite
  sets) and shown not to be one (`SumUnique`, `SumExists`, `TotalGrows`).
- `ServicePromise`: the refinement of `DispatchService`, one case per kind of step.
  `BudgetInv` says the job count passes a cap by no more than the grace used, which
  bounds the runs of an arming.
- `GovernorUsed`, `RateLimiterUsed`: each step of the dispatcher is a step of the
  governor's and of the limiter's own specification or leaves it alone, so the
  theorems on these hold inside the dispatcher. Both assume `MaxRestarts = 0`: they speak of
  one life of the process, as a restart begins a new ledger, and so does the run that
  checks them.

`InvokerProofs`, for any limits and a kernel that may or may not fork:

- `TypeCorrect`, `NothingLeftBehind`. What is not inductive is that a returned delegation
  has no running kernel: `EndedAtJoin` says that the wait loop is left towards the join
  only when the kernel has ended.
- `DeliveryIsComplete` (`DeliveredInFull`): `PumpsRun` says that the pumps are started before
  the wait loop and none is off after that, `EndedAtEnd` that a pump which ended although
  nothing failed had read all there was and left nobody who could print more; that
  stays so, as only a process that holds the pipes prints or starts another.
- `StoppedOnlyWhenSilent` (`OnlySilenceIsStopped`): `ActivityKeepsUp` says that `activity` is as
  recent as the last output, or some output is on its way to it. The two clocks are
  set at different times by different processes, and between the read of a pump and its
  lock the first is behind.

`CheckoutProofs`, for any paths, rules, files, invocations and numbers of calls, cycles and
writes:

- `TypeCorrect`. The strengthening is `StateInv`: each entry still to be normalized asks for
  what its path allows (`Workable`), which is what `RuleFacts` derives from the order of
  `classify_path`. `Kept`, the lines that remain of a file, picks by counting; that it
  returns a sequence with just these lines is a bijection (`CountingIsBijection`).
- `StateSurvives`: `RaceInv` says that, between the read and the rename of a dedupe, the
  file holds no entry but those that were read and those runners have appended since.
- `SettleConverged`: `SettleInv` follows a settle that is alone. While `.gitignore` hides
  `_work` there is an entry for it, so nothing is hidden when `git add` runs; then index
  and work tree agree in scope, after the commit also the commit, and an audit lists
  nothing. That it starts in any state is why it converges after any failure.
- `LogTrue`: `AsFar` has a clause per step of the cycle: which checks the request has by
  then and how many events are noted. `NotedAppend` and `EffectsAre` count both.
- `PublishExact`: `PublishInv` follows the sources through index, commit and branch and
  keeps apart what publish did not list. That settle may stage, commit and push at any
  point between does not disturb it as sources are in no scope of a settle
  (`SourcesApart`); what it does to the other paths is what `mixed` excuses.

`AuditsProofs`, `FleetAuditProofs` and `EvidenceProofs`, each theorem under the condition
that its part is the one that runs:

- `ServerReachable`, for any number of servers and starts. `FileIsNews`: a file at the path
  came after every server that is about to remove something had looked.
  `BoundOrBinding`: since a start went well, and until something is killed or edited, the
  path is bound by a server that serves or is about to, or is free and a server is about
  to bind it. A server may remove the socket of another that already serves; whoever
  removes it is then about to bind.
- `EvaluationSound`, for any measures and number of dry runs. `Filed` says that the
  prompt of every manifest is that of a dry run, `ReadWell` what an evaluation that has
  read metrics and manifest may tell. The verdict and the score are shown to follow what was measured for
  every measure (`VerdictIsSound`, `WorseFacts`: the score is monotone).
- `TrailAgrees`, for any number of servers, events and failures. `AsMade`: what is written,
  or about to be, is the event that was made but for its detail. `NotYetWritten`: of a
  text that is still to be written nothing stands in that log. `OneEvent`: what has one
  number is one event, in both logs and at the server that writes it. `LinesKept`: each
  text has ended its line, has failed, or is the last thing its server wrote, whose next
  write is the newline (`Ends`); and what it is glued to, if to anything, has failed or is
  another server's. `NothingForgotten`: an event that has not failed stands in its logs or is
  on its way there. The four ways a server can move are brought to one form, a log that
  grows by at most one piece and what the server has left to do (`EveryTurn`), so that
  each part is shown for that form once.
- `FleetTold`, for any workers, strangers, depth and limit. `Family`: a process has its
  parent's job, if no worker is its parent, and a smaller pid for its parent. `Index`: what
  is indexed of a process that has run through is so, and who has been passed is in.
  `Strangers`: the indexed processes whose jobs no worker gave lie in a set that is closed
  under parents and has no worker, so the search, which climbs in the index, never leaves
  it. `Found`: what ran through and was passed is found. The search is the recursive
  function `Candidate`; that its climb ends where the definition of an ancestor says is
  shown by the least step at which they would differ (`ClimbExists`, `WayStays`), and
  that the dedupe lists each job once by the least place (`ListedOnce`, `DedupeFacts`).
  The scan is not atomic, and the theorem needs that the kernel gives no worker's pid to
  another process while it goes on: if it did, the child of a stranger could stand in
  the index under the pid of a worker that is gone (`NextPid`).
- `QueueTold`, for any jobs, runs, repositories and limits. `NoneForgotten`: a job that has
  been queued since the collection began is collected, or its run is found and still to
  be fetched, or a listing that will find it is still to come. As the queued runs of a
  repository are listed before the running ones, a run that has passed the first call
  unlisted is running at the second (`Comes`, `RunStates`: it runs because another of its
  jobs does, and that does not go back). `Snapshots`: each list of jobs has each entry
  once and only what was so. The merge keeps that (`MergeFacts`), and a job that never
  left the queue has one entry in it (`SteadyChosen`).
- `IdleTold`, for any scripts, plans, limits and recovery windows. `Spans` ties the
  recorded runs to what was so: a run was unfinished in exactly the seconds after its
  creation up to its end, if it has ended. `Listing`: what is listed of a run is how it
  stayed. Of the sweep it is shown that each of its gaps is free of intervals
  (`GapsAreFree`: an interval that is swept later began no sooner than the gap ends) and
  that every stretch free of them lies in one gap, the one that ends at the first interval
  after it (`FreeIsInGap`, by the least begin and then the least end). A stretch without
  a local runner at work is free of intervals (`IdleIsFree`), and a free one is without
  a run that is counted and seen finished (`FreeIsIdle`); between the two lies the gap
  that is told, as rounding up to minutes is monotone (`MinutesGrow`). The theorem needs
  that on GitHub a run ends in a later second than it was made (`EndRun`): one that did
  not would leave an interval of no length, which splits a stretch in which nothing ran
  into two shorter gaps.

The assumptions are the named `ASSUME`s of the modules, which TLC evaluates on the
constants of every run. They type the constants, and say of the code's own tables:
`.gitignore` is one path with no other trait, `_work` and `.kb` are two directories, the
stores and caches of GitKB lie in the second and the homes of runners in the first
(`WorkTreeAssumption`, from the prefixes of `classify_path`); runners write below `_work`
and GitKB below `.kb`, and neither Codex nor they write a `safe.directory` line when they
rewrite a file; the two required workflows differ; a cap fits the counter; the jobs on
GitHub are finitely many, and a worker has a job.

Model-checked only: `EndsUnlessHeld`, as liveness and `ENABLED` are out of the prover's
reach; of `Audits`, `RepoIsTold` and `OperatorIsTold`, each about what an audit or a
command computes with a fold over a list, and `DetailsAreScrubbed`, about texts that are
replaced from the left in turn; the refuted statements. Induction over data is out of
reach, so that what a recursive definition computes is not proved in general; where a
closed form of what a loop computes is as plain as the loop, the model has that (`Gaps`,
`DedupeRuns`), and where the least counterexample will do, the proof takes it
(`JobsSettled`, `Candidate`).

## 6. Not modelled

- Contents: signatures, lint findings, scan patterns, cost-file parsing and
  wording are facts of a frame or an input. The smoothed risk score is floating
  point advice that gates nothing.
- `f64` rounding of the tier fractions: compared as integers.
- Environment parsing and banner: a start whose settings do not parse fails.
- `release_all()` of the quarantine ledger, `lifecycle.rs`: called by nothing.
- Processes across a restart: a kernel survives a crash of the server, the model
  forgets it.
- What Codex, runners, GitKB, an operator and GitHub do is an external choice, bounded.
  A temporary file left behind when the rename over the gitconfig fails is not kept.
- `fxrun forge-loop doctor` and `research`, `fxrun doctor` and `agents`, prompts, the
  rendering of reports and of Codex's command line: output only.
- How the release script builds one component, `FXRUN_RUNNER_HOME`, and a component filter
  that is inherited instead of given.
- The workflows that trigger each other (top-up and growth dispatch in the YAML), the
  runner harness and the other scripts: deployment around the programs. Of the
  agentic audit the window is the one of the other audits.
- Audits share no state, so `Audits` does not interleave them with each other.

## 7. Plan

Done, in this order: the ledgers (`Governor`, `RateLimiter`, `LoopGuard`,
`SingleFlight`, `Recovery`, `Quarantine`, `RiskLedger`), the gates, the dispatcher over
them and its abstract specification, the invoker, the proofs of governor, rate
limiter and single-flight lock; then the compositions (`AdmissionLimits`,
`DispatchGates`), the checkout (`ForgeLoop`, `RunnerState`), the audits of the loop, the
start of servers, the audit logs and the operator's commands; then the proofs of the
dispatcher, its gates, the invoker and the checkout, and of six of the parts of `Audits`.

To do:

1. `OperatorIsTold`: the walk over the places a command looks at may be within reach by
   the argument of `FleetTold`, the least counterexample.
2. The dispatch controllers in the workflows (top-up, growth), if they move into the
   programs.
