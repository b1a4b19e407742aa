---------------------------- MODULE RunnerState -----------------------------
(***************************************************************************)
(* fxrun runner-state audit, normalize and settle (runner_state.rs): the   *)
(* dirty paths of the preserved runner state are classified by the first   *)
(* rule that matches, known churn is normalized entry by entry, and settle *)
(* may commit, push and request the result.  Runner processes and GitKB    *)
(* write in the same checkout while it runs.                               *)
(***************************************************************************)
EXTENDS WorkTree

CONSTANTS
    PathOrder,      \* the paths in the order audit entries are sorted
    KbLine,         \* what GitKB writes
    RunnerLine,     \* what a runner writes into a file of its own
    SafeDirectory,  \* the lines of a gitconfig that are safe.directory entries
    RunnerWrites,   \* the paths a running runner writes
    KbWrites        \* the paths GitKB writes

Slot == {"all", "slot1", "slot2"}
Invocation == [cmd : {"audit", "normalize", "settle"}, slots : Slot, require_idle : BOOLEAN,
               force : BOOLEAN, commit : BOOLEAN, push_pr : BOOLEAN, automerge : BOOLEAN,
               dry_run : BOOLEAN, strict : BOOLEAN]

Class == {"live", "cache", "config churn", "gitkb runtime", "denied", "unclassified"}
Entry == [path : Path, class : Class, blocker : BOOLEAN]

ASSUME RunnerStateAssumption ==
    /\ PathOrder \in Seq(Path)
    /\ Elements(PathOrder) = Path /\ Len(PathOrder) = Cardinality(Path)
    /\ {KbLine, RunnerLine} \subseteq Line \ SafeDirectory
    /\ SafeDirectory \subseteq Line
    /\ RunnerWrites \subseteq Is("work") /\ KbWrites \subseteq Is("kb")

NoCall == [cmd |-> "audit", slots |-> "all", require_idle |-> FALSE, force |-> FALSE,
           commit |-> FALSE, push_pr |-> FALSE, automerge |-> FALSE, dry_run |-> FALSE,
           strict |-> FALSE]
NoReport == [git |-> TRUE, entries |-> {}]

VARIABLES
    runnerUp,   \* Runner.Worker or Runner.Listener processes are alive
    pc,         \* where the command is
    inv,        \* its arguments
    todo,       \* the entries normalize still acts on
    rewritten,  \* the lines dedupe has read and will write back
    report      \* the last audit: whether git listed the paths, and the entries

stateVars == <<runnerUp, pc, inv, todo, rewritten, report>>

Running == {"gate", "audit", "normalize", "rename", "add", "commit", "push", "create", "final"}
Settled == {"idle", "ok", "refused", "failed", "strict failed"}

StateTypeOK ==
    /\ runnerUp \in BOOLEAN
    /\ pc \in Running \cup Settled
    /\ inv \in Invocation
    /\ todo \in Seq(Entry)
    /\ pc \in {"normalize", "rename"} => todo # <<>>
    /\ rewritten \in Seq(Line)
    /\ report.git \in BOOLEAN /\ report.entries \subseteq Entry

StateInit ==
    /\ runnerUp = FALSE
    /\ pc = "idle"
    /\ inv = NoCall
    /\ todo = <<>>
    /\ rewritten = <<>>
    /\ report = NoReport

-----------------------------------------------------------------------------
(* The audit.                                                              *)

\* safe_directory_duplicates.
Duplicates(lines) ==
    {i \in DOMAIN lines : lines[i] \in SafeDirectory /\ \E j \in 1 .. i - 1 : lines[j] = lines[i]}
Churned(p) == p \in DOMAIN tree /\ Duplicates(tree[p]) # {}

\* The rules of classify_path, in the order they are tried.
Rules == <<
    [when |-> "denied",    class |-> "denied",        blocker |-> TRUE],
    [when |-> "store",     class |-> "gitkb runtime", blocker |-> FALSE],
    [when |-> "runtime",   class |-> "gitkb runtime", blocker |-> FALSE],
    [when |-> "gitignore", class |-> "config churn",  blocker |-> TRUE],
    [when |-> "churned",   class |-> "config churn",  blocker |-> FALSE],
    [when |-> "gitconfig", class |-> "live",          blocker |-> FALSE],
    [when |-> "pipeline",  class |-> "live",          blocker |-> FALSE],
    [when |-> "cache",     class |-> "cache",         blocker |-> FALSE],
    [when |-> "work",      class |-> "live",          blocker |-> FALSE]>>
NoRule == [when |-> "", class |-> "unclassified", blocker |-> TRUE]

Matches(p, rule) ==
    \/ rule.when \in traits[p]
    \/ rule.when = "churned" /\ "gitconfig" \in traits[p] /\ Churned(p)

FirstRule(p) ==
    LET hits == {i \in DOMAIN Rules : Matches(p, Rules[i])}
    IN  IF hits = {} THEN NoRule ELSE Rules[CHOOSE i \in hits : \A j \in hits : i <= j]
Classified(p) == [path |-> p, class |-> FirstRule(p).class, blocker |-> FirstRule(p).blocker]

\* candidate_paths: what git status lists below _work and .kb, or all that the
\* directories hold when git fails; and .gitignore while it hides _work.
InScope == Is("work") \cup Is("kb") \cup Is("gitignore")
Candidates(git) ==
    (IF git THEN GitStatus \cap InScope
            ELSE DOMAIN tree \cap (Is("work") \cup Is("runtime")))
    \cup (IF Hides(tree) THEN {gitignore} ELSE {})

\* RunnerStateSlots::matches_path: .gitignore and .kb belong to no slot.
InSlots(p) == inv.slots = "all" \/ inv.slots \in traits[p]
Audit(git) == [git |-> git, entries |-> {Classified(p) : p \in {q \in Candidates(git) : InSlots(q)}}]
Blocked(audit) == \E e \in audit.entries : e.blocker

\* active_runner_processes: nothing is seen when pgrep fails.
SeesRunners(seen) == seen \in {runnerUp, FALSE}

-----------------------------------------------------------------------------
(* The commands.                                                           *)

Goto(next) == pc' = next /\ UNCHANGED <<runnerUp, inv>>
Quiet == UNCHANGED gitVars

Call(i) ==
    /\ pc \in Settled
    /\ inv' = i
    /\ pc' = IF i.cmd = "settle" THEN "gate" ELSE IF i.cmd = "audit" THEN "final" ELSE "audit"
    /\ todo' = <<>>
    /\ report' = NoReport
    /\ UNCHANGED <<gitVars, runnerUp, rewritten>>

\* settle: the idle gate, once, at the start.
IdleGate ==
    /\ pc = "gate"
    /\ \E seen \in BOOLEAN :
           /\ SeesRunners(seen)
           /\ Goto(IF inv.require_idle /\ ~inv.force /\ seen THEN "refused" ELSE "audit")
    /\ Quiet /\ UNCHANGED <<todo, rewritten, report>>

\* The entries normalize_runner_state does something about.
ActsOn(e) == e.class \in {"config churn", "gitkb runtime"}

\* A set of entries, sorted by path.
WorkedOff(entries) ==
    LET paths == Kept(PathOrder, {i \in DOMAIN PathOrder : \E e \in entries : e.path = PathOrder[i]})
    IN  [k \in DOMAIN paths |-> CHOOSE e \in entries : e.path = paths[k]]

\* Where a command goes once it has normalized.
AfterNormalize ==
    IF inv.cmd = "normalize" THEN "ok"
    ELSE IF inv.push_pr /\ ~inv.commit THEN "failed"
    ELSE IF inv.commit /\ ~inv.dry_run THEN "add" ELSE "final"

AuditBefore ==
    /\ pc = "audit"
    /\ \E git \in BOOLEAN :
           /\ report' = Audit(git)
           /\ todo' = IF inv.dry_run THEN <<>> ELSE WorkedOff({e \in Audit(git).entries : ActsOn(e)})
    /\ Goto(IF todo' = <<>> THEN AfterNormalize ELSE "normalize")
    /\ Quiet /\ UNCHANGED rewritten

\* Faulty variant: the end of the entries is not noticed.
DoneNever == todo' = Tail(todo) /\ Goto("normalize")

\* The first entry is dealt with.
Done == /\ todo' = Tail(todo)
        /\ Goto(IF todo' = <<>> THEN AfterNormalize ELSE "normalize")

\* Faulty variant: every safe.directory that is repeated is dropped altogether.
DedupedAway(lines) == SelectSeq(lines, LAMBDA line :
    Cardinality({i \in DOMAIN lines : lines[i] = line}) = 1 \/ line \notin SafeDirectory)

\* dedupe_safe_directories keeps the first of each entry.
Deduped(lines) == Kept(lines, {i \in DOMAIN lines : i \notin Duplicates(lines)})

\* The file is read, and renamed over later: what is written between is lost.
DedupeRead ==
    /\ pc = "normalize"
    /\ Head(todo).class = "config churn" /\ Head(todo).path # gitignore
    /\ Head(todo).path \in DOMAIN tree
    /\ rewritten' = Deduped(tree[Head(todo).path])
    /\ Goto("rename")
    /\ Quiet /\ UNCHANGED <<todo, report>>

DedupeRename ==
    /\ pc = "rename"
    /\ tree' = With(tree, Head(todo).path, rewritten)
    /\ rewritten' = <<>>
    /\ Done
    /\ UNCHANGED <<index, head, branch, remote, prs, report>>

\* rewrite_gitignore_without_broad_work_ignore.
RewriteGitignore ==
    /\ pc = "normalize"
    /\ Head(todo).path = gitignore
    /\ gitignore \in DOMAIN tree
    /\ tree' = With(tree, gitignore,
                 Kept(tree[gitignore], {i \in DOMAIN tree[gitignore] : tree[gitignore][i] \notin BroadRule}))
    /\ Done
    /\ UNCHANGED <<index, head, branch, remote, prs, rewritten, report>>

\* remove_path_if_exists, for every entry of the GitKB class.
RemoveRuntime ==
    /\ pc = "normalize"
    /\ Head(todo).class = "gitkb runtime"
    /\ tree' = Without(tree, Head(todo).path)
    /\ Done
    /\ UNCHANGED <<index, head, branch, remote, prs, rewritten, report>>

\* Faulty variant: .gitignore is not staged.
AddSnapshotPart ==
    /\ pc = "add"
    /\ GitAdd(InScope \ {gitignore})
    /\ Goto("commit")
    /\ UNCHANGED <<tree, head, branch, remote, prs, todo, rewritten, report>>

\* commit_snapshot: git add stages nothing when one of its three paths matches no file;
\* where _work is ignored as a whole it stages the others, and fails.
AddSnapshot ==
    /\ pc = "add"
    /\ \A scope \in {Is("work"), Is("kb"), {gitignore}} :
           scope \cap (DOMAIN tree \cup DOMAIN index) # {}
    /\ GitAdd(InScope)
    /\ Goto(IF Hides(tree) /\ Is("work") \cap DOMAIN index = {} THEN "failed" ELSE "commit")
    /\ UNCHANGED <<tree, head, branch, remote, prs, todo, rewritten, report>>

CommitSnapshot ==
    /\ pc = "commit"
    /\ IF NothingStaged THEN UNCHANGED head ELSE GitCommit
    /\ Goto(IF inv.push_pr THEN "push" ELSE "final")
    /\ UNCHANGED <<tree, index, branch, remote, prs, todo, rewritten, report>>

\* push_pr: the branch checked out, whichever it is.
PushSnapshot ==
    /\ pc = "push"
    /\ GitPush(branch)
    /\ Goto("create")
    /\ UNCHANGED <<tree, index, head, branch, prs, todo, rewritten, report>>

\* The outcome of arming the merge is ignored.
CreateSnapshotPr ==
    /\ pc = "create"
    /\ \E armed \in {FALSE, inv.automerge} :
           /\ branch \in DOMAIN remote \ {Main}
           /\ branch \notin DOMAIN prs
           /\ prs' = [c \in DOMAIN prs \cup {branch} |->
                         IF c = branch THEN [checks |-> {}, auto |-> armed] ELSE prs[c]]
    /\ Goto("final")
    /\ UNCHANGED <<tree, index, head, branch, remote, todo, rewritten, report>>

\* The last audit, which the strict gate of audit and settle looks at.
FinalAudit ==
    /\ pc = "final"
    /\ \E git \in BOOLEAN, seen \in BOOLEAN :
           /\ SeesRunners(seen)
           /\ report' = Audit(git)
           /\ Goto(IF inv.strict /\ (Blocked(report') \/ seen) THEN "strict failed" ELSE "ok")
    /\ Quiet /\ UNCHANGED <<todo, rewritten>>

\* A file operation or a command fails, or the process dies.
StateFails ==
    /\ pc \in Running
    /\ Goto("failed")
    /\ Quiet /\ UNCHANGED <<todo, rewritten, report>>

Normalize == DedupeRead \/ DedupeRename \/ RewriteGitignore \/ RemoveRuntime
StateStep ==
    \/ IdleGate \/ AuditBefore \/ Normalize
    \/ AddSnapshot \/ CommitSnapshot \/ PushSnapshot \/ CreateSnapshotPr
    \/ FinalAudit \/ StateFails

-----------------------------------------------------------------------------
(* The others who write in the checkout.                                   *)

RunnerStarts == ~runnerUp /\ runnerUp' = TRUE /\ Quiet /\ UNCHANGED <<pc, inv, todo, rewritten, report>>
RunnerStops == runnerUp /\ runnerUp' = FALSE /\ Quiet /\ UNCHANGED <<pc, inv, todo, rewritten, report>>

\* A job's checkout adds its safe.directory; the runner rewrites its own files.
RunnerAppends(p, line) ==
    /\ runnerUp
    /\ p \in Is("gitconfig") \cap DOMAIN tree
    /\ tree' = With(tree, p, Append(tree[p], line))
    /\ UNCHANGED <<index, head, branch, remote, prs, stateVars>>

RunnerRewrites(p) ==
    /\ runnerUp
    /\ p \in RunnerWrites
    /\ tree' = With(tree, p, <<RunnerLine>>)
    /\ UNCHANGED <<index, head, branch, remote, prs, stateVars>>

KbRewrites(p) ==
    /\ p \in KbWrites
    /\ tree' = With(tree, p, <<KbLine>>)
    /\ UNCHANGED <<index, head, branch, remote, prs, stateVars>>
=============================================================================
