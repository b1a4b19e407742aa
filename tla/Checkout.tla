------------------------------ MODULE Checkout ------------------------------
(***************************************************************************)
(* The forge loop and runner-state settlement in one checkout.  Nothing    *)
(* locks the checkout between them: their git commands share one work      *)
(* tree, one index and one branch, and runners and GitKB write files at    *)
(* any time.                                                               *)
(***************************************************************************)
EXTENDS ForgeLoop, RunnerState

CONSTANTS
    Invocations,    \* the runner-state commands that are given
    Cycles,         \* the arguments cycles are run with
    InitialTrees,   \* the trees a work tree may start with
    InitialBranches, \* the branches that may be checked out at the start
    Committed,      \* the tree of the commit checked out at the start
    MaxCalls, MaxCycles, MaxWrites, MaxEdits    \* bounds, for model checking

ASSUME CheckoutAssumption ==
    /\ Invocations \subseteq Invocation
    /\ Cycles \subseteq Args
    /\ \A t \in InitialTrees \cup {Committed} : IsTree(t)
    /\ InitialBranches \subseteq BranchName
    /\ EditedLine \notin SafeDirectory

VARIABLES
    spent,      \* calls, cycles, writes and edits so far
    \* What the properties need to know of the past:
    alone,      \* nobody but the command has written since it was called
    appended,   \* the lines runners appended since a dedupe read the file
    base,       \* the last commit when the cycle started
    mixed,      \* settle has staged, committed or published since, or had staged before
    denied      \* the command's first audit reported a denied path

historyVars == <<alone, appended, base, mixed, denied>>
vars == <<gitVars, forgeVars, stateVars, spent, historyVars>>

\* What is bounded.
Budget == {"calls", "cycles", "writes", "edits"}

TypeOK ==
    /\ GitTypeOK /\ ForgeTypeOK /\ StateTypeOK
    /\ alone \in BOOLEAN /\ mixed \in BOOLEAN /\ denied \in BOOLEAN
    /\ appended \subseteq Line
    /\ IsTree(base)
    /\ spent \in [Budget -> Nat]

Init ==
    /\ tree \in InitialTrees
    /\ index = Committed /\ head = Committed /\ base = Committed
    /\ branch \in InitialBranches
    /\ remote = [b \in {Main} |-> Committed]
    /\ prs = [b \in {} |-> [checks |-> {}, auto |-> FALSE]]
    /\ ForgeInit /\ StateInit
    /\ spent = [what \in Budget |-> 0]
    /\ alone = TRUE /\ mixed = FALSE /\ denied = FALSE
    /\ appended = {}

Spend(what, bound) == spent[what] < bound /\ spent' = [spent EXCEPT ![what] = @ + 1]
OthersWrote == alone' = FALSE /\ UNCHANGED <<base, mixed, denied>>

BeginCycle ==
    /\ Spend("cycles", MaxCycles)
    /\ \E a \in Cycles : StartCycle(a)
    /\ base' = head
    /\ mixed' = ~NothingStaged
    /\ UNCHANGED <<stateVars, alone, appended, denied>>

\* Only Codex and git commands of the cycle change what an audit looks at.
Cycle ==
    /\ \/ ForgeStep /\ UNCHANGED spent
       \/ Spend("edits", MaxEdits) /\ \E p \in Editable : CodexEdits(p)
    /\ alone' = (alone /\ UNCHANGED <<tree, index, head>>)
    /\ UNCHANGED <<stateVars, appended, base, mixed, denied>>

BeginCall ==
    /\ Spend("calls", MaxCalls)
    /\ \E i \in Invocations : Call(i)
    /\ alone' = TRUE /\ denied' = FALSE
    /\ UNCHANGED <<forgeVars, appended, base, mixed>>

Settle ==
    /\ StateStep
    /\ appended' = IF DedupeRead THEN {} ELSE appended
    /\ mixed' = (mixed \/ <<index, head, remote, prs>>' # <<index, head, remote, prs>>)
    /\ denied' = IF pc = "audit" /\ pc' # "failed"
                 THEN \E e \in report'.entries : e.class = "denied" ELSE denied
    /\ UNCHANGED <<forgeVars, spent, alone, base>>

Runner ==
    \/ /\ RunnerStops \/ (spent.writes < MaxWrites /\ RunnerStarts)
       /\ UNCHANGED <<forgeVars, spent, historyVars>>
    \/ /\ Spend("writes", MaxWrites)
       /\ \/ \E p \in Path, line \in SafeDirectory :
                 RunnerAppends(p, line) /\ appended' = appended \cup {line}
          \/ \E p \in Path : (RunnerRewrites(p) \/ KbRewrites(p)) /\ UNCHANGED appended
       /\ OthersWrote
       /\ UNCHANGED forgeVars

Next == BeginCycle \/ Cycle \/ BeginCall \/ Settle \/ Runner

Spec == Init /\ [][Next]_vars

-----------------------------------------------------------------------------
(* Properties.                                                             *)

\* settle leaves "clean" or "committed" state behind: a settle of all slots
\* that commits, runs alone and gets that far finds nothing in its last audit,
\* whatever state an earlier, failed command or cycle left.
SettleConverges ==
    pc \in {"ok", "strict failed"} /\ inv.cmd = "settle" /\ inv.commit /\ ~inv.dry_run /\ inv.slots = "all"
        /\ alone /\ report.git
    => report.entries = {}

\* "preserving runner identity/state": no step of a command or a cycle (the writes
\* of Codex, runners and GitKB are those that are spent) changes a file that is
\* neither GitKB's nor known churn, and a dedupe loses no safe.directory entry but
\* what a runner added under its hands.
Preserved == Path \ (Is("store") \cup Is("runtime") \cup Is("gitignore") \cup Is("gitconfig"))
PreservedStateSurvives ==
    [][spent' = spent /\ tree' # tree =>
        /\ \A p \in Preserved : File(tree', p) = File(tree, p)
        /\ \A p \in Is("gitconfig") \cap DOMAIN tree :
               /\ p \in DOMAIN tree'
               /\ (Elements(tree[p]) \ Elements(tree'[p])) \cap SafeDirectory \subseteq appended]_vars

\* The event log accounts for what the cycle did on GitHub: every event has
\* its effect, and at most the last effect is without its event, which a cycle
\* that completes has noted as well.
Effects ==
    IF own \notin DOMAIN prs THEN 0
    ELSE 1 + Cardinality(prs[own].checks) + (IF prs[own].auto THEN 1 ELSE 0)
Noted == Cardinality({i \in DOMAIN log :
             log[i] \in {"publish.pr_created", "publish.required_check_dispatched",
                         "publish.auto_merge_requested"}})
LogTellsEffects ==
    ~mixed => /\ Noted <= Effects /\ Effects <= Noted + 1
              /\ step = "complete" => Effects = Noted

\* When a cycle reports its request open, every source file of the checkout is
\* in it as Codex left it, and unless settle took part, it changes nothing but
\* what publish listed, and no runner state.
Sources == {p \in Path : traits[p] = {}}
PublishesExactly ==
    "publish.pr_opened" \in Elements(log) /\ step \in {"end", "complete"} =>
        /\ own \in DOMAIN prs
        /\ \A p \in Sources : File(remote[own], p) = File(tree, p)
        /\ ~mixed => \A p \in Path : File(remote[own], p) # File(base, p) =>
                         p \in listed \ (Is("work") \cup Is("output"))

\* ".runner, .credentials, ... fail closed under strict gates": a strict settle
\* does not succeed when the audit it began with reported a denied path.
StrictFailsClosed == pc = "ok" /\ inv.cmd = "settle" /\ inv.strict => ~denied
=============================================================================
