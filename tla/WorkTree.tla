------------------------------ MODULE WorkTree ------------------------------
(***************************************************************************)
(* The git checkout fxrun works in, and GitHub behind it, as the code of   *)
(* runner-cli uses them: each git or gh command is one step.  A file is    *)
(* its sequence of lines; a tree is a function whose domain is the files   *)
(* that exist.  A path is known by its traits, the tests the code makes on *)
(* its name.                                                               *)
(***************************************************************************)
EXTENDS Naturals, Sequences, FiniteSets

CONSTANTS
    Path,       \* the paths of the checkout
    traits,     \* [Path -> SUBSET Trait]: what the code can tell of a path's name
    Line,       \* the lines files consist of
    BroadRule,  \* the lines of .gitignore that hide all of _work
    Branch,     \* the branches a forge cycle may open
    Topic,      \* the branches an operator may have checked out, Main aside
    Workflow    \* the workflows that can be dispatched

Main == "main"
BranchName == Branch \cup Topic \cup {Main}
Trait == {"work", "kb", "store", "runtime", "gitignore", "gitconfig", "denied",
          "pipeline", "cache", "output", "slot1", "slot2"}

ASSUME WorkTreeAssumption ==
    /\ traits \in [Path -> SUBSET Trait]
    /\ BroadRule \subseteq Line
    /\ Main \notin Branch \cup Topic /\ Branch \cap Topic = {}
    \* .gitignore is one file; _work and .kb are two directories, the stores and
    \* caches of GitKB lie in .kb and the homes of the runners in _work.
    /\ \E p \in Path : traits[p] = {"gitignore"} /\ \A q \in Path : "gitignore" \in traits[q] => q = p
    /\ \A p \in Path : /\ ~({"work", "kb"} \subseteq traits[p])
                       /\ traits[p] \cap {"store", "runtime"} # {} => "kb" \in traits[p]
                       /\ "gitconfig" \in traits[p] => "work" \in traits[p]

VARIABLES
    tree,       \* the files on disk
    index,      \* the files staged
    head,       \* the files of the branch's last commit
    branch,     \* the branch checked out
    remote,     \* the branches pushed: [branch names -> tree]
    prs         \* the open pull requests: [branch names -> checks and merge]

gitVars == <<tree, index, head, branch, remote, prs>>

Is(trait) == {p \in Path : trait \in traits[p]}
gitignore == CHOOSE p \in Path : "gitignore" \in traits[p]

\* The states of a file in a tree: its lines, or nothing.
File(t, p) == IF p \in DOMAIN t THEN {t[p]} ELSE {}
With(t, p, lines) == [q \in DOMAIN t \cup {p} |-> IF q = p THEN lines ELSE t[q]]
Without(t, p) == [q \in DOMAIN t \ {p} |-> t[q]]
Elements(lines) == {lines[i] : i \in DOMAIN lines}

\* The lines at the positions to keep, in their order.
Kept(lines, keep) ==
    LET nth[i \in keep] == Cardinality({j \in keep : j <= i})
    IN  [k \in 1 .. Cardinality(keep) |-> lines[CHOOSE i \in keep : nth[i] = k]]

IsTree(t) == DOMAIN t \subseteq Path /\ \A p \in DOMAIN t : t[p] \in Seq(Line)
Request == [checks : SUBSET Workflow, auto : BOOLEAN]

GitTypeOK ==
    /\ IsTree(tree) /\ IsTree(index) /\ IsTree(head)
    /\ branch \in BranchName
    /\ DOMAIN remote \subseteq BranchName
    /\ \A b \in DOMAIN remote : IsTree(remote[b])
    /\ DOMAIN prs \subseteq BranchName \ {Main}
    /\ \A b \in DOMAIN prs : prs[b] \in Request

-----------------------------------------------------------------------------
(* git.                                                                    *)

\* A broad rule hides every untracked file under _work.
Hides(t) == gitignore \in DOMAIN t /\ Elements(t[gitignore]) \cap BroadRule # {}
Ignored(p) == "work" \in traits[p] /\ p \notin DOMAIN index /\ Hides(tree)

\* git status --porcelain --untracked-files=all.
Listed(p) ==
    \/ File(index, p) # File(head, p)
    \/ File(tree, p) # File(index, p) /\ ~Ignored(p)
GitStatus == {p \in Path : Listed(p)}

\* What git add -- paths stages: what is ignored and untracked stays out.  Those who call
\* it say when it fails.
GitAdd(paths) ==
    LET taken == {p \in paths : ~Ignored(p)}
        kept == {p \in DOMAIN index : p \notin taken}
    IN  index' = [p \in kept \cup (taken \cap DOMAIN tree) |->
                     IF p \in taken THEN tree[p] ELSE index[p]]

NothingStaged == \A p \in Path : File(index, p) = File(head, p)

\* git commit: the whole index, whoever staged it.
GitCommit == ~NothingStaged /\ head' = index

\* git switch -c: the new branch starts at the commit checked out.
GitSwitchNew(b) == b # branch /\ b \notin DOMAIN remote /\ branch' = b

GitPush(b) == remote' = [c \in DOMAIN remote \cup {b} |-> IF c = b THEN head ELSE remote[c]]

-----------------------------------------------------------------------------
(* gh.                                                                     *)

\* gh pr create: one request per branch, and none from the base branch.
PrCreate(b) ==
    /\ b \in DOMAIN remote \ {Main}
    /\ b \notin DOMAIN prs
    /\ prs' = [c \in DOMAIN prs \cup {b} |->
                  IF c = b THEN [checks |-> {}, auto |-> FALSE] ELSE prs[c]]

WorkflowRun(workflow, b) ==
    prs' = [c \in DOMAIN prs |-> IF c = b THEN [prs[c] EXCEPT !.checks = @ \cup {workflow}] ELSE prs[c]]
MergeAuto(b) == prs' = [prs EXCEPT ![b].auto = TRUE]
=============================================================================
