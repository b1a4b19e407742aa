----------------------------- MODULE ForgeLoop ------------------------------
(***************************************************************************)
(* One forge-loop cycle (forge_loop.rs, run and                            *)
(* publish_self_upgrade_if_needed): Codex edits the checkout, and the      *)
(* engine around it commits what it left, opens a pull request, dispatches *)
(* the required checks and arms auto-merge, noting each step in the        *)
(* cycle's event log.  A command or an append that fails ends the cycle    *)
(* where it is; nothing is undone.                                         *)
(***************************************************************************)
EXTENDS WorkTree

CONSTANTS
    EditedLine, \* the line Codex writes into a file
    Editable,   \* the paths Codex may edit or delete
    CI, Title   \* REQUIRED_CHECK_WORKFLOWS

ASSUME ForgeLoopAssumption ==
    /\ EditedLine \in Line
    /\ Editable \subseteq Path
    /\ Workflow = {CI, Title} /\ CI # Title

VARIABLES
    step,       \* where the cycle is
    args,       \* the arguments of run: dry_run and auto_merge
    listed,     \* the paths publish read from git status
    own,        \* the branch the cycle opened, or Main before it did
    log         \* events.jsonl of the cycle, oldest first

forgeVars == <<step, args, listed, own, log>>

Commands == {"codex", "status", "switch", "add", "commit", "push", "create", "ci", "title", "merge"}
Appends == {"start", "created", "ci logged", "title logged", "merge logged", "opened", "unchanged", "end"}
Rest == {"idle", "complete", "failed"}
Args == [dry_run : BOOLEAN, auto_merge : BOOLEAN]
Event == {"cycle.started", "continuity.compact_checkpoint", "cycle.dry_run", "codex.failed",
          "publish.pr_created", "publish.required_check_dispatched",
          "publish.auto_merge_requested", "publish.pr_opened", "publish.no_changes",
          "cycle.codex_complete"}

ForgeTypeOK ==
    /\ step \in Commands \cup Appends \cup Rest
    /\ args \in Args
    /\ listed \subseteq Path
    /\ own \in Branch \cup {Main}
    /\ log \in Seq(Event)

ForgeInit ==
    /\ step = "idle"
    /\ args = [dry_run |-> FALSE, auto_merge |-> FALSE]
    /\ listed = {}
    /\ own = Main
    /\ log = <<>>

\* append_event, and on to the next step.
Note(event, next) ==
    /\ log' = Append(log, event)
    /\ step' = next
    /\ UNCHANGED <<gitVars, args, listed, own>>

\* run: a cycle starts with its own artifact directory and an empty log.
StartCycle(a) ==
    /\ step \in Rest
    /\ step' = "start"
    /\ args' = a
    /\ listed' = {}
    /\ own' = Main
    /\ log' = <<>>
    /\ UNCHANGED gitVars

\* The first two events; a dry run plans the invocation and stops there.
Started ==
    /\ step = "start"
    /\ log' = log \o <<"cycle.started", "continuity.compact_checkpoint">>
                  \o (IF args.dry_run THEN <<"cycle.dry_run">> ELSE <<>>)
    /\ step' = IF args.dry_run THEN "complete" ELSE "codex"
    /\ UNCHANGED <<gitVars, args, listed, own>>

\* Codex edits or deletes files while it runs.
CodexEdits(p) ==
    /\ step = "codex"
    /\ p \in Editable
    /\ \/ tree' = With(tree, p, <<EditedLine>>)
       \/ p \in DOMAIN tree /\ tree' = Without(tree, p)
    /\ UNCHANGED <<index, head, branch, remote, prs, forgeVars>>

CodexSucceeds ==
    /\ step = "codex"
    /\ step' = "status"
    /\ UNCHANGED <<gitVars, args, listed, own, log>>

CodexFails == step = "codex" /\ Note("codex.failed", "failed")

-----------------------------------------------------------------------------
(* publish_self_upgrade_if_needed.                                         *)

\* Faulty variant: publishable_paths_from_status keeps _work.
PublishableWork(paths) == {p \in paths : "output" \notin traits[p]}

\* publishable_paths_from_status.
Publishable(paths) == {p \in paths : traits[p] \cap {"output", "work"} = {}}

ReadStatus ==
    /\ step = "status"
    /\ listed' = Publishable(GitStatus)
    /\ step' = IF listed' = {} THEN "unchanged" ELSE "switch"
    /\ UNCHANGED <<gitVars, args, own, log>>

Switch(b) ==
    /\ step = "switch"
    /\ GitSwitchNew(b)
    /\ own' = b
    /\ step' = "add"
    /\ UNCHANGED <<tree, index, head, remote, prs, args, listed, log>>

\* None of these is ignored; one that is gone and staged nowhere is an error of git add.
AddListed ==
    /\ step = "add"
    /\ listed \subseteq DOMAIN tree \cup DOMAIN index
    /\ GitAdd(listed)
    /\ step' = "commit"
    /\ UNCHANGED <<tree, head, branch, remote, prs, args, listed, own, log>>

CommitCycle ==
    /\ step = "commit"
    /\ GitCommit
    /\ step' = "push"
    /\ UNCHANGED <<tree, index, branch, remote, prs, args, listed, own, log>>

PushCycle ==
    /\ step = "push"
    /\ GitPush(own)
    /\ step' = "create"
    /\ UNCHANGED <<tree, index, head, branch, prs, args, listed, own, log>>

\* Faulty variant: the created event is noted before the request is made.
CreatePrNotedFirst == step = "create" /\ Note("publish.pr_created", "ci")

CreatePr ==
    /\ step = "create"
    /\ PrCreate(own)
    /\ step' = "created"
    /\ UNCHANGED <<tree, index, head, branch, remote, args, listed, own, log>>

\* parse_pr_create_reference may not find a reference: then the cycle fails here.
PrCreated == step = "created" /\ Note("publish.pr_created", "ci")

DispatchCheck(at, workflow, next) ==
    /\ step = at
    /\ WorkflowRun(workflow, own)
    /\ step' = next
    /\ UNCHANGED <<tree, index, head, branch, remote, args, listed, own, log>>

\* dispatch_required_checks: one workflow, its event, the other, its event.
DispatchRequiredChecks ==
    \/ DispatchCheck("ci", CI, "ci logged")
    \/ step = "ci logged" /\ Note("publish.required_check_dispatched", "title")
    \/ DispatchCheck("title", Title, "title logged")
    \/ /\ step = "title logged"
       /\ Note("publish.required_check_dispatched", IF args.auto_merge THEN "merge" ELSE "opened")

RequestAutoMerge ==
    /\ step = "merge"
    /\ MergeAuto(own)
    /\ step' = "merge logged"
    /\ UNCHANGED <<tree, index, head, branch, remote, args, listed, own, log>>

AutoMergeRequested == step = "merge logged" /\ Note("publish.auto_merge_requested", "opened")

\* Back in run: the outcome of the publication, and the end of the cycle.
PrOpened == step = "opened" /\ Note("publish.pr_opened", "end")
NoChanges == step = "unchanged" /\ Note("publish.no_changes", "end")
CodexComplete == step = "end" /\ Note("cycle.codex_complete", "complete")

\* A command or an append fails, the output of a command cannot be read, or the
\* process dies: the error is returned and what was done stays done.
CycleFails ==
    /\ step \in Commands \cup Appends
    /\ step' = "failed"
    /\ UNCHANGED <<gitVars, args, listed, own, log>>

Publish ==
    \/ ReadStatus
    \/ \E b \in Branch : Switch(b)
    \/ AddListed \/ CommitCycle \/ PushCycle \/ CreatePr \/ PrCreated
    \/ DispatchRequiredChecks
    \/ RequestAutoMerge \/ AutoMergeRequested

ForgeStep ==
    \/ Started
    \/ CodexSucceeds \/ CodexFails
    \/ Publish
    \/ PrOpened \/ NoChanges \/ CodexComplete
    \/ CycleFails
=============================================================================
