----------------------------- MODULE MCCheckout -----------------------------
(***************************************************************************)
(* A small instance of Checkout: one file of each kind the rules tell      *)
(* apart, a commit whose .gitignore hides _work or does not, a work tree   *)
(* that is clean or holds a changed runner identity and a churned          *)
(* gitconfig, one file that Codex may edit or delete.                      *)
(***************************************************************************)
EXTENDS Checkout

Source == "src/lib.rs"
Output == "codex-forge-loop-output.md"
Ignore == ".gitignore"
Config == "_work/runner-home-01/.gitconfig"
Identity == "_work/repos/actions-runner-02/.credentials"
Cache == "_work/runner-home-01/.cache/kache/index"
Mapping == "_work/actions-runner-01-work/_PipelineMapping/PipelineFolder.json"
KbConfig == ".kb/config.toml"
KbCache == ".kb/.cache/gitkb.db"
KbStore == ".kb/store/commits/1.json"

MCPathOrder == <<Ignore, KbCache, KbConfig, KbStore, Mapping, Identity, Cache, Config, Output, Source>>
MCPath == Elements(MCPathOrder)
MCTraits == [p \in MCPath |->
    CASE p = Source -> {}
      [] p = Output -> {"output"}
      [] p = Ignore -> {"gitignore"}
      [] p = Config -> {"work", "gitconfig", "slot1"}
      [] p = Identity -> {"work", "denied", "slot2"}
      [] p = Cache -> {"work", "cache", "slot1"}
      [] p = Mapping -> {"work", "pipeline", "slot1"}
      [] p = KbConfig -> {"kb"}
      [] p = KbStore -> {"kb", "store"}
      [] p = KbCache -> {"kb", "runtime"}]

MCLine == {"old", "codex", "runner", "kb", "/_work/", "directory = /x", "directory = /y"}
MCBroadRule == {"/_work/"}
MCSafeDirectory == {"directory = /x", "directory = /y"}

MCCommitted == [p \in MCPath \ {Output, KbCache, Identity, Cache} |->
    IF p = Config THEN <<"directory = /x">> ELSE IF p = Ignore THEN <<"old", "/_work/">> ELSE <<"old">>]

\* A fresh checkout beside live runner state; and one with every kind of churn.
Live == [p \in DOMAIN MCCommitted \cup {Output, Cache} |->
            IF p \in DOMAIN MCCommitted THEN MCCommitted[p] ELSE <<"old">>]
Churn == [p \in MCPath |->
    IF p = Config THEN <<"directory = /x", "directory = /y", "directory = /x">>
    ELSE IF p \in DOMAIN MCCommitted THEN MCCommitted[p] ELSE <<"old">>]
MCInitialTrees == {Live, Churn}

\* The same where _work is no longer hidden, as the audit asks.
MCVisibleTrees == {[Churn EXCEPT ![Ignore] = <<"old">>]}

Settling == [NoCall EXCEPT !.cmd = "settle"]
MCInvocations == {
    [Settling EXCEPT !.commit = TRUE, !.push_pr = TRUE, !.automerge = TRUE, !.strict = TRUE,
                     !.require_idle = TRUE, !.force = TRUE],
    [Settling EXCEPT !.commit = TRUE, !.slots = "slot1", !.require_idle = TRUE],
    [Settling EXCEPT !.push_pr = TRUE, !.dry_run = TRUE],
    [NoCall EXCEPT !.cmd = "normalize"],
    [NoCall EXCEPT !.strict = TRUE]}
MCCycles == {[dry_run |-> TRUE, auto_merge |-> TRUE], [dry_run |-> FALSE, auto_merge |-> TRUE]}
=============================================================================
