----------------------------- MODULE RepoAudits ------------------------------
(***************************************************************************)
(* What the forge loop's audits conclude from files of the repository      *)
(* (forge_loop.rs): the ledger of applied features, the checklist of the   *)
(* cycle, the permission profile, the components, the mined targets and    *)
(* the schema of Codex's output.  A file is a sequence of lines that are   *)
(* told apart by what the audits look for in them; the schema is a tree.   *)
(***************************************************************************)
EXTENDS Integers, Sequences, FiniteSetsExt, SequencesExt

CONSTANTS MaxLedger, MaxChecklist, MaxConfig, SchemaNodes,
          RequiredKeys,     \* required_checklist_command_keys
          SchemaKeys        \* the fields the schema must require: their path and the kind of keyword

SchemaKinds == {"required", "enum", "items.enum", "items.pattern", "minItems", "maxItems", "minimum"}

\* What the constants are, assumed by Audits.
RepoAuditsConstants ==
    /\ \A key \in SchemaKeys : key.kind \in SchemaKinds
    /\ {MaxLedger, MaxChecklist, MaxConfig} \subseteq Nat /\ SchemaNodes \in Nat \ {0}

VARIABLES
    repo,           \* the files an audit reads, and which audit it is
    strict,         \* the audit fails on what it finds
    repo_told       \* what it told

repoVars == <<repo, strict, repo_told>>

-----------------------------------------------------------------------------
(* The ledger: headings, items, and text, with a mention of the feature    *)
(* and a mark of work that is applied or queued.                           *)

LedgerLine == [kind : {"##", "###"}, mention : {FALSE}, mark : {"none", "queued"}]
                  \cup [kind : {"item"}, mention : BOOLEAN, mark : {"none", "queued", "APPLIED"}]
                  \cup [kind : {"text"}, mention : BOOLEAN, mark : {"none", "queued"}]

IsHeading(line) == line.kind \in {"##", "###"}

\* Faulty variant: the headings are kept whatever comes.
MarkdownBlocksKept(text) ==
    LET Close(acc) == IF acc.current = <<>> THEN acc ELSE [acc EXCEPT !.blocks = Append(@, acc.current), !.current = <<>>]
        Step(acc, line) ==
            LET begun == IF IsHeading(line) \/ line.kind = "item" THEN Close(acc) ELSE acc
                context == IF IsHeading(line) THEN Append(begun.context, line) ELSE begun.context
            IN  [begun EXCEPT !.context = context,
                              !.current = (IF line.kind = "item" THEN context ELSE @) \o <<line>>]
    IN  Close(FoldLeft(Step, [blocks |-> <<>>, current |-> <<>>, context |-> <<>>], text)).blocks

\* markdown_blocks_containing, before the search: an item begins a block with the
\* headings it stands under, a heading begins one of its own, text goes on.
MarkdownBlocks(text) ==
    LET Close(acc) == IF acc.current = <<>> THEN acc ELSE [acc EXCEPT !.blocks = Append(@, acc.current), !.current = <<>>]
        Under(context, line) == IF line.kind = "###" THEN SelectSeq(context, LAMBDA h : h.kind = "##") ELSE <<>>
        Step(acc, line) ==
            LET begun == IF IsHeading(line) \/ line.kind = "item" THEN Close(acc) ELSE acc
                context == IF IsHeading(line) THEN Append(Under(begun.context, line), line) ELSE begun.context
            IN  [begun EXCEPT !.context = context,
                              !.current = (IF line.kind = "item" THEN context ELSE @) \o <<line>>]
    IN  Close(FoldLeft(Step, [blocks |-> <<>>, current |-> <<>>, context |-> <<>>], text)).blocks

Marks(block) == {block[i].mark : i \in DOMAIN block}
BlockIsQueued(block) == "APPLIED" \notin Marks(block) /\ "queued" \in Marks(block)

\* docs_drift_report, for one feature whose module exists.
DocsDriftReport(ledger) ==
    LET mentions == SelectSeq(MarkdownBlocks(ledger), LAMBDA block : \E i \in DOMAIN block : block[i].mention)
    IN  IF mentions = <<>> THEN {"missing"}
        ELSE IF \E i \in DOMAIN mentions : BlockIsQueued(mentions[i]) THEN {"queued"} ELSE {}

-----------------------------------------------------------------------------
(* The checklist and the permission profile.                               *)

ChecklistLine == [key : RequiredKeys \cup {"other"}, rtk : BOOLEAN]

\* checklist_shell_discipline_readiness counts the entries it checks.
ChecklistBlockers(checklist) ==
    LET checked == SelectSeq(checklist, LAMBDA line : line.key \in RequiredKeys)
    IN  {<<"raw", checked[i].key>> : i \in {k \in DOMAIN checked : ~checked[k].rtk}}
            \cup (IF Len(checked) # Cardinality(RequiredKeys) THEN {<<"missing">>} ELSE {})

ConfigLine == [key : {"default_permissions", "sandbox_mode"}, value : {"forge-loop-workspace", "other", "unquoted"}]

\* extract_quoted_toml_value: the first line with the key, when its value is quoted.
Extracted(config, key) ==
    LET lines == SelectSeq(config, LAMBDA line : line.key = key)
    IN  IF lines = <<>> \/ lines[1].value = "unquoted" THEN {} ELSE {lines[1].value}

\* permission_profile_readiness; the rules may stand in either file.
PermissionBlockers(config, mirror, rules) ==
    {<<"permission", b.id>> : b \in {c \in {[id |-> "active", holds |-> Extracted(config, "default_permissions") # {"forge-loop-workspace"}],
                          [id |-> "sandbox", holds |-> Extracted(config, "sandbox_mode") # {}],
                          [id |-> "mirror", holds |-> Extracted(mirror, "default_permissions") # {"forge-loop-workspace"}],
                          [id |-> "rules", holds |-> ~rules]} : c.holds}}

\* expected_loop_components, each the file it is, but the continuity schema, which is
\* the same file as the output schema.
ExpectedComponents ==
    {"codex-prompt", "compact-prompt", "project-config", "permission-request-hook", "post-tool-hook",
     "compact-summary-hook", "hook-manifest", "rules", "subagent", "subagent-roster", "ci-sentinel-subagent",
     "permission-profile-blueprint", "skill", "github-action", "runner-sustain-workflow",
     "runner-black-factor-watch-workflow", "agentic-system-watch-workflow", "codex-github-action",
     "codex-output-schema", "codex-continuity-schema", "target-mining-ledger", "target-exhaustion-matrix",
     "kclaw0-runner-flow-target", "agentic-system-proof", "worktree-isolation-contract",
     "cycle-evidence-checklist", "deep-research-exhaustion-report"}
FileOf(component) == IF component = "codex-continuity-schema" THEN "codex-output-schema" ELSE component

MissingComponents(present) == {component \in ExpectedComponents : FileOf(component) \notin present}

\* A file that is not there reads as an empty one.
Lines(present, component, lines) == IF FileOf(component) \in present THEN lines ELSE <<>>

\* components_audit_strict_blockers.
ComponentsBlockers(r) ==
    {<<"component", c>> : c \in MissingComponents(r.present)}
        \cup ChecklistBlockers(Lines(r.present, "cycle-evidence-checklist", r.checklist))
        \cup PermissionBlockers(Lines(r.present, "project-config", r.config),
                                Lines(r.present, "permission-profile-blueprint", r.mirror), r.rules)

-----------------------------------------------------------------------------
(* The mined targets.                                                      *)

EngineSource == "forge_loop.rs"     \* crates/runner-cli/src/forge_loop.rs
Notes == {"codex-target-mining.md", "codex-target-exhaustion-matrix.md", "forge-loop-research/SKILL.md"}

\* expected_target_mining_targets: the files a target's applications are looked for in;
\* every guard is looked for in the engine's source.
ApplicationFiles ==
    [openai_codex |-> {EngineSource}, codex_config_advanced |-> {EngineSource, "config.toml"},
     codex_github_action |-> {"codex-forge-loop.yml", "forge-loop-output.schema.json"},
     codex_permissions |-> {"forge-loop-workspace.toml", "forge_loop_permission_request.py"},
     codex_subagents |-> {"forge-loop-hooks.manifest.json", "forge-loop-ci-sentinel.toml", "forge-loop-researcher.toml"},
     awesome_codex_cli |-> {"codex-target-exhaustion-matrix.md", "forge-loop-research/SKILL.md"},
     oh_my_codex |-> {"forge-loop.md", "compact-forge-loop.md", "forge_loop_compact_summary.py", "config.toml",
                      "codex-target-exhaustion-matrix.md"},
     crates_io |-> {EngineSource, "Cargo.toml", "Cargo.lock"},
     kclaw0 |-> {"runner-sustain.yml", "runner-black-factor-watch.yml", "agentic-system-watch.yml",
                 "kclaw0-runner-flow-target.md", "agentic-system-proof.md"},
     kclaw0_referenced_resources |-> {"kclaw0-upgrade-ledger.md"}]
Target == DOMAIN ApplicationFiles
MinedFiles == Notes \cup {EngineSource} \cup UNION {ApplicationFiles[t] : t \in Target}

\* A term, of a target, that is looked for in a file.
Terms == [target : Target, evidence : {"source"}, file : Notes]
             \cup UNION {[target : {t}, evidence : {"application"}, file : ApplicationFiles[t]] : t \in Target}
             \cup [target : Target, evidence : {"guard"}, file : {EngineSource}]

\* The engine's source holds every term it looks for in itself: its own table lists it.
HasTerm(r, term) == term.file \in r.files /\ (term.file = EngineSource \/ term \notin r.gone)

\* target_mining_audit_report: a source's terms may be in any of the notes, of the
\* others each must be in its file.
MissingEvidence(r) ==
    LET Of(t, evidence) == {term \in Terms : term.target = t /\ term.evidence = evidence}
    IN  {miss \in Target \X {"source", "application", "guard"} :
            IF miss[2] = "source" THEN \A term \in Of(miss[1], miss[2]) : ~HasTerm(r, term)
            ELSE \E term \in Of(miss[1], miss[2]) : ~HasTerm(r, term)}

-----------------------------------------------------------------------------
(* The schema: node 1 is its root; every other node hangs under a label of *)
(* an earlier node.  One node has the keyword that is looked for.          *)

\* What a key asks of its keyword, whose value is less, exactly or more than that.
Meets(kind, value) ==
    CASE kind \in {"minItems", "minimum"} -> value # "less"
      [] kind = "maxItems" -> value # "more"
      [] kind = "items.pattern" -> value = "exact"
      [] OTHER -> value # "less"                     \* a list that contains all there must be

OfItems(kind) == kind \in {"items.enum", "items.pattern"}
Label(key) == ToSet(key.path) \cup {"properties"} \cup (IF OfItems(key.kind) THEN {"items"} ELSE {})
Parents == {up \in [2 .. SchemaNodes -> 1 .. SchemaNodes] : \A n \in 2 .. SchemaNodes : up[n] < n}
Distinct(up, label) == \A n, m \in 2 .. SchemaNodes : up[n] = up[m] /\ label[n] = label[m] => n = m

Children(t, n) == {m \in 2 .. SchemaNodes : t.up[m] = n}
Child(t, n, label) == {m \in Children(t, n) : t.label[m] = label}

\* A length or a minimum stands at the node itself, a pattern in what its items are.
HasKeyword(t, n, kind) ==
    Meets(kind, t.value) /\ (IF OfItems(kind) THEN t.keyword \in Child(t, n, "items") ELSE t.keyword = n)

\* json_schema_..._for_path, from node n with the rest of the path; a node's children
\* have larger numbers, so the search is worked out from the last node on.
SearchForPath(t, key) ==
    LET whole == key.path
        found[k \in 0 .. SchemaNodes] ==
            IF k = 0 THEN {}
            ELSE LET n == SchemaNodes + 1 - k
                     later == found[k - 1]
                     Holds(path) ==
                        IF path = <<>> THEN HasKeyword(t, n, key.kind)
                        ELSE \/ \E p \in Child(t, n, "properties") : \E m \in Child(t, p, Head(path)) : <<m, Tail(path)>> \in later
                             \/ \E m \in Children(t, n) : <<m, path>> \in later
                 IN  later \cup {<<n, path>> : path \in {q \in {SubSeq(whole, i, Len(whole)) : i \in 1 .. Len(whole) + 1} : Holds(q)}}
    IN  <<1, whole>> \in found[SchemaNodes]

\* json_schema_requires_key: a key with a keyword is looked for along its path, any other
\* in every list of required names, wherever it stands.
RequiresKey(t, key) == IF key.kind = "required" THEN Meets(key.kind, t.value) ELSE SearchForPath(t, key)

-----------------------------------------------------------------------------
UpTo(lines, n) == UNION {[1 .. k -> lines] : k \in 0 .. n}

\* A repository whose components are as they must be.
Complete ==
    LET selects == <<[key |-> "default_permissions", value |-> "forge-loop-workspace"]>>
    IN  [audit |-> "components", present |-> {FileOf(component) : component \in ExpectedComponents},
         checklist |-> SetToSeq([key : RequiredKeys, rtk : {TRUE}]), config |-> selects, mirror |-> selects, rules |-> TRUE]

\* At most one term is gone, or some of the source terms of one target.
Losses == {{}} \cup {{term} : term \in Terms}
              \cup UNION {SUBSET [target : {t}, evidence : {"source"}, file : Notes] : t \in Target}

RepoInit ==
    /\ strict \in BOOLEAN /\ repo_told = <<>>
    /\ \/ \E ledger \in UpTo(LedgerLine, MaxLedger) : repo = [audit |-> "docs_drift", ledger |-> ledger]
       \/ \E checklist \in UpTo(ChecklistLine, MaxChecklist) :
             repo = [Complete EXCEPT !.checklist = checklist]
       \/ \E config, mirror \in UpTo(ConfigLine, MaxConfig), rules \in BOOLEAN :
             repo = [Complete EXCEPT !.config = config, !.mirror = mirror, !.rules = rules]
       \/ \E absent \in ExpectedComponents, rules \in BOOLEAN :
             repo = [Complete EXCEPT !.present = @ \ {FileOf(absent)}, !.rules = rules]
       \/ \E absent \in {{}} \cup {{file} : file \in MinedFiles}, gone \in Losses :
             repo = [audit |-> "target_mining", files |-> MinedFiles \ absent, gone |-> gone]
       \/ \E key \in SchemaKeys : \E up \in Parents, label \in [2 .. SchemaNodes -> Label(key)],
                                     keyword \in 1 .. SchemaNodes, value \in {"less", "exact", "more"} :
             /\ Distinct(up, label)
             /\ repo = [audit |-> "output_schema", key |-> key,
                        schema |-> [up |-> up, label |-> label, keyword |-> keyword, value |-> value]]

Tells(audit, found, fails) ==
    /\ repo.audit = audit /\ repo_told = <<>>
    /\ repo_told' = [found |-> found, exit |-> IF found = {} \/ ~fails THEN "ok" ELSE "failed"]
    /\ UNCHANGED <<repo, strict>>

\* docs_drift fails on drift, the other commands only when they are strict.
DocsDrift == Tells("docs_drift", DocsDriftReport(repo.ledger), TRUE)
ComponentsAudit == Tells("components", ComponentsBlockers(repo), strict)
TargetMiningAudit == Tells("target_mining", MissingEvidence(repo), strict)
OutputSchemaAudit ==
    Tells("output_schema", IF RequiresKey(repo.schema, repo.key) THEN {} ELSE {"missing field"}, strict)

RepoDone == repo_told # <<>> /\ UNCHANGED repoVars
RepoNext == DocsDrift \/ ComponentsAudit \/ TargetMiningAudit \/ OutputSchemaAudit \/ RepoDone

-----------------------------------------------------------------------------
(* What the reports mean, without the order in which the files are read.   *)

Begins(line) == IsHeading(line) \/ line.kind = "item"
\* The lines told of together with line i of a ledger.
Together(ledger, i) ==
    LET first == Max({1} \cup {k \in 1 .. i : Begins(ledger[k])})
        chapter == Max({0} \cup {k \in 1 .. first : ledger[k].kind = "##"})
        section == Max({0} \cup {k \in chapter .. first : k > 0 /\ ledger[k].kind = "###"})
    IN  {k \in DOMAIN ledger : k >= first /\ \A n \in first + 1 .. k : ~Begins(ledger[n])}
            \cup (IF ledger[first].kind = "item" THEN {chapter, section} \ {0} ELSE {})

\* A feature whose module exists drifts when the ledger does not mention it, or
\* mentions it with a mark of queued work and none of applied work on the lines that
\* belong together: the item, its text, the chapter and section it stands in.
DriftIsTold(r, found) ==
    LET mentions == {i \in DOMAIN r.ledger : r.ledger[i].mention}
        Marked(i) == {r.ledger[k].mark : k \in Together(r.ledger, i)}
    IN  /\ "missing" \in found <=> mentions = {}
        /\ "queued" \in found <=> \E i \in mentions : "queued" \in Marked(i) /\ "APPLIED" \notin Marked(i)

\* A components audit without findings means, of a checklist with no key twice, that
\* every required command is there with its prefix; that both configurations select
\* the profile in the first line that speaks of it; and that no file is absent.
ComponentsAreTold(r, found) ==
    LET NoKeyTwice == \A i, k \in DOMAIN r.checklist : r.checklist[i].key = r.checklist[k].key
                                                         /\ r.checklist[i].key \in RequiredKeys => i = k
        Selects(config) == \E i \in DOMAIN config :
            /\ config[i] = [key |-> "default_permissions", value |-> "forge-loop-workspace"]
            /\ \A k \in 1 .. i - 1 : config[k].key # "default_permissions"
    IN  found = {} => /\ NoKeyTwice => \A key \in RequiredKeys : \E i \in DOMAIN r.checklist :
                                          r.checklist[i] = [key |-> key, rtk |-> TRUE]
                      /\ Selects(r.config) /\ Selects(r.mirror) /\ r.present = Complete.present

\* A target is told of as mined exactly when a note tells of it and its applications are
\* in the files they were made in; of what stands in the engine's source see GuardsAreProven.
MiningIsTold(r, found) ==
    \A t \in Target :
        /\ <<t, "source">> \notin found <=>
               \E file \in Notes \cap r.files : [target |-> t, evidence |-> "source", file |-> file] \notin r.gone
        /\ <<t, "application">> \notin found =>
               ApplicationFiles[t] \subseteq r.files /\ \A term \in r.gone :
                   term.target = t /\ term.evidence = "application" => term.file = EngineSource

\* The schema requires a field exactly when the names of its path hang one below the other,
\* each a property of an object, with whatever between them, and the last, or what its items
\* are, has the keyword with a value that meets the key.
SchemaIsTold(r, found) ==
    LET t == r.schema
        path == r.key.path
        below[n \in 1 .. SchemaNodes] == {n} \cup (IF n = 1 THEN {} ELSE below[t.up[n]])   \* n and what it hangs under
        Property(n, name) == n > 1 /\ t.label[n] = name /\ t.up[n] > 1 /\ t.label[t.up[n]] = "properties"
        reached[i \in 0 .. Len(path)] ==
            IF i = 0 THEN {1}
            ELSE {n \in 1 .. SchemaNodes : Property(n, path[i]) /\ reached[i - 1] \cap below[t.up[t.up[n]]] # {}}
        Holder == IF ~OfItems(r.key.kind) THEN {t.keyword}
                  ELSE {n \in 1 .. t.keyword - 1 : t.up[t.keyword] = n /\ t.label[t.keyword] = "items"}
    IN  found = {} <=> /\ r.key.kind = "required" \/ Holder \cap reached[Len(path)] # {}
                       /\ t.value = "exact" \/ (t.value = "more" /\ r.key.kind \notin {"maxItems", "items.pattern"})
                                            \/ (t.value = "less" /\ r.key.kind = "maxItems")

RepoIsTold ==
    repo_told # <<>> =>
        /\ repo.audit = "docs_drift" => DriftIsTold(repo, repo_told.found)
        /\ repo.audit = "components" => ComponentsAreTold(repo, repo_told.found)
        /\ repo.audit = "target_mining" => MiningIsTold(repo, repo_told.found)
        /\ repo.audit = "output_schema" => SchemaIsTold(repo, repo_told.found)
        /\ strict \/ repo.audit = "docs_drift" => (repo_told.exit = "ok" <=> repo_told.found = {})

\* "target-mining-audit --strict now proves each required target has source evidence, local
\* application evidence, and regression guard evidence" (docs/kclaw0-upgrade-ledger.md).
GuardsAreProven ==
    repo_told # <<>> /\ repo.audit = "target_mining" /\ repo_told.found = {} =>
        \A t \in Target : [target |-> t, evidence |-> "guard", file |-> EngineSource] \notin repo.gone
=============================================================================
