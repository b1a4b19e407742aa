----------------------------- MODULE OperatorCli ------------------------------
(***************************************************************************)
(* Two commands of the operator (fxrun main.rs, agent.rs, release.rs):     *)
(* route, which says where a job would go and which agent would drive it,  *)
(* and release, which finds a workspace and its tools and hands them to    *)
(* build-local-ubuntu-release.sh - which looks for both again.             *)
(***************************************************************************)
EXTENDS Sequences, FiniteSetsExt, SequencesExt

CONSTANTS CanonicalRoot,    \* the workspace of last resort
          Catalog,                          \* the components a release is made of, in order
          ReleaseCases      \* what releases are asked for, and the tree they find

VARIABLES
    asked,      \* the command, with the environment it is given in
    tree,       \* the workspaces that have the script, and the tools that are executable
    release,    \* the step the release is at and what it has found and made
    cli_told    \* what the command told

cliVars == <<asked, tree, release, cli_told>>

Named(value) == value \notin {"absent", "blank"}
FirstOf(choices) == IF choices = <<>> THEN {} ELSE {Head(choices)}     \* nothing, or the best choice

-----------------------------------------------------------------------------
(* route.                                                                  *)

AgentName == {"absent", "blank", "claude", "codex", "kimi", "moonshot", "typo"}

\* from_str; the other aliases and the case are left out.
Parse(name) ==
    CASE name \in {"blank", "claude"} -> {"claude"} [] name = "codex" -> {"codex"}
      [] name \in {"kimi", "moonshot"} -> {"kimi"} [] OTHER -> {}

\* policy_owner of every AgentSelectionSource.
PolicyOwner == [explicit |-> "caller", weave |-> "weave", env |-> "runner-env", default |-> "runner-compat"]

Select(source, name) == {[agent |-> agent, source |-> source] : agent \in Parse(name)}

\* Faulty variant: a name that does not parse leaves the choice to the next source.
ResolveOrNext(explicit, weave, env) ==
    IF explicit # "absent" THEN Select("explicit", explicit)
    ELSE IF Named(weave) /\ Parse(weave) # {} THEN Select("weave", weave)
    ELSE IF Named(env) THEN Select("env", env)
    ELSE Select("default", "claude")

\* AgentSelection::resolve, after clap has parsed --agent: nothing when a name is unknown.
Resolve(explicit, weave, env) ==
    IF explicit # "absent" THEN Select("explicit", explicit)
    ELSE IF Named(weave) THEN Select("weave", weave)
    ELSE IF Named(env) THEN Select("env", env)
    ELSE Select("default", "claude")

\* invocation: the program, and the endpoint another vendor is reached through.
Invocation(agent) == [program |-> IF agent = "codex" THEN "codex" ELSE "claude",
                      base_url |-> IF agent = "kimi" THEN {"moonshot"} ELSE {}]


RouteArgs == [kind : {"ci", "review", "agent", "cycle", "other"}, fork : BOOLEAN, explicit : AgentName,
              weave : AgentName, env : AgentName]

\* The kernel of an agent's kinds is atc; the others are driven by no agent.
RouteJob ==
    /\ asked.command = "route" /\ cli_told = <<>>
    /\ LET selection == Resolve(asked.args.explicit, asked.args.weave, asked.args.env)
           driven == asked.args.kind \in {"review", "agent"}
       IN  cli_told' =
              IF selection = {} \/ asked.args.kind = "other" THEN [exit |-> "failed"]
              ELSE [exit |-> "ok", placement |-> IF asked.args.fork THEN "hosted" ELSE "local",
                    agents |-> IF driven THEN {[agent |-> s.agent, owner |-> PolicyOwner[s.source],
                                                spawn |-> Invocation(s.agent)] : s \in selection} ELSE {}]
    /\ UNCHANGED <<asked, tree, release>>

-----------------------------------------------------------------------------
(* release, in fxrun: where the workspace is, and its tools.               *)

None == "none"

\* discover_root_from: the binary, or the directory, lies in a workspace that has the script.
Discovered(place) == IF place \in tree.scripts THEN <<place>> ELSE <<>>
Given(value) == IF Named(value) THEN <<value>> ELSE <<>>

\* resolve_root: the first of these that there is.
ResolveRoot(args) ==
    FirstOf((IF args.root = "absent" THEN <<>> ELSE <<args.root>>)
                \o Given(args.workspace_root) \o Given(args.flexnetos_root)
                \o Discovered(args.exe) \o Discovered(args.cwd) \o Discovered(CanonicalRoot))

Executable(tools) == SelectSeq(tools, LAMBDA tool : tool \in tree.executable)

\* Where a tool lies within a workspace, the better place first.
Places(program, root) ==
    IF program = "cargo" THEN <<<<program, "runner-home-02", root>>, <<program, "runner-home-01", root>>>>
    ELSE <<<<program, "toolchain", root>>>>
OnPath(program) == <<<<program, "path", None>>>>

\* resolve_cargo, resolve_bun: a tool that was named is not looked at.
ResolveTool(args, program, root) ==
    FirstOf((IF program \in args.given THEN <<<<program, "given", None>>>> ELSE <<>>)
                \o (IF program \in args.env THEN <<<<program, "env", None>>>> ELSE <<>>)
                \o Executable(Places(program, root) \o OnPath(program)))

\* The directory a release lands in.
DefaultOut(root) == <<root, "release">>
GivenOut(dir) == IF dir = "absent" THEN <<>> ELSE <<<<dir>>>>

Fails == cli_told' = [exit |-> "failed"]

\* prepare and execute: the tools are handed on when there are any.
Prepare ==
    /\ asked.command = "release" /\ release.step = "prepare"
    /\ LET args == asked.args
           roots == ResolveRoot(args)
       IN  IF roots \cap tree.scripts = {} THEN Fails /\ UNCHANGED release
           ELSE \E root \in roots :
                  /\ release' = [release EXCEPT !.step = "start", !.script = root,
                        !.announced = Head(GivenOut(args.out) \o <<DefaultOut(root)>>),
                        !.tools = ResolveTool(args, "cargo", root) \cup ResolveTool(args, "bun", root)]
                  /\ UNCHANGED cli_told
    /\ UNCHANGED <<asked, tree>>

-----------------------------------------------------------------------------
(* release, in the script, which has fxrun's environment.                  *)

\* ROOT and OUT_ROOT; the script's own place is where fxrun found it.
ScriptRoot == Head(Given(asked.args.workspace_root) \o Given(asked.args.flexnetos_root) \o <<release.script>>)
OutRoot == Head(GivenOut(asked.args.out) \o GivenOut(asked.args.release_dir) \o <<DefaultOut(ScriptRoot)>>)

\* resolve_cargo, resolve_bun: a tool that was handed over must be executable.
ScriptTool(program) ==
    LET handed == {tool \in release.tools : tool[1] = program}
        home == IF program = "cargo" THEN <<<<program, "runner-home-01", ScriptRoot>>>> ELSE <<>>
    IN  IF handed # {} THEN handed \cap tree.executable ELSE FirstOf(Executable(home \o OnPath(program)))

\* The script fails without its workspace or a tool, and on the wrong host.
ScriptStarts ==
    /\ release.step = "start" /\ cli_told = <<>>
    /\ LET tools == ScriptTool("cargo") \cup ScriptTool("bun")
       IN  IF release.script \notin tree.scripts \/ Cardinality(tools) < 2 THEN Fails /\ UNCHANGED release
           ELSE /\ release' = [release EXCEPT !.step = "catalog", !.used = tools, !.rest = Catalog]
                /\ cli_told' \in {<<>>, [exit |-> "failed"]}
    /\ UNCHANGED <<asked, tree>>

\* selected_component: without a filter every row is.
Selected(name) == asked.args.components = {} \/ name \in asked.args.components

\* process_catalog takes one row; a row that is not there, or does not build, fails.
StageComponent ==
    /\ release.step = "catalog" /\ release.rest # <<>> /\ cli_told = <<>>
    /\ LET name == Head(release.rest)
       IN  IF Selected(name)
           THEN \/ release' = [release EXCEPT !.rest = Tail(@), !.staged = Append(@, name)] /\ UNCHANGED cli_told
                \/ Fails /\ UNCHANGED release
           ELSE release' = [release EXCEPT !.rest = Tail(@)] /\ UNCHANGED cli_told
    /\ UNCHANGED <<asked, tree>>

\* Nothing selected fails; a check ends here.
CatalogDone ==
    /\ release.step = "catalog" /\ release.rest = <<>> /\ cli_told = <<>>
    /\ CASE release.staged = <<>> -> Fails /\ UNCHANGED release
         [] release.staged # <<>> /\ asked.args.check -> cli_told' = [exit |-> "ok"] /\ UNCHANGED release
         [] OTHER -> release' = [release EXCEPT !.step = "proof"] /\ UNCHANGED cli_told
    /\ UNCHANGED <<asked, tree>>

ProofStatus == {"satisfied", "pending allowed", "pending", "degraded allowed", "degraded", "failed"}

\* The proof gate lets a release go when CodeDB cannot be asked.
Blocks(rows) == rows \notin SUBSET {"satisfied", "pending allowed", "degraded allowed"}

RunProofGate ==
    /\ release.step = "proof" /\ cli_told = <<>>
    /\ \/ release' = [release EXCEPT !.step = "archive", !.proof = "skipped"] /\ UNCHANGED cli_told
       \/ \E rows \in SUBSET ProofStatus :
             IF Blocks(rows) THEN Fails /\ release' = [release EXCEPT !.proof = "blocked"]
             ELSE release' = [release EXCEPT !.step = "archive", !.proof = "passed"] /\ UNCHANGED cli_told
    /\ UNCHANGED <<asked, tree>>

\* tar writes the archive, which stays when it fails half way; then its checksum.
Archive ==
    /\ release.step = "archive" /\ cli_told = <<>>
    /\ release' = [release EXCEPT !.step = "checksum", !.archive = {OutRoot}]
    /\ cli_told' \in {<<>>, [exit |-> "failed"]}
    /\ UNCHANGED <<asked, tree>>

Checksum ==
    /\ release.step = "checksum" /\ cli_told = <<>>
    /\ \/ release' = [release EXCEPT !.sum = @ \cup release.archive] /\ cli_told' = [exit |-> "ok"]
       \/ Fails /\ UNCHANGED release
    /\ UNCHANGED <<asked, tree>>

\* A tool or a workspace goes between fxrun's look and the script's.
TreeChanges ==
    /\ release.step = "start" /\ cli_told = <<>>
    /\ \/ \E tool \in tree.executable : tree' = [tree EXCEPT !.executable = @ \ {tool}]
       \/ tree' = [tree EXCEPT !.scripts = @ \ {release.script}] /\ release.script \in tree.scripts
    /\ UNCHANGED <<asked, release, cli_told>>

-----------------------------------------------------------------------------
CliInit ==
    /\ cli_told = <<>>
    /\ release = [step |-> "prepare", script |-> None, announced |-> <<>>, tools |-> {}, used |-> {}, rest |-> <<>>,
                  staged |-> <<>>, proof |-> None, archive |-> {}, sum |-> {}]
    /\ \/ \E args \in RouteArgs : asked = [command |-> "route", args |-> args] /\ tree = [scripts |-> {}, executable |-> {}]
       \/ \E case \in ReleaseCases : asked = [command |-> "release", args |-> case.args] /\ tree = case.tree

CliDone == cli_told # <<>> /\ UNCHANGED cliVars

CliNext ==
    \/ RouteJob \/ Prepare \/ ScriptStarts \/ StageComponent \/ CatalogDone \/ RunProofGate \/ Archive \/ Checksum
    \/ TreeChanges \/ CliDone

-----------------------------------------------------------------------------
\* The first source that says something decides: a name of Weave's that no agent has is
\* not answered by the agent of a source below it, and another vendor's agent runs
\* the claude program only with the endpoint set.
RouteIsTold ==
    LET said == SelectSeq(<<<<"caller", asked.args.explicit>>, <<"weave", asked.args.weave>>,
                            <<"runner-env", asked.args.env>>, <<"runner-compat", "claude">>>>,
                          LAMBDA source : Named(source[2]) \/ (source[1] = "caller" /\ source[2] = "blank"))
        Claude(name) == name \in {"claude", "blank"}
    IN  /\ cli_told.exit = "ok" <=> said[1][2] # "typo" /\ asked.args.kind # "other"
        /\ cli_told.exit = "ok" => \A chosen \in cli_told.agents :
              /\ chosen.owner = said[1][1] /\ (chosen.agent = "claude" <=> Claude(said[1][2]))
              /\ chosen.spawn = [program |-> "claude", base_url |-> {}] <=> Claude(said[1][2])

\* The operator has named one workspace in two ways, or moved the output behind fxrun's
\* back: then the script, which does not know --root, goes by the environment.
AtOdds(args) ==
    \/ args.root # "absent" /\ \E value \in {args.workspace_root, args.flexnetos_root} : Named(value) /\ value # args.root
    \/ args.out = "absent" /\ args.release_dir # "absent"

\* A release holds every component of the catalog that was asked for and passed its gate,
\* with the tools fxrun found as long as they are executable; it lands where fxrun announced it
\* unless the settings are at odds; it is told of as made exactly when its checksum is there, and a
\* check leaves nothing.
ReleaseIsTold ==
    /\ release.archive # {} =>
          /\ ~asked.args.check /\ release.proof \in {"skipped", "passed"}
          /\ release.staged = SelectSeq(Catalog, Selected)
          /\ AtOdds(asked.args) \/ release.archive = {release.announced}
    /\ release.used # {} => release.tools \subseteq release.used /\ {tool[1] : tool \in release.used} = {"cargo", "bun"}
    /\ ~asked.args.check => (release.sum # {} <=> cli_told # <<>> /\ cli_told.exit = "ok")

OperatorIsTold ==
    /\ asked.command = "route" /\ cli_told # <<>> => RouteIsTold
    /\ asked.command = "release" => ReleaseIsTold
=============================================================================
