------------------------------ MODULE MCAudits -------------------------------
(***************************************************************************)
(* Values for the constants of Audits, chosen so that each part meets its  *)
(* hard case: a gap that is recovered, a queue that is cut short, a worker *)
(* that ends during the scan, a home that changes between two dry runs.    *)
(***************************************************************************)
EXTENDS Audits, TLC

\* Runs and requests: a watch answers a short sustain run; checks before one.
Run(name, event) == [name |-> name, event |-> event, title |-> ""]
Sustain == Run("Runner Sustain", "workflow_dispatch")
CI == Run("CI", "push")
Rehydration == Run("Runner Black Factor Watch (trigger)", "workflow_run")
MCScripts == {[runs |-> <<Sustain, Rehydration>>, requests |-> <<TRUE>>],
              [runs |-> <<CI, CI, Sustain>>, requests |-> <<>>]}
MCPlans == {[min_sustain_minutes |-> 1, min_window |-> 1, min_sustain_runs |-> 1, min_clean |-> 1,
             min_backlog |-> 0, max_idle_gap |-> 0, min_wakeups |-> 0, max_failed |-> 0]}

\* Two jobs of one run ask for the local runners, a job of a newer run does not.
MCRepos == <<"runner">>
MCRepoOf == <<"runner", "runner">>
MCRunOf == [a |-> 1, b |-> 1, c |-> 2]
MCLabelsOf == [a |-> {"local", "nix"}, b |-> {"local"}, c |-> {"hosted"}]
MCStartsAs == [a |-> {"waiting", "queued"}, b |-> {"queued"}, c |-> {"absent", "queued"}]

\* A worker in scope, one out of scope, and a process that only looks like a job.
Job(org, in, name) == [org |-> org, repo |-> in, name |-> name]
MCJobOf == 2 :> Job("FlexNetOS", "runner", "ci") @@ 3 :> Job("other", "app", "ci")
MCStrayJob == 4 :> Job("other", "tool", "shell")
MCExpectedScope == [org |-> "FlexNetOS"]

\* On both sides of each boundary of the score.
Best == [red |-> TRUE, gates |-> TRUE, retry |-> 1, research |-> 3, runtime |-> 900, diff |-> 12]
Measured(measure, named) == [measure |-> measure, named |-> named]
MCMeasures == {Measured([Best EXCEPT !.retry = 2], TRUE), Measured([Best EXCEPT !.retry = 3, !.diff = 0], TRUE),
               Measured([Best EXCEPT !.red = FALSE], TRUE), Measured([Best EXCEPT !.gates = FALSE], FALSE),
               Measured([Best EXCEPT !.retry = 11], TRUE)}
MCRequests == {[goal |-> "fixture", auto |-> TRUE], [goal |-> "other", auto |-> TRUE]}

\* One key of every kind; the deepest path takes every node.
Key(names, kind) == [path |-> names, kind |-> kind]
MCSchemaKeys == {Key(<<"commands", "Red">>, "minItems"), Key(<<"phases">>, "items.enum"), Key(<<"phases">>, "items.pattern"),
                 Key(<<"phases">>, "maxItems"), Key(<<"phase">>, "enum"), Key(<<"index">>, "minimum"), Key(<<>>, "required")}

\* Releases: where the workspace is named, which tools there are, what is selected.
Workspaces == {"home", "meta"}
Asks == [check |-> FALSE, root |-> "absent", out |-> "absent", workspace_root |-> "absent", flexnetos_root |-> "absent",
         release_dir |-> "absent", exe |-> "home", cwd |-> "absent", given |-> {}, env |-> {}, components |-> {}]
Tools == {<<"cargo", "given", "none">>, <<"cargo", "runner-home-02", "home">>, <<"cargo", "runner-home-01", "home">>,
          <<"cargo", "runner-home-01", "meta">>, <<"cargo", "path", "none">>, <<"bun", "env", "none">>, <<"bun", "path", "none">>}
Finds(args, scripts, executable) == [args |-> args, tree |-> [scripts |-> scripts, executable |-> executable]]
MCReleaseCases ==
    {Finds([Asks EXCEPT !.root = root, !.workspace_root = one, !.flexnetos_root = other, !.exe = exe, !.cwd = cwd,
                        !.out = out, !.release_dir = dir], scripts, {<<"cargo", "path", "none">>, <<"bun", "path", "none">>}) :
        root \in {"absent", "home"}, one \in {"absent", "blank", "meta"}, other \in {"absent", "meta"},
        exe, cwd \in {"absent"} \cup Workspaces, out \in {"absent", "out"}, dir \in {"absent", "elsewhere"},
        scripts \in SUBSET Workspaces}
    \cup {Finds([Asks EXCEPT !.given = given, !.env = env, !.workspace_root = root], Workspaces, tools) :
        given \in {{}, {"cargo"}}, env \in SUBSET {"bun", "cargo"}, root \in {"absent", "meta"}, tools \in SUBSET Tools}
    \cup {Finds([Asks EXCEPT !.check = check, !.components = components], Workspaces, Tools) :
        check \in BOOLEAN, components \in SUBSET {"one", "two", "typo"}}

MCCatalog == <<"one", "two">>

\* An outcome of each category, with texts in which secrets lie within each other,
\* stand side by side and overlap.
a == "a"
b == "b"
MCEmitted == [outcome : {"KernelFailed", "Malformed"}, detail : {<<b, a>>, <<a, b, b, a>>, <<a, a, b, b>>}]
MCConfigured == {<<<<a, b>>, <<a, b, b>>>>, <<<<b, b>>, <<a, b>>>>, <<<<b>>, <<a, b, b>>>>,
                 <<<<b, a>>, <<b, a>>, <<b, b, a>>>>}
=============================================================================
