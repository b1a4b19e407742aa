------------------------------ MODULE CycleEval ------------------------------
(***************************************************************************)
(* The evidence of a forge-loop cycle and its evaluation (forge_loop.rs,   *)
(* run --dry-run, eval and self-upgrade).  Every dry run writes into the   *)
(* same directory, its manifest first and its metrics last; metrics may    *)
(* come from elsewhere; and an evaluation reads the metrics and then the   *)
(* manifest, each as it is by then, in the CODEX_HOME it was started in.   *)
(***************************************************************************)
EXTENDS Integers, FiniteSetsExt

CONSTANTS FixtureGoal,
          Requests,         \* what dry runs are asked for: a goal and whether to merge
          Homes, DefaultHome,   \* the values of CODEX_HOME, and DEFAULT_CODEX_HOME
          Measures,         \* what a cycle is measured by, see Measure, and if its metrics name it
          MaxDryRuns, MinScore

Measure == [red : BOOLEAN, gates : BOOLEAN, retry : Nat, research : Nat, runtime : Nat, diff : Nat]

\* What the constants are, assumed by Audits.
CycleEvalConstants ==
    /\ DefaultHome \in Homes /\ MaxDryRuns \in Nat /\ MinScore \in Nat
    /\ Measures \subseteq [measure : Measure, named : BOOLEAN]

MaxRetry == 10      \* MAX_EVAL_RETRY_COUNT

VARIABLES
    home,           \* CODEX_HOME, as the next command will find it
    dryruns,        \* the dry runs between their manifest and their metrics
    made,           \* what was asked of every dry run so far
    cycle,          \* the manifest and the metrics in the directory, at most one of each
    eval            \* the evaluation: its step, its home, what it read and what it told

cycleVars == <<home, dryruns, made, cycle, eval>>

\* cycle_prompt names the goal, whether to merge, and the auth file of the home; a
\* hash tells two prompts apart.
Prompt(goal, auto, at) == <<goal, auto, at>>

CycleInit ==
    /\ home = DefaultHome /\ dryruns = {} /\ made = {}
    /\ cycle = [manifest |-> {}, metrics |-> {}]
    /\ eval = [step |-> "none"]

-----------------------------------------------------------------------------
(* The score.                                                              *)

Points(condition, points) == IF condition THEN points ELSE 0

Score(m) ==
    LET sum == Points(m.red, 25) + Points(m.gates, 35)
                   + (IF m.retry <= 1 THEN 10 ELSE -5 * (m.retry - 1))
                   + 5 * Min({m.research, 3}) + Points(m.runtime <= 900, 10) + Points(m.diff \in 1 .. 12, 5)
    IN  Max({Min({sum, 100}), 0})

Verdict(score) ==
    IF score >= 85 THEN "promote" ELSE IF score >= 70 THEN "upgrade-candidate"
    ELSE IF score >= 50 THEN "hold-and-repair" ELSE "quarantine"

Evaluate(m) ==
    [score |-> Score(m), verdict |-> Verdict(Score(m)),
     upgrade_allowed |-> Score(m) >= 70 /\ m.gates /\ m.red /\ m.diff > 0]

\* EvalInput::fixture, in some home.
Fixture(at) ==
    [goal |-> FixtureGoal, prompt |-> Prompt(FixtureGoal, TRUE, at),
     measure |-> [red |-> TRUE, gates |-> TRUE, retry |-> 0, research |-> 2, runtime |-> 300, diff |-> 6]]

-----------------------------------------------------------------------------
(* The directory.                                                          *)

SetHome == home' \in Homes \ {home} /\ UNCHANGED <<dryruns, made, cycle, eval>>

\* cycle_manifest; "contract" stands for the fields every dry run writes alike.
DryRunStarts ==
    /\ Cardinality(made) < MaxDryRuns
    /\ \E r \in Requests :
          LET asked == [goal |-> r.goal, auto |-> r.auto, home |-> home]
          IN  /\ asked \notin made
              /\ dryruns' = dryruns \cup {asked} /\ made' = made \cup {asked}
              /\ cycle' = [cycle EXCEPT !.manifest =
                     {[goal |-> r.goal, auto |-> r.auto, prompt |-> Prompt(r.goal, r.auto, home), contract |-> TRUE]}]
    /\ UNCHANGED <<home, eval>>

\* Whatever its goal, a dry run leaves the fixture's metrics.
DryRunEnds ==
    /\ \E asked \in dryruns :
          dryruns' = dryruns \ {asked} /\ cycle' = [cycle EXCEPT !.metrics = {Fixture(asked.home)}]
    /\ UNCHANGED <<home, made, eval>>

\* The directory cannot be written any more.
DryRunFails == \E asked \in dryruns : dryruns' = dryruns \ {asked} /\ UNCHANGED <<home, made, cycle, eval>>

\* A cycle that was measured brings its metrics, with or without its goal and prompt.
Measured ==
    /\ \E m \in Measures, asked \in made :
          cycle' = [cycle EXCEPT !.metrics =
              {[goal |-> IF m.named THEN asked.goal ELSE "none",
                prompt |-> IF m.named THEN Prompt(asked.goal, asked.auto, asked.home) ELSE <<>>,
                measure |-> m.measure]}]
    /\ UNCHANGED <<home, dryruns, made, eval>>

\* The manifest is edited: another goal, or a field a dry run does not write so.
ManifestEdited ==
    /\ \E manifest \in cycle.manifest, r \in Requests, contract \in BOOLEAN :
          cycle' = [cycle EXCEPT !.manifest = {[manifest EXCEPT !.goal = r.goal, !.contract = @ /\ contract]}]
    /\ UNCHANGED <<home, dryruns, made, eval>>

-----------------------------------------------------------------------------
(* The evaluation.                                                         *)

Told(input, with, accepted) ==
    eval' = [step |-> "told", home |-> eval.home, input |-> input, with |-> with, accepted |-> accepted,
             report |-> Evaluate(input.measure)]

EvalStarts ==
    /\ eval.step = "none"
    /\ \E fixture, with \in BOOLEAN : eval' = [step |-> "metrics", home |-> home, fixture |-> fixture, with |-> with]
    /\ UNCHANGED <<home, dryruns, made, cycle>>

\* parse_eval_metrics; without a file or with too many retries the command fails.
EvalReadsMetrics ==
    /\ eval.step = "metrics"
    /\ \E input \in IF eval.fixture THEN {Fixture(eval.home)} ELSE cycle.metrics :
          IF input.measure.retry > MaxRetry THEN Told(input, eval.with, FALSE)
          ELSE IF ~eval.with THEN Told(input, FALSE, TRUE)
          ELSE eval' = [step |-> "manifest", home |-> eval.home, input |-> input]
    /\ UNCHANGED <<home, dryruns, made, cycle>>

EvalFindsNothing ==
    /\ \/ eval.step = "metrics" /\ ~eval.fixture /\ cycle.metrics = {}
       \/ eval.step = "manifest" /\ cycle.manifest = {}
    /\ eval' = [step |-> "none"] /\ UNCHANGED <<home, dryruns, made, cycle>>

\* Faulty variant: the prompt is not made again.
ManifestContract(manifest, at) == manifest.contract

\* validate_cycle_manifest: the prompt is made again from the manifest, in this home.
ManifestIsValid(manifest, at) ==
    manifest.contract /\ manifest.prompt = Prompt(manifest.goal, manifest.auto, at)

\* validate_eval_manifest_pair.
PairMatches(input, manifest) == input.goal = manifest.goal /\ input.prompt = manifest.prompt

EvalReadsManifest ==
    /\ eval.step = "manifest"
    /\ \E manifest \in cycle.manifest :
          Told(eval.input, TRUE, ManifestIsValid(manifest, eval.home) /\ PairMatches(eval.input, manifest))
    /\ UNCHANGED <<home, dryruns, made, cycle>>

\* self_upgrade evaluates the fixture, whatever was measured, and starts Codex on it.
SelfUpgrade ==
    /\ eval.step = "none"
    /\ LET report == Evaluate(Fixture(home).measure)
       IN  eval' = [step |-> "upgrade", codex |-> report.score >= MinScore /\ report.upgrade_allowed]
    /\ UNCHANGED <<home, dryruns, made, cycle>>

CycleDone == eval.step \in {"told", "upgrade"} /\ UNCHANGED cycleVars

CycleNext ==
    \/ /\ eval.step \notin {"told", "upgrade"}
       /\ SetHome \/ DryRunStarts \/ DryRunEnds \/ DryRunFails \/ Measured \/ ManifestEdited
    \/ EvalStarts \/ EvalReadsMetrics \/ EvalFindsNothing \/ EvalReadsManifest \/ SelfUpgrade \/ CycleDone

-----------------------------------------------------------------------------
\* One thing is worse than in m.
Worse(m) ==
    {[m EXCEPT !.red = FALSE], [m EXCEPT !.gates = FALSE], [m EXCEPT !.retry = @ + 1],
     [m EXCEPT !.research = 0], [m EXCEPT !.runtime = @ + 1]}

\* An accepted pair was asked for by one dry run in the home of the evaluation, even
\* when metrics and manifest were replaced between the two reads; a promoted cycle had
\* its red test and its gates and at most two retries; a cycle whose gates failed is
\* no candidate; and nothing that is worse scores more or is allowed an upgrade first.
EvaluationIsSound ==
    eval.step = "told" /\ eval.accepted =>
        LET m == eval.input.measure
            told == eval.report
        IN  /\ eval.with => \E asked \in made : /\ asked.home = eval.home /\ asked.goal = eval.input.goal
                                                /\ eval.input.prompt = Prompt(asked.goal, asked.auto, asked.home)
            /\ told.verdict = "promote" => m.red /\ m.gates /\ m.retry <= 2
            /\ ~m.gates => told.verdict \in {"hold-and-repair", "quarantine"} /\ ~told.upgrade_allowed
            /\ told.upgrade_allowed => told.verdict \in {"promote", "upgrade-candidate"}
            /\ \A w \in Worse(m) : /\ Score(w) <= told.score
                                   /\ Evaluate(w).upgrade_allowed => told.upgrade_allowed
=============================================================================
