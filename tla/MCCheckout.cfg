CONSTANTS
    Path <- MCPath
    PathOrder <- MCPathOrder
    traits <- MCTraits
    Line <- MCLine
    BroadRule <- MCBroadRule
    SafeDirectory <- MCSafeDirectory
    Branch = {"codex/cycle-1"}
    Topic = {"chore/runner-state"}
    InitialBranches = {"chore/runner-state"}
    CI = "ci.yml"
    Title = "semantic-pr-title.yml"
    Workflow = {"ci.yml", "semantic-pr-title.yml"}
    EditedLine = "codex"
    KbLine = "kb"
    RunnerLine = "runner"
    Editable = {"src/lib.rs"}
    RunnerWrites = {"_work/repos/actions-runner-02/.credentials"}
    KbWrites = {".kb/store/commits/1.json"}
    Invocations <- MCInvocations
    Cycles <- MCCycles
    InitialTrees <- MCInitialTrees
    Committed <- MCCommitted
    MaxCalls = 1
    MaxCycles = 1
    MaxWrites = 1
    MaxEdits = 1
SPECIFICATION Spec
INVARIANTS
    TypeOK
    SettleConverges
    LogTellsEffects
    PublishesExactly
PROPERTIES
    PreservedStateSurvives
CHECK_DEADLOCK FALSE
