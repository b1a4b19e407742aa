SPECIFICATION Spec
CONSTANTS
    RequiredChecks = {"local"}
    Minute = 2
    ReplacementSecs = 1
    PrRecoverySecs = 1
    RehydrationSecs = 1
    IdleRecoverySecs = 1
    MaxNow = 4
    MaxChecks = 1
    RunLimits = {2, 3}
    Scripts <- MCScripts
    Plans <- MCPlans
    Repos <- MCRepos
    RepoOf <- MCRepoOf
    RunOf <- MCRunOf
    LabelsOf <- MCLabelsOf
    StartsAs <- MCStartsAs
    LocalLabels = {"local"}
    QueueRunLimit = 1
    MaxQueuedLocal = 1
    MaxCollections = 2
    MaxLost = 1
    JobOf <- MCJobOf
    StrayJob <- MCStrayJob
    MaxPid = 6
    MaxDepth = 3
    ExpectedScope <- MCExpectedScope
    MaxOutOfScope = 0
    FixtureGoal = "fixture"
    Requests <- MCRequests
    Homes = {"home1", "home2"}
    DefaultHome = "home1"
    Measures <- MCMeasures
    MaxDryRuns = 2
    MinScore = 70
    MaxLedger = 3
    MaxChecklist = 3
    MaxConfig = 2
    SchemaNodes = 5
    RequiredKeys = {"docs_drift", "clippy"}
    SchemaKeys <- MCSchemaKeys
    Servers = {"s1", "s2", "s3"}
    MaxStarts = 5
    MaxEdits = 1
    Writers = {"s1", "s2"}
    MaxEvents = 2
    MaxFailures = 1
    MinSecretLen = 2
    Emitted <- MCEmitted
    Configured <- MCConfigured
    CanonicalRoot = "meta"
    Catalog <- MCCatalog
    ReleaseCases <- MCReleaseCases
INVARIANTS
    IdleIsTold
    QueueIsTold
    FleetIsTold
    EvaluationIsSound
    RepoIsTold
    ServerIsReachable
    AuditTrailAgrees
    DetailsAreScrubbed
    OperatorIsTold
