CONSTANTS
    Fingerprint <- MCFingerprint
    JobId <- MCJobId
    Target <- MCTarget
    ClassOf <- MCClassOf
    TargetOf <- MCTargetOf
    AuthorityFloor <- MCNoFloor
    ApprovalBands = {}
    ScanThreshold = 0
    KernelAllow = {"loop", "atc"}
    StateLimit <- MCNoFloor
    DefaultDeadline = 0
    DefaultIdle = 0
    Frame <- MCPlainFrames
    SealedFile = {}
    StateDeferSecs = 5
    Cap <- MCNoCap
    Grace = 0
    MaxCost = 0
    MaxU64 = 100
    MaxPerWindow = 0
    WindowSecs = 1
    CooldownSecs = 2
    LoopWindow = 8
    LoopThreshold = 4
    MaxRetries = 2
    BaseBackoff = 5
    QuarantineThreshold = 0
    MaxTime = 4
    MaxDispatches = 5
    MaxRestarts = 0
SPECIFICATION HSpec
PROPERTIES
    CooldownFollowsFailure
CHECK_DEADLOCK FALSE
