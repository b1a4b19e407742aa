CONSTANTS
    Fingerprint <- MCFingerprint
    JobId <- MCJobId
    Target <- MCTarget
    ClassOf <- MCClassOf
    TargetOf <- MCTargetOf
    AuthorityFloor <- MCNoFloor
    ApprovalBands = {}
    ScanThreshold = 0
    KernelAllow = {"loop", "atc"}
    StateLimit <- MCStateLimit
    DefaultDeadline = 0
    DefaultIdle = 0
    Frame <- MCTimedFrames
    SealedFile = {}
    StateDeferSecs = 5
    Cap <- MCJobCap
    Grace = 1
    MaxCost = 0
    MaxU64 = 100
    MaxPerWindow = 2
    WindowSecs = 2
    CooldownSecs = 1
    LoopWindow = 5
    LoopThreshold = 4
    MaxRetries = 1
    BaseBackoff = 5
    QuarantineThreshold = 0
    MaxTime = 4
    MaxDispatches = 5
    MaxRestarts = 0
SPECIFICATION Spec
PROPERTIES
    BackPressureIsFree
    GovernorAsSpecified
    RateLimiterAsSpecified
CHECK_DEADLOCK FALSE
