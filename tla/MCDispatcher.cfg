CONSTANTS
    Fingerprint <- MCFingerprint
    JobId <- MCJobId
    Target <- MCTarget
    ClassOf <- MCClassOf
    TargetOf <- MCTargetOf
    AuthorityFloor <- MCAuthorityFloor
    ApprovalBands <- MCApprovalBands
    ScanThreshold = 3
    KernelAllow = {"loop", "atc"}
    StateLimit <- MCNoFloor
    DefaultDeadline = 0
    DefaultIdle = 0
    Frame <- MCGateFrames
    SealedFile <- MCSealedFile
    StateDeferSecs = 5
    Cap <- MCJobCap
    Grace = 1
    MaxCost = 0
    MaxU64 = 100
    MaxPerWindow = 0
    WindowSecs = 1
    CooldownSecs = 0
    LoopWindow = 5
    LoopThreshold = 4
    MaxRetries = 1
    BaseBackoff = 5
    QuarantineThreshold = 2
    MaxTime = 0
    MaxDispatches = 6
    MaxRestarts = 1
SPECIFICATION Spec
INVARIANTS
    TypeOK
    JobsAccountedFor
    LedgersAgree
    TargetHeldWhileRunning
PROPERTIES
    QuarantineIsTerminal
    RetryBudgetIsOwn
    KeepsItsPromise
CHECK_DEADLOCK FALSE
