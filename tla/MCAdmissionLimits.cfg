CONSTANTS
    Cap <- MCCap
    Grace = 1
    MaxCost = 2
    MaxU64 = 4
    Route <- MCRoute
    MaxPerWindow = 2
    WindowSecs = 3
    CooldownSecs = 2
    MaxTime = 6
SPECIFICATION LimitsSpec
INVARIANTS
    TypeOK
    OverrunBounded
    WindowCapHolds
    WindowIsExact
    RetryAfterExact
PROPERTIES
    RefusalLatches
    TierNeverImproves
    CooldownHolds
CHECK_DEADLOCK FALSE
