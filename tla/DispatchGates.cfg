\* Two targets, one job id that may be dispatched again, two fingerprints, and six
\* attempts against a window of three with a threshold of two.
CONSTANTS
    Target = {"repoA", "repoB"}
    JobId = {"job1"}
    MaxSequence = 6
    Fingerprint = {"fpA", "fpB"}
    LoopWindow = 3
    LoopThreshold = 2
    MaxObserved = 6
SPECIFICATION GatesSpec
INVARIANTS
    LedgerMatchesRunning
    BreakerCountsExactly
    BusyIsNotObserved
CHECK_DEADLOCK FALSE
