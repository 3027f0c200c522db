SPECIFICATION FairSpec
CONSTANTS
    MaxRuns = 2
    MaxRows = 1
    MaxBatches = 1
    MaxCalls = 1
    None = None
INVARIANTS
    ExclusiveWorkers
    StopHitsItsRun
    FeedbackIsHonest
    VerdictsAgree
PROPERTIES
    ExportsAreStable
    StopClickEnds
CHECK_DEADLOCK FALSE
