SPECIFICATION Spec
CONSTANTS
    MaxCandidates = 4
    MaxPivots = 3
    MaxRerun = 3
    Verdicts <- MCVerdicts
    UseCache = TRUE
INVARIANTS
    TypeOK
    BalancedSchedule
    ErrorTiesNeverPersisted
    AllComparisonsAggregated
    WinnerIsBest

    
CHECK_DEADLOCK FALSE
