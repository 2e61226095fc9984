SPECIFICATION FairSpec
CONSTANTS
    r1 = r1
    r2 = r2
    r3 = r3
    c1 = c1
    Runs <- Mixed
    CliRuns <- OneCli
    MaxSlots = 2
    MaxFinished = 1
    MaxActive = 2
    KeepBranches = FALSE
    Faults <- GitFaults
INVARIANTS
    
    OnlySelectedWorkLands
    DoneMeansLanded
    WorktreesOutliveTheRun
    
PROPERTIES
    EveryRunEnds
CHECK_DEADLOCK FALSE
