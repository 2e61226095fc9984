SPECIFICATION Spec
CONSTANTS
    r1 = r1
    r2 = r2
    r3 = r3
    c1 = c1
    Runs <- ServerTriple
    CliRuns <- NoRun
    MaxSlots = 1
    MaxFinished = 1
    MaxActive = 2
    KeepBranches = TRUE
    Faults <- RunFaults
INVARIANTS
    LiveRunsListed
PROPERTIES
    EvictOldestFirst
    OutcomeIsFinal
CHECK_DEADLOCK FALSE
