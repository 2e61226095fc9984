CONSTANTS
    Tasks = {t1}
    Fires = {f1, f2}
    NoFire = NoFire
    Hosted = {f1}
    MaxJobs = 2
    MaxRestarts = 1
    Faults = {"db", "long"}
SPECIFICATION FairSpec
INVARIANTS
    OneTimerPerTask
    NoOverlap
    
PROPERTIES
    
    RunsEnd
CHECK_DEADLOCK FALSE
