CONSTANTS
    Tasks = {t1}
    Fires = {f1}
    NoFire = NoFire
    Hosted = {f1}
    MaxJobs = 1
    MaxRestarts = 0
    Faults = {"long"}
SPECIFICATION FairSpec
PROPERTIES
    TerminalIsFinal
CHECK_DEADLOCK FALSE
