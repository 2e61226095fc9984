SPECIFICATION TalkingSpec
CONSTANTS
    MaxText = 3
    MaxWork = 2
    GitFails = TRUE
INVARIANTS
    TypeOK
    
PROPERTIES
    KeepsProposalPromise
    ThreadsEnd
CHECK_DEADLOCK FALSE
