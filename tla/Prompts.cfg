CONSTANTS
    MaxAttempts = 3
    Answers = {n1}
    Verdicts = {"accept", "decline"}
SPECIFICATION FairSpec
INVARIANTS
    PromptInv
    UnansweredCardSurvives
PROPERTIES
    CardsGo
CHECK_DEADLOCK FALSE
