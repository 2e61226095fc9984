CONSTANTS
    Grants = {g1}
    Users = {u1, u2}
    Calls = {a, b, c}
    NoUser = NoUser
    NoGrant = NoGrant
    MaxTokens = 3
SPECIFICATION FairSpec
INVARIANTS
    GrantInv
PROPERTIES
    EndIsFinal
    FirstConsentCounts
    ReplayEndsGrant
CHECK_DEADLOCK FALSE
