CONSTANTS
    c1 = c1
    c2 = c2
    c3 = c3
    a1 = a1
    p1 = p1
    p2 = p2
    u1 = u1
    u2 = u2
    plain = plain
    Clients <- ThreeClients
    Confidential <- OneConfidential
    UrisOf <- AskedUris
    ValidUris <- GoodUris
    Accounts <- OneAccount
    Calls <- TwoCalls
    MaxCodes = 1
    MaxTokens = 6
CHECK_DEADLOCK FALSE
SPECIFICATION Spec
INVARIANTS
    OAuthInv
    SpentForOnePair
PROPERTIES
    SweepIsComplete
    DeadBreedNothing
SYMMETRY Symmetric
