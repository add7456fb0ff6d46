CONSTANTS
    r1 = r1
    a1 = a1
    g1 = g1
    Requests <- OneRequest
    Accounts <- OneAccount
    Agents <- OneAgent
    Labels <- TwoLabels
    MaxCreds = 3
    PoolSize = 1
SPECIFICATION FairSpec

    
PROPERTIES
    CutForGood
    RequestAnswered
