CONSTANTS
    q1 = q1
    q2 = q2
    k1 = k1
    a1 = a1
    a2 = a2
    r1 = r1
    r2 = r2
    Requests <- TwoRequests
    Keys <- OneKey
    Accounts <- TwoAccounts
    Repos <- TwoRepos
    Scope <- OneRepo
    Services <- AllServices
    Limit = 1
CHECK_DEADLOCK FALSE
SPECIFICATION FairSpec
INVARIANTS
    
    OneJobPerKey
PROPERTIES
    Answered
