CONSTANTS
    a1 = a1
    a2 = a2
    x = x
    y = y
    t1 = t1
    t2 = t2
    Http = Http
    Nobody = Nobody
    Rows <- TwoRows
    Workspaces <- MCWorkspaces
    Documents <- TurningDocuments
    Outcomes <- OneOutcome
    Tickers <- TwoTickers
    NJobs = 2
    Batch = 1
CHECK_DEADLOCK FALSE
SPECIFICATION FairSpec
INVARIANTS
    
    AtMostOnce
PROPERTIES
    EventuallyConsidered
