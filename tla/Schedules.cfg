CONSTANTS
    s1 = s1
    t1 = t1
    t2 = t2
    p1 = p1
    ScheduleIds <- OneId
    Triggers <- TwoTriggers
    Tickers <- TwoTickers
    Patchers <- OnePatcher
    MaxTime = 3
    MaxSteps = 2
CHECK_DEADLOCK FALSE
SPECIFICATION SchedulesFairSpec
INVARIANTS
    
    OncePerDueTime
PROPERTIES
    FiringMovesOn
    DueIsFired
