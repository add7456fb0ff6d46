CONSTANTS
    j1 = j1
    w1 = w1
    c1 = c1
    Jobs <- OneJob
    Waiters <- OneWaiter
    Streams <- OneStream
    MaxLogs = 1
    MaxDeaths = 1
    MaxRejoin = 1
    QueueMax = 2
CHECK_DEADLOCK FALSE
SPECIFICATION FairSpec
INVARIANTS
    EventsInv
    ToldTheTruth
PROPERTIES
    StreamEnds
