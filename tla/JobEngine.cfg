CONSTANTS
    service = service
    manual = manual
    c1 = c1
    NoWorker = NoWorker
    NJobs = 2
    Concurrency = 1
    Workers <- MCWorkers
    OnceWorkers <- MCOnce
    Callers <- MCCallers
SPECIFICATION FairSpec
INVARIANTS
    IndInv
    RunningRowsAreOrphans
    
PROPERTIES
    TerminalIsFinal
    CancelHonoured
    ImplementsLifecycle
    
    StopTerminates
