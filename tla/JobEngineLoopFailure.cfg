CONSTANTS
    service = service
    manual = manual
    c1 = c1
    NoWorker = NoWorker
    NJobs = 1
    Concurrency = 2
    Workers <- MCWorkers
    OnceWorkers <- MCOnce
    Callers <- MCCallers
SPECIFICATION FailureSpec
INVARIANT RunningRowsAreOrphans
