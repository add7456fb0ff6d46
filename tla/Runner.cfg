CONSTANTS
    Writes <- Both
    Descends = TRUE
    StatementsFail = TRUE
    PipeLines = 2
    MaxLines = 1
CHECK_DEADLOCK FALSE
SPECIFICATION RunnerFairSpec
INVARIANTS
    
    NoFalseSuccess

    
