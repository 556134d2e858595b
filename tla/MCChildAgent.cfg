SPECIFICATION Spec
CONSTANTS
    Callers <- MCCallers
    MaxCalls = 3
    Fifo = TRUE
    MaxTasks = 2
    MaxIterations = 2
INVARIANTS
    TypeOK
    AnswersMatch
    
PROPERTIES
    CancelIsHeard
    KeepsPromise
    EveryTaskIsReported
    CallsReturn
CHECK_DEADLOCK FALSE
