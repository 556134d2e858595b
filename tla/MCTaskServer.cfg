SPECIFICATION Spec
CONSTANTS
    Callers <- MCCallers
    MaxCalls = 2
    Fifo = FALSE
    MaxTasks = 1
    MaxIterations = 1
    Configs <- MCConfigs
    ToolNames <- MCToolNames
    Keys <- MCKeys
INVARIANTS
    AnswersMatch
CHECK_DEADLOCK FALSE
