SPECIFICATION Spec
CONSTANTS
    Modes <- MCModes
    MaxRuns = 2
    MaxIterations = 2
    MaxNotes = 1
INVARIANTS
    TypeOK
    Paired
    InputComesBack
PROPERTIES
    StopIsHeard
CHECK_DEADLOCK FALSE
