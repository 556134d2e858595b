SPECIFICATION Spec
CONSTANTS
    MaxWorkers = 3
    MaxIterations = 4
    MaxSteps = 1
    Outcomes = {"complete", "error"}
    Dependencies <- MCDependencies
INVARIANTS
    TypeOK
    DependenciesFirst
    SynthesisIsComplete
    NoOrphans
    QuietAfterStop
PROPERTIES
    AgentsEnd
    CrewEnds
    StopEnds
CHECK_DEADLOCK FALSE
