SPECIFICATION Spec
CONSTANTS
    agent = agent
    worker = worker
    None = None
    Callers <- MCCallers
    Calls <- MCCalls
    Profile = "pentest-vm"
    Network = "lan"
    Scope <- MCScope
    Roots <- MCRoots
    MaxTickets = 3
    MaxGrants = 2
    MaxFaults = 2
    MaxCrashes = 1
SYMMETRY Symmetry
INVARIANTS
    TypeOK
    OneUse
    StoreAgrees
    AuditedFirst
    VerifiedLogIsComplete
    CleanLogResumes
    RunsWithinPolicy
PROPERTIES
    DenialStands
    ImplementsOneUse
CHECK_DEADLOCK FALSE
