CONSTANTS
    Terminals <- MCTerminals
    MaxSessions = 3
    MaxWrites = 2
SPECIFICATION Spec
INVARIANTS
    SessionOwnsAll
    FreshGuest
    

    
