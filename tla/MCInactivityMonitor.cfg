SPECIFICATION FairSpec
CONSTANTS
    MaxCommands = 2
    Nobody = Nobody
INVARIANTS
    ClosedNotStarted
PROPERTIES
    
    CloseReturns
CHECK_DEADLOCK FALSE
