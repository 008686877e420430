SPECIFICATION FairSpec
CONSTANTS
    Callers = {c1, c2}
    Reader = reader
    Closer = closer
    Nobody = nobody
    MaxCommandId = 2
INVARIANTS
    TypeOK
    NoLostRequest
    NothingRegisteredAfterError
    FailedBeforeListenerTold
PROPERTIES
    CompletedOnce
    ImplementsRequestReply
    CloseReleasesCallers
CHECK_DEADLOCK FALSE
