\* ConnectionControls and ShutdownInfo, one fault.
SPECIFICATION Spec
CONSTANTS
    Commands = {"request", "message", "shutdown"}
    Kind <- KindOf
    NumConfigured = 1
    NumURIs = 2
    Limits <- TwoAttempts
    HasTimeout = TRUE
    Controls <- BrokerControls
    MaxFaults = 1
    MaxControls = 1
INVARIANTS
    ListenerAgrees
    NoTransportLeaks
PROPERTIES
    NoConnectionAfterEnd
CHECK_DEADLOCK FALSE
