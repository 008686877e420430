\* Can close() do its work after a ShutdownInfo?
SPECIFICATION FairSpec
CONSTANTS
    Commands = {"message", "shutdown"}
    Kind <- KindOf
    NumConfigured = 2
    NumURIs = 2
    Limits <- Unlimited
    HasTimeout = FALSE
    Controls <- BrokerControls
    MaxFaults = 1
    MaxControls = 0
PROPERTY CloseCanWork
CHECK_DEADLOCK FALSE
