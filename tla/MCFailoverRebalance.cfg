\* Is there always a runner that tries while a sender waits?
SPECIFICATION Spec
CONSTANTS
    Commands = {"request"}
    Kind <- KindOf
    NumConfigured = 2
    NumURIs = 2
    Limits <- Unlimited
    HasTimeout = FALSE
    Controls <- BrokerControls
    MaxFaults = 1
    MaxControls = 1
INVARIANT KeepTrying
CHECK_DEADLOCK FALSE
