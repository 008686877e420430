\* Lost connections and failed writes, no ConnectionControls.
SPECIFICATION FairSpec
CONSTANTS
    Commands = {"ack", "info"}
    Kind <- KindOf
    NumConfigured = 2
    NumURIs = 2
    Limits <- NoneOrAny
    HasTimeout = TRUE
    Controls <- BrokerControls
    MaxFaults = 2
    MaxControls = 0
INVARIANTS
    TypeOK
    AcceptedSurvivesFailover
    RequestsNotResent
    NoConfiguredURILost
PROPERTIES
    SendersServed
    TransportsGetClosed
CHECK_DEADLOCK FALSE
