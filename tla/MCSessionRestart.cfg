SPECIFICATION FairSpec
CONSTANTS
    NConsumers = 1
    MaxMessages = 2
    MaxStops = 1
    MaxRollbacks = 0
    Restarts = FALSE
    Closable = {}
PROPERTIES
    MessagesReachListener
CHECK_DEADLOCK FALSE
