SPECIFICATION FairSpec
CONSTANTS
    NConsumers = 2
    MaxMessages = 2
    MaxStops = 1
    MaxRollbacks = 1
    Restarts = TRUE
    Closable = {1}
INVARIANTS
    OneAtATime
    StopIsQuiet
PROPERTIES
    QueueDrains
CHECK_DEADLOCK FALSE
