SPECIFICATION Spec
CONSTANTS
    Modes = {"auto", "optimized", "dups_ok", "client", "individual", "transacted"}
    MaxMessages = 3
    Perishable = {2}
    Exhausted = {3}
    Prefetch = 2
    MaxRedeliveries = 1
    Delays = {0, 1}
INVARIANTS
    TypeOK
    ConsumedIsSettled
    SettledIsConsumed
    RemovedNotRepeated
    InOrder
    PoisonedIsExhausted
    
CHECK_DEADLOCK FALSE
