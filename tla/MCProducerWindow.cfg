SPECIFICATION Spec
CONSTANTS
    Threads = {t1, t2}
    Producers = {p1, p2}
    Nobody = nobody
    Limit = 2
    MaxSize = 2
    MaxSends = 3
    MaxLosses = 1
    MayClose = TRUE
INVARIANTS
    TypeOK
    
    
CHECK_DEADLOCK FALSE
