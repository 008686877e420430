SPECIFICATION FairSpec
CONSTANTS
    Consumers = {c1, c2}
    MaxLosses = 2
    MaxMessages = 1
    Nobody = nobody
INVARIANTS
    OnlyCurrentMessages
    CompleteMeansPrefetched
PROPERTY
    ClearsAreDone
CHECK_DEADLOCK FALSE
