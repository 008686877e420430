SPECIFICATION FairSpec
CONSTANTS
    s1 = s1
    p1 = p1
    c1 = c1
    t1 = t1
    Sessions = {s1}
    Producers = {p1}
    Consumers = {c1}
    Temps = {t1}
    SessionOf <- MCSessionOf
    MaxTransactions = 2
    MaxMessages = 2
    MaxLosses = 2
    None = None
INVARIANTS
    RegistryRestored
    NoOrphans
    CommitIsComplete
    TracksUnfinished
PROPERTIES
    EndsAreAnswered
CHECK_DEADLOCK FALSE
