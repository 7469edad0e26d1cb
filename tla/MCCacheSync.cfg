SPECIFICATION FairCacheSpec
CONSTANTS
    N = 2
    Keys = {"k1", "k2"}
    Durable = {2}
    QueueSize = 1
    LeaseErrors = FALSE
    MaxWrites = 2
    MaxFaults = 1
INVARIANTS
    NoMissedEvent ReadableWhole
PROPERTY
    Converges
CHECK_DEADLOCK FALSE
