SPECIFICATION Spec
CONSTANTS
    Watchers = {"w1", "w2"}
    Keys = {"k1", "k2"}
    NoKey = "none"
    Watches <- MCWatches
    MaxEvents = 4
    Capacity = 2
    QueueSize = 1
    Grace = 1
INVARIANTS
    RingIsTail NoStrandedBacklog
PROPERTY
    StreamSpec
CHECK_DEADLOCK FALSE
