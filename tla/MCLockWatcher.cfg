SPECIFICATION FairSpec
CONSTANTS
    Names = {n1}
    Sessions = {s1}
    Timed = {}
    Targets <- AllTargets
    MaxStaleness = 1
    RefetchPeriod = 2
    RetryPeriod = 1
    QueueSize = 1
    MaxWrites = 2
    MaxOutages = 1
INVARIANTS
    WatcherTypeOK ViewFollows MonitorsTold StaleBound
PROPERTIES
    SessionsEnd
CHECK_DEADLOCK FALSE
