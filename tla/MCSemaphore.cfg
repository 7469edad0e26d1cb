SPECIFICATION FairSemaphoreSpec
CONSTANTS
    Locks = {l1, l2}
    MaxLeases = 1
    Expiry = 2
    TickRate = 1
    CancelTimeout = 1
    Attempts = 2
    MaxFaults = 1
    MaxTime = 5
INVARIANTS
    LeaseCovered BoundedHolders GoneStays
PROPERTY
    NoneStuck
CHECK_DEADLOCK FALSE
