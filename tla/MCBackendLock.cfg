SPECIFICATION FairSpec
CONSTANTS
    Calls = {c1, c2}
    Refreshed = {c1, c2}
    NoCall = none
    TTL = 11
    MaxDelay = 1
    Faults = TRUE
INVARIANTS
    HeldWhileRunning
PROPERTIES
    AcquireEnds
