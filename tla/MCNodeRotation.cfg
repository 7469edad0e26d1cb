SPECIFICATION FairNodeSpec
CONSTANTS
    CATypes = {"host"}
    Host = "host"
    Auth = "auth"
    Nodes = {"n1"}
    MaxRotations = 1
    MaxFaults = 1
    MaxNames = 1
    Rollbacks = TRUE
    Keys <- MCKeys
    IDs <- MCIDs
INVARIANTS
    KeptTrusted InStepTrust CanRestart SyncedTrusted
PROPERTY
    CatchesUp
CHECK_DEADLOCK FALSE
