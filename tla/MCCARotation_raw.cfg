SPECIFICATION FairRotationSpec
CONSTANTS
    CATypes = {"host", "user"}
    TypeOrder <- TwoTypes
    HostCA = "host"
    Tasks = {"t1", "t2"}
    Stores = {"raw"}
    StoreOf <- OneStore
    FirstStore = "raw"
    MaxKeys = 5
    MaxRotations = 4
    MaxRequests = 2
    ForcedAllowed = FALSE
    RequestModes = {"manual", "auto"}
    Keys <- MCKeys
    IDs <- MCIDs
INVARIANTS
    RollbackRestores
PROPERTIES
    OldKeysDropped
    AutoCompletes
