SPECIFICATION RotationSpec
CONSTANTS
    CATypes = {"host"}
    TypeOrder <- OneType
    HostCA = "host"
    Tasks = {"t1", "t2"}
    Stores = {"hsm1", "hsm2"}
    StoreOf <- TwoStores
    FirstStore = "hsm1"
    MaxKeys = 3
    MaxRotations = 2
    MaxRequests = 4
    ForcedAllowed = FALSE
    RequestModes = {"manual"}
    Keys <- MCKeys
    IDs <- MCIDs
INVARIANT
    RollbackRestores
