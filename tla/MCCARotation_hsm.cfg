SPECIFICATION RotationSpec
CONSTANTS
    CATypes = {"host"}
    TypeOrder <- OneType
    HostCA = "host"
    Tasks = {"t1", "t2"}
    Stores = {"hsm1", "hsm2"}
    StoreOf <- TwoStores
    FirstStore = "hsm1"
    MaxKeys = 2
    MaxRotations = 1
    MaxRequests = 3
    ForcedAllowed = TRUE
    RequestModes = {"manual", "auto"}
    Keys <- MCKeys
    IDs <- MCIDs
INVARIANT
    OriginRecoverable
PROPERTIES
    SigningKeysTrusted
    PhaseSpec
