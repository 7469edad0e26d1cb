SPECIFICATION RequestSpec
CONSTANTS
    Calls = {c1, c2, c3}
    NoCall = NoCall
    User = "eve"
    Authors = {"ann", "bob", "cyd"}
    Roles = {"dev", "ops"}
    Thresholds <- MCThresholds
    Sets <- MCSets
    MaxAttempts = 2
    PendingTTL = 1
    AccessTTL = 2
SYMMETRY SameCalls
INVARIANTS
    DecidedByReviews ReviewsKept Progress
PROPERTY
    Implements
CHECK_DEADLOCK FALSE
