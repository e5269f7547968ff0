SPECIFICATION LiveSpec
CONSTANTS
    MaxRequests = 3
    InFlight = 2
    Window = 1
    Lifetime = 2
CHECK_DEADLOCK FALSE
INVARIANTS NoOrphans NeverLockedOut StreamsEnd FirstLinkWorks
PROPERTIES NeverConfirmedIsDeleted
