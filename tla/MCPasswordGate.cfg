\* Three requests for two slots.
CONSTANTS
    Requests = {q1, q2, q3}
    MaxConcurrency = 2
    Malformed = Malformed
    Digests <- MCDigests
    Uint32 = 1048576
SPECIFICATION FairSpec
INVARIANTS
    SlotsMatchHolders
    BoundedCost
PROPERTIES
    CancelledLeaveQueue
    EveryRequestAnswered
