CONSTANTS
    Workers = {w1, w2}
    Operations = {1, 2, 3}
    Reference <- Blocked
    Faulty = {2}
    Batch = 1
    Lease = 2
    BackoffMax = 2
    MaxAttempts = 4
    TTL = 4
    AttemptsCap = 4
    NoOperation = NoOperation
SPECIFICATION FairSpec
INVARIANTS WorkIsCurrent TriedAgainSoon
PROPERTIES GivenUpRightly WaitsEnd
