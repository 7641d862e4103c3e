CONSTANTS
    Relays = {r1}
    Events = {1, 2}
    Before <- SameAggregate
    Refused = {}
    Batch = 1
    Lease = 2
    BackoffMax = 2
    AttemptsCap = 2
    NoEvent = NoEvent
SPECIFICATION Spec
INVARIANT AggregateOrder
