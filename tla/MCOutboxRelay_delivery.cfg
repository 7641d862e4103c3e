CONSTANTS
    Relays = {r1, r2}
    Events = {1, 2, 3}
    Before <- SameAggregate
    Refused = {1, 3}
    Batch = 2
    Lease = 2
    BackoffMax = 2
    AttemptsCap = 2
    NoEvent = NoEvent
SPECIFICATION FairSpec
INVARIANTS TypeOK LeaseExclusive LeaseCovers
PROPERTIES NoSendAfterMark DeliverySafe DeliveryLive
