CONSTANTS
    Topic = {completed}
    Group = {king1, king2}
    Subscription = {s1, s2}
    Drainer = {d}
    MaxRetries = 2
    MaxEvents = 2
    None = None
SPECIFICATION FairSpec
INVARIANTS
    TypeOK
    NothingLostWhileSubscribed
    DeliveriesAccounted
PROPERTIES
    DrainWaitsForAll
    NoCallAfterUnsubscribe
    LogSpec
    AcceptedIsSettled
CHECK_DEADLOCK FALSE
