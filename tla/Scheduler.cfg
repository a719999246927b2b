CONSTANTS
    date = date
    interval = interval
    cron = cron
    Job = {date, interval}
    Kind <- DateAndInterval
    Param <- DateAndIntervalParams
    Replica = {p1, p2}
    Loop = {l1, l2}
    Horizon = 2
    Ttl = 2
    MaxTime = 3
    None = None
SPECIFICATION Spec
SYMMETRY Symmetry
INVARIANTS
    TypeOK
    SpacedByLock
    OncePerReplica
PROPERTIES
    PassedOverOnlyIfFired
CHECK_DEADLOCK FALSE
