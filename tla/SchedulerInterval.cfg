CONSTANTS
    date = date
    interval = interval
    cron = cron
    Job = {interval}
    Kind <- OnlyInterval
    Param <- OneUnit
    Replica = {p1}
    Loop = {l1}
    Horizon = 2
    Ttl = 2
    MaxTime = 6
    None = None
SPECIFICATION SteadySpec
PROPERTIES
    TickFiresAllDue
CHECK_DEADLOCK FALSE
