CONSTANTS
    date = date
    interval = interval
    cron = cron
    Job = {date, cron}
    Kind <- DateAndCron
    Param <- DateAndCronParams
    Replica = {p1, p2}
    Loop = {l1, l2}
    Horizon = 2
    Ttl = 2
    MaxTime = 6
    None = None
SPECIFICATION SteadySpec
INVARIANTS
    SingleFire
CHECK_DEADLOCK FALSE
