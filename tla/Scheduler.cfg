CONSTANTS
    Tasks = {t1, t2, t3}
    Repeated = {t3}
    Workers = {w1, w2}
    NoTask = NoTask
    MaxRetries = 2
    MayCrash = TRUE
    Clients = {c1, c2, c3}
    Anonymous = {c3}
    NoClient = NoClient
SPECIFICATION SchedulerSpec
INVARIANTS
    SchedulerTypeOK
    RedisPendingIsQueued
    GrantHonoured
PROPERTIES
    ImplementsDelivery
    RedisImplementsDelivery
    EveryTaskEnds
    FreedAfterCrash
