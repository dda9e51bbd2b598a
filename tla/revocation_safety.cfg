\* One user, two concurrent requests, every fault.
CONSTANTS
    Users = {u1}
    Requests = {r1, r2}
    ClientTimes <- MCClientTimes
    MaxTime = 1
    TicksPerSecond = 1
    TokenDuration = 3
    RevokeDuration = 2
    HasRedis = TRUE
    Faults = {"redis", "db", "crash"}
    Null = Null
SPECIFICATION FairSpec
INVARIANTS
    TypeOK
    CacheNeverAhead
    RejectionSound
    AckedDurable
PROPERTIES
    LimitNeverBack
    FirstRevocationHonoured
    StaleHeals
    KeepsPromise
