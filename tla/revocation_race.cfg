\* Redis in use and no fault at all.
CONSTANTS
    Users = {u1}
    Requests = {r1, r2}
    ClientTimes = {}
    MaxTime = 2
    TicksPerSecond = 1
    TokenDuration = 3
    RevokeDuration = 3
    HasRedis = TRUE
    Faults = {}
    Null = Null
SPECIFICATION Spec
INVARIANT HonoursAcked
