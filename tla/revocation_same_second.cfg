\* Three ticks to the second, no Redis, no fault.
CONSTANTS
    Users = {u1}
    Requests = {r1}
    ClientTimes = {}
    MaxTime = 3
    TicksPerSecond = 3
    TokenDuration = 4
    RevokeDuration = 1
    HasRedis = FALSE
    Faults = {}
    Null = Null
SPECIFICATION Spec
INVARIANT LaterTokenSurvives
