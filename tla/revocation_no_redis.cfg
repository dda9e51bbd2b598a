\* No Redis: the server decides from the row alone.  JWT seconds of two ticks,
\* tokens that expire, a past and a future time in the request body.
CONSTANTS
    Users = {u1}
    Requests = {r1, r2}
    ClientTimes = {1, 5}
    MaxTime = 3
    TicksPerSecond = 2
    TokenDuration = 2
    RevokeDuration = 1
    HasRedis = FALSE
    Faults = {"crash"}
    Null = Null
SPECIFICATION Spec
INVARIANTS
    HonoursAcked
PROPERTIES
    KeepsPromise
