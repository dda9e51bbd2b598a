\* Two servers, two requests for one name with two passwords, every fault.
CONSTANTS
    Servers = {s1, s2}
    Requests = {r1, r2}
    Drain = 1
    RedisAtStart = {TRUE}
    Names = {n1}
    Passwords = {p1, p2}
    Faults = {"db", "kill"}
    Null = Null
SPECIFICATION FairSpec
INVARIANTS
    TypeOK
    OneOwner
    RegisteredCanLogIn
    GracefulStop
PROPERTIES
    ShutdownEnds
