CONSTANTS
    Users = {u1}
    Others = {u2}
    Requests = {r1, r2}
    Images = {i1}
    MaxClock = 1
    Faults = {"disk", "db", "redis", "crash"}
    Null = Null
SPECIFICATION FairSpec
INVARIANTS
    TypeOK
    FilesBacked
    OrphansExplained
    OwnUploadsOnly
PROPERTIES
    ListHeals
