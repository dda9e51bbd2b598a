\* One login key; a process may die between INCR and EXPIRE.
CONSTANTS
    Keys = {login}
    LoginKeys = {login}
    Requests = {r1, r2}
    Limit = 2
    Window = 2
    Faults = {"crash"}
SPECIFICATION FairSpec
PROPERTY EveryLockoutEnds
