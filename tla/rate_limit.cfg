\* A key that logins reset and one that nothing does, two concurrent requests,
\* every fault.
CONSTANTS
    Keys = {login, address}
    LoginKeys = {login}
    Requests = {r1, r2}
    Limit = 2
    Window = 3
    Faults = {"refused", "lost", "crash"}
SPECIFICATION FairSpec
INVARIANTS
    TypeOK
    WindowBudget
    CounterHasDeadline
PROPERTIES
    WindowIsFixed
    LockoutEnds
