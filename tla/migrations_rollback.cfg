\* One program at a time, no fault.
CONSTANTS
    Procs = {p1}
    MaxSteps = 4
    MaxFaults = 0
    Overlapping = FALSE
SPECIFICATION Spec
INVARIANT RollbackWorks
