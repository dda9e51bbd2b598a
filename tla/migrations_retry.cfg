\* One program at a time, one crash, and an operator who does what the guide says.
CONSTANTS
    Procs = {p1}
    MaxSteps = 1
    MaxFaults = 1
    Overlapping = FALSE
SPECIFICATION RetrySpec
PROPERTY RetryHelps
