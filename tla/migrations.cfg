\* Two servers and operators, two faults, rollbacks of any length.
CONSTANTS
    Procs = {p1, p2}
    MaxSteps = 4
    MaxFaults = 2
    Overlapping = TRUE
SPECIFICATION Spec
INVARIANTS
    TypeOK
    ServingSchema
    RecordedPrefix
    SchemaFollowsRecord
    UpFailsForAReason
