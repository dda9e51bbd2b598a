\* Arrays of up to three elements over three values, five bits, trees of up to
\* five nodes; texts of up to five characters around the bounds on their lengths;
\* three migration files; two checks of the health of one process.  The functions
\* return and the configuration is done, so behaviours end.
CONSTANTS
    Values = {v1, v2, v3}
    MaxLength = 3
    MaxBits = 5
    MaxNodes = 5
    MinUsernameLength = 2
    MaxUsernameLength = 3
    MinPasswordLength = 4
    MaxPasswordLength = 6
    HashLimit = 5
    MaxText = 5
    Characters = {"E acute", "no-break space", " ", "A", "a", "1", "-"}
    Word = {"A", "a", "1"}
    Space = {" ", "no-break space"}
    Upper = {"A", "E acute"}
    Lower = {"a"}
    Digit = {"1"}
    Wide = {"E acute", "no-break space"}
    Ports = {"8080", "9000"}
    SigningKeys = {"k1", "k2"}
    Durations = {"-1h", "0s", "12h", "24h", "1d"}
    Parsed <- MCParsed
    PoolSizes <- MCPoolSizes
    Servers = {s1}
    Requests = {r1, r2}
    Drain = 1
    RedisAtStart = {TRUE, FALSE}
    Null = Null
    Files <- MCFiles
    Bodies <- MCBodies
SPECIFICATION MCSpec
CHECK_DEADLOCK FALSE
INVARIANTS
    CellsAreLongest
    LongestRepeated
    IsGraySequence
    AnswersAreDistances
    RulesDecide
    LimitsHold
    PagesFindServer
    RecordTellsEffect
    NothingPending
    DegradedForAReason
