CONSTANTS
    Slots = {s1, s2}
    N = 2
    MaxCycles = 3
SPECIFICATION FairSpec
INVARIANTS
    TypeOK
    EachRequestCounted
    OkPollsArrive
    NewestLast
PROPERTIES
    ShutdownCompletes
\* The process ends.
CHECK_DEADLOCK FALSE
