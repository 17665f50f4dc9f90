CONSTANTS
    N = 1
    MaxTicks = 3
    MaxOpens = 2
    MaxOdd = 1
SPECIFICATION FairSpec
INVARIANTS
    TypeOK
    NothingLost
    StaysInOrder
    SubscribedOnce
PROPERTIES
    ShutdownCompletes
    Resubscribes
\* The process ends.
CHECK_DEADLOCK FALSE
