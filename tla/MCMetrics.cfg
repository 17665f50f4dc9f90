CONSTANTS
    initial_balance = 200
    Pnls <- MCPnls
    MaxTrades = 5
    BOUNDS <- MCBounds
    UINT64_MAX = 420
    Samples <- MCSamples
    MaxSamples = 21
SPECIFICATION Session
INVARIANTS
    DrawdownIsLargestFall
    WelfordIsExact
    PercentilesAreRanks
    StatsMatchSamples
\* The buffer is full in the end.
CHECK_DEADLOCK FALSE
