CONSTANTS
    MaxArbs = 1
    MaxAged = 2
    MaxChecks = 0
    MaxUpdates = 2
    Reported = {}
    Lossy = FALSE
    MaxRepeats = 1
    MayStop = TRUE
    BuyVenues = {1}
    Seed = 3
    Delta = 2
    Penalty = 1
SPECIFICATION FairSpec
PROPERTIES
    OverdueResolves
    HedgeIsRaised
\* The bounds end the run: no more arbs, nothing left to time out.
CHECK_DEADLOCK FALSE
