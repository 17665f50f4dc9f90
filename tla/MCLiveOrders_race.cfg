CONSTANTS
    MaxArbs = 1
    MaxAged = 2
    MaxChecks = 1
    MaxUpdates = 1
    Reported = {}
    Lossy = FALSE
    MaxRepeats = 0
    MayStop = FALSE
    BuyVenues = {1}
    Seed = 3
    Delta = 2
    Penalty = 1
SPECIFICATION Spec
PROPERTIES
    OnlyPendingTimesOut
\* The bounds end the run: no more arbs, nothing left to time out.
CHECK_DEADLOCK FALSE
