CONSTANTS
    MaxArbs = 2
    MaxAged = 2
    MaxChecks = 0
    MaxUpdates = 1
    Reported = {}
    Lossy = FALSE
    MaxRepeats = 0
    MayStop = FALSE
    BuyVenues = {1, 2}
    Seed = 3
    Delta = 2
    Penalty = 1
SPECIFICATION FairSpec
INVARIANTS
    TypeOK
    TrackerConsistent
    CorrectedAfterTimeout
PROPERTIES
    FillIsFinal
\* The bounds end the run: no more arbs, nothing left to time out.
CHECK_DEADLOCK FALSE
