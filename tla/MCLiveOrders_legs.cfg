CONSTANTS
    MaxArbs = 1
    MaxAged = 2
    MaxChecks = 0
    MaxUpdates = 2
    Reported = {"partial", "cancelled"}
    Lossy = TRUE
    MaxRepeats = 1
    MayStop = FALSE
    BuyVenues = {1}
    Seed = 3
    Delta = 2
    Penalty = 1
SPECIFICATION Spec
INVARIANTS
    NoPhantomFill
    AlarmTruthful
\* The bounds end the run: no more arbs, nothing left to time out.
CHECK_DEADLOCK FALSE
