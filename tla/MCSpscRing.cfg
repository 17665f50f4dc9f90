\* A ring of 4 slots whose counters wrap after 8.
CONSTANTS
    N = 4
    K = 2
    Items = {a, b}
    Zero = zero
SPECIFICATION FairSpec
INVARIANTS
    TypeOK
    NoDataRace
    WindowInv
PROPERTIES
    ImplementsFifo
    Drains
