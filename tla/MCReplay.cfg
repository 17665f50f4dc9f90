CONSTANTS
    PAIRS_PER_VENUE = 2
    RecordSize = 2
    FileSizes = {0, 1, 2, 4}
    Width = 6
    TmpLen = 6
    Decimals = 3
    Places = 4
    Mod16 = 4
    Configs <- MCConfigs
    Prices <- MCPrices
    Quantities <- MCQuantities
SPECIFICATION Spec
INVARIANTS
    TypeOK
    CleanExit
    CapacityRespected
    OrderNamesItsPair
    BodyReadsBack
\* The program ends.
CHECK_DEADLOCK FALSE
