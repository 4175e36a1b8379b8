SPECIFICATION Spec
CONSTANTS
    ColumnOrder <- MCColumnOrder
    CodeCols <- MCCodeCols
    Sources <- MCSources
    Definitions <- MCDefinitions
    Regions <- MCRegions
    ForecastCells <- MCForecastCells
    HistoryCells <- MCHistoryCells
    Null = Null
    Sentinel = Sentinel
    Empty = Empty
    MaxChanges = 1
    MaxBuilds = 2
    None = None
    g1 = g1
    g2 = g2
    code = code
    name = name
    v1 = v1
    v2 = v2
INVARIANTS
    OneStampOneLookup
CHECK_DEADLOCK FALSE
