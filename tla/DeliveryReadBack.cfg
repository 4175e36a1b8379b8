SPECIFICATION ManagerSpec
CONSTANTS
    Launches = {l1, l2}
    Dedup = TRUE
    OrderedQueries = FALSE
    NoId = NoId
    None = None
    Unread = Unread
    Runs = {r1, r2}
    t1 = t1
    t2 = t2
    r1 = r1
    r2 = r2
    r3 = r3
    r4 = r4
    r5 = r5
    r6 = r6
    c1 = c1
    c2 = c2
    c3 = c3
    Targets <- MCTargets
    Months <- MCMonths
    Cells <- MCCells
    TargetOrder <- MCOneTarget
    Shelf <- MCShelf
    Geographies <- MCGeographies
    Lookups <- MCLookups
    Pieces <- MCPieces
    SMin = 2
    HistoryFrames <- MCSoundHistory
    Boundaries = {}
    Excluded <- MCExcluded
    ExpectedCells = 1
    Blanks <- MCBlanks
SYMMETRY Interchangeable
INVARIANTS
    CompleteMeansServable
    HistoryFollowsItsRun
CHECK_DEADLOCK FALSE
