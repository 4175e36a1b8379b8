SPECIFICATION Spec
CONSTANTS
    Launches = {l1, l2}
    Dedup = FALSE
    OrderedQueries = TRUE
    NoId = NoId
    None = None
    Runs = {r1}
    t1 = t1
    r1 = r1
    r2 = r2
    r3 = r3
    c1 = c1
    c2 = c2
    Targets <- MCTargets
    Months <- MCMonths
    Cells <- MCCells
    TargetOrder <- MCTargetOrder
    Shelf <- MCShelf
    Geographies <- MCGeographies
    Lookups <- MCOneLookup
    Pieces <- MCPieces
    SMin = 2
SYMMETRY Interchangeable
INVARIANTS
    EveryCommittedRunIsWhole
CHECK_DEADLOCK FALSE
