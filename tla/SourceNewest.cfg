SPECIFICATION Spec
CONSTANTS
    Together <- NewerRuns
    Months <- OneMonth
    TargetOrder <- MCTargetOrder
    Ensemble = e1
    OrderedQueries = TRUE
    NoId = NoId
    None = None
    r1 = r1
    r2 = r2
    r3 = r3
    t1 = t1
    t2 = t2
    e1 = e1
    e2 = e2
PROPERTIES
    RefusesOnlyWithoutACompleteRun
CHECK_DEADLOCK FALSE
