SPECIFICATION FairSpec
CONSTANTS
    Together <- Contended
    Months <- TwoMonths
    TargetOrder <- MCTargetOrder
    Ensemble = e1
    OrderedQueries = FALSE
    NoId = NoId
    None = None
    r1 = r1
    r2 = r2
    r3 = r3
    t1 = t1
    t2 = t2
    e1 = e1
    e2 = e2
INVARIANTS
    TypeOK
    TargetsAreWhole
    AwaitsAllTargets
    OneRunOneEnsemble
PROPERTIES
    PinnedRunsLoad
    EveryResolutionEnds
CHECK_DEADLOCK FALSE
