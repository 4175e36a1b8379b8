SPECIFICATION Spec
CONSTANTS
    None = None
    Patience = 9
    ConsumerName = "un_crafd"
    endpoint = endpoint
    key = key
    database = database
    shelfBucket = shelfBucket
    crafdBucket = crafdBucket
    e1 = e1
    e2 = e2
    c1 = c1
    c2 = c2
    Directories <- MCDirectories
    Ensembles = {e1, e2}
    RunEnsemble = e1
    ConnectionEnv <- MCConnectionEnv
    ProdForecastsEnv <- MCProdForecastsEnv
    PartnerEnv <- MCPartnerEnv
    GridCells = {c1, c2}
    LookupCells = {c1}
    Regions = {"land_gaul", "elsewhere"}
    Pinned = "land_gaul"
    ExcludedCells = {c2}
INVARIANTS
    TypeOK
    MisdeclaredLeavesNoTrace
    NoCellWithoutGeography
    ReportIsTheConsumersView
    OneRefusalPerCause
PROPERTIES
    MistakesAreRepaired
CHECK_DEADLOCK FALSE
