SPECIFICATION Spec
CONSTANTS
    Garbage = Garbage
    None = None
    c1 = c1
    c2 = c2
    Manifests <- MCManifests
    ShardLists <- MCShardLists
    Excluded <- MCExcluded
    ExpectedCells = 1
INVARIANTS
    TypeOK
    FilledLikeStacking
    DeclaredMonthsOnce
    ProductIsTheRegion
    FullGridIsAccepted
    SlicesAreTheShards
CHECK_DEADLOCK FALSE
