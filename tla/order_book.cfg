CONSTANTS
    InitBuckets = 2
    NodesPerBucket = 1
    NoValue = NoValue
    MapKinds <- Kinds
    Ids = {1, 2, 9}
    Quantities = {1, 2}
    Prices = {1, 2, 4}
    MaxPriceLevels = 3
    PriceSteps = 2
SPECIFICATION Spec
INVARIANTS
    LevelsMatch
    TopOfBook
    PrintShowsTop
    MapAgrees
    InsertAndErase
    NullOnlyBehindTombstone
