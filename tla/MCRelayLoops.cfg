CONSTANTS
    Null = Null
    Slots = {1, 2}
    MaxHeaders = 3
    MaxSubmissions = 3
    MaxBid = 2
    HeaderLists <- MCHeaderLists
SPECIFICATION LoopsSpec
INVARIANTS
    TypeOK
    StoredIsHighestSeen
    LoopComputesHighest
    FindsTypeOK
    LoopComputesAttribution
    ChainBlockAttribution
CHECK_DEADLOCK FALSE
