CONSTANTS
    MaxEpoch = 4
    Clients = {c1, c2}
    ApiEpochs = {1, NotANumber}
    NotANumber = NotANumber
SPECIFICATION ServicesSpec
INVARIANTS
    AutoScanTypeOK
    AskedEpochsAccepted
    AskedInOrder
    SkippedOnlyIfLost
    ApiTypeOK
PROPERTIES
    EventsScanned
    RequestsServed
    RefusalsAgree
CHECK_DEADLOCK FALSE
