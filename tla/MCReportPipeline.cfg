CONSTANTS
    Null = Null
    ZERO_ADDRESS = ZERO_ADDRESS
    Proposers = {p1}
    Builders = {"b1"}
    Outsider = "outsider"
    Epoch = 0
    SLOTS_IN_EPOCH = 2
    FinalizedEpochs = {0, 2}
    Histories <- MCHistories
    FetchesMayFail = FALSE
    ValidationFetchesMayFail = TRUE
    ProposerAmounts = {2}
    MaxReports = 2
SPECIFICATION MCPipelineSpec
INVARIANTS
    RequestOK
    OnlyDisputedRefused
    SignedUndisputed
PROPERTIES
    ImplementsValidation
    RequestsEnd
CHECK_DEADLOCK FALSE
