CONSTANTS
    Null = Null
    ZERO_ADDRESS = ZERO_ADDRESS
    Proposers = {p1}
    Builders = {"b1"}
    Outsider = "outsider"
    Epoch = 1
    SLOTS_IN_EPOCH = 2
    FinalizedEpochs = {3}
    Histories <- MCHistories
    FetchesMayFail = FALSE
    ValidationFetchesMayFail = FALSE
    ProposerAmounts = {2}
    MaxReports = 2
SPECIFICATION MCPipelineSpec
INVARIANT AlternativeUnderpaymentVerified
CHECK_DEADLOCK FALSE
