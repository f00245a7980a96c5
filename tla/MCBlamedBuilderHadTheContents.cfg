CONSTANTS
    Null = Null
    ZERO_ADDRESS = ZERO_ADDRESS
    Proposers = {p1}
    Builders = {"b1", "b2"}
    Outsider = "outsider"
    Epoch = 1
    SLOTS_IN_EPOCH = 1
    FinalizedEpochs = {2, 3}
    BidLists <- AnyTwoBids
    Payments <- AnyPayment
    Histories <- MCHistories
    FetchesMayFail = FALSE
    ProposerAmounts = {2}
SPECIFICATION Spec
INVARIANT BlamedBuilderHadTheContents
CHECK_DEADLOCK FALSE
