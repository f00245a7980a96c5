CONSTANTS
    Null = Null
    ZERO_ADDRESS = ZERO_ADDRESS
    Proposers = {p1, p2}
    Builders = {"b1", "b2"}
    Outsider = "outsider"
    Epoch = 0
    SLOTS_IN_EPOCH = 2
    FinalizedEpochs = {0, 1}
    BidLists = {}
    Payments = {}
    Histories <- KindsOfSlot
    FetchesMayFail = TRUE
    ProposerAmounts = {2}
SYMMETRY ProposerSymmetry
SPECIFICATION Spec
INVARIANTS
    LoopInv
    OneVerdictPerSlot
    VerdictsMatchChain
    VerdictsNameDutyProposer
PROPERTIES
    ImplementsAudit
CHECK_DEADLOCK FALSE
