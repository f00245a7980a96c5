----------------------------- MODULE EpochReporter -----------------------------
(***************************************************************************)
(* epochReporter (core-reporter/reporter.js) with the services it calls:   *)
(* one scan of one epoch. Every await is a step; requests started together *)
(* settle in any order; where FetchesMayFail, each request may fail.       *)
(*                                                                         *)
(* pc names what the scan waits for or the loop it is in, and at the end   *)
(* how it ended: "listing" (the penalties are returned), "error" (an       *)
(* object with only an error is) or "thrown" (an exception, or a rejected  *)
(* promise nobody awaits yet, which Node treats alike).                    *)
(***************************************************************************)
EXTENDS PbsEpoch, PenaltyTypes

CONSTANTS
    FetchesMayFail,     \* may requests to the beacon node, relay, ... fail?
    ProposerAmounts     \* amounts a proposer's penalty, twice its fees, may have

ASSUME FetchesMayFailAssumption == FetchesMayFail \in BOOLEAN
ASSUME ProposerAmountsAssumption == ProposerAmounts \subseteq Nat

VARIABLES
    pc,
    todo,                   \* slots the current loop has not handled yet
    uncheckedProposers,     \* pool members whose isSlashedPromise is not awaited yet
    executionBlockFound,    \* is executionBlock (of the first slot) not null?
    missedSlot,
    pendingPayments,        \* slotPaymentPromises not settled yet, by slot
    pendingBlocks,          \* requests of getBlocksInAnEpoch not settled, by slot
    pendingRelay,           \* which of "deliveries", "submissions" are not settled
    nullBlocks,             \* slots whose entry in blocksInEpoch has a null hash
    relayFailed,            \* which of "deliveries", "submissions" failed
    penalties               \* the five lists, as one set

promises == <<pendingPayments, pendingBlocks, pendingRelay, nullBlocks, relayFailed>>
progress == <<todo, uncheckedProposers, executionBlockFound, missedSlot, promises, penalties>>
vars == <<world, pc, progress>>

Outcomes == {"listing", "error", "thrown"}
Phases ==
    {"finality", "duties", "proposers", "altFee", "firstBlock", "slashed", "missed",
     "headers", "gather", "payments", "missedLoop"}

Reached == IF FetchesMayFail THEN BOOLEAN ELSE {TRUE}

ScanInit ==
    /\ pc = "finality"
    /\ todo = {} /\ uncheckedProposers = {} /\ missedSlot = {} /\ penalties = {}
    /\ executionBlockFound = FALSE
    /\ pendingPayments = {} /\ pendingBlocks = {} /\ pendingRelay = {}
    /\ nullBlocks = {} /\ relayFailed = {}

Init == WorldInit /\ ScanInit

GoTo(phase) == pc' = phase /\ UNCHANGED progress

-------------------------------------------------------------------------------
(* The gate, the duties and the registered proposers.                       *)

\* Mutant of previousFinalisedEpoch: also an epoch 1 leads to 0.
NotBelowGenesis == IF finalized < 2 THEN 0 ELSE finalized - 2

\* The difference is not clamped: a finalized epoch 1 gives -1, and 0 gives 0.
previousFinalisedEpoch == IF finalized = 0 THEN 0 ELSE finalized - 2

ReadFinality ==
    /\ pc = "finality"
    /\ \E reached \in Reached :
        GoTo(IF ~reached THEN "thrown"
             ELSE IF Epoch > previousFinalisedEpoch THEN "error" ELSE "duties")

GetEpochProposers ==
    /\ pc = "duties"
    /\ \E reached \in Reached : GoTo(IF reached THEN "proposers" ELSE "error")

GetProposers ==
    /\ pc = "proposers"
    /\ \E reached \in Reached : GoTo(IF reached /\ pool # {} THEN "altFee" ELSE "error")

AwaitAlternativeFeeRecipients ==
    /\ pc = "altFee"
    /\ \E reached \in Reached : GoTo(IF reached THEN "firstBlock" ELSE "thrown")

-------------------------------------------------------------------------------
(* Slashed proposers. The penalty names a block of the epoch's first slot.  *)

GetExecutionBlockInAnEpoch ==
    /\ pc = "firstBlock"
    /\ \E reached \in Reached :
        executionBlockFound' = (reached /\ history[FirstSlot].block # "missed")
    /\ pc' = "slashed"
    /\ uncheckedProposers' = pool
    /\ UNCHANGED <<todo, missedSlot, promises, penalties>>

OptedOut(p) == alternativeFeeRecipient[p] # ZERO_ADDRESS

isValidatorSlashedOrEffectiveLow(p) == p \in kicked /\ ~OptedOut(p)

NotSlashed(p) ==
    /\ pc = "slashed" /\ p \in uncheckedProposers
    /\ \E reached \in Reached : ~(reached /\ isValidatorSlashedOrEffectiveLow(p))
    /\ uncheckedProposers' = uncheckedProposers \ {p}
    /\ UNCHANGED <<pc, todo, executionBlockFound, missedSlot, promises, penalties>>

Slashed(p) ==
    /\ pc = "slashed" /\ p \in uncheckedProposers
    /\ isValidatorSlashedOrEffectiveLow(p)

SlashedPenalty(p) ==
    [internalPenaltyType |-> "PROPOSER_SLASHED_OR_LOW_EFFECTIVE", slot |-> FirstSlot,
     blsKey |-> p, builder |-> ZERO_ADDRESS, amount |-> 0, rpbs |-> Null]

ReportSlashed(p) ==
    /\ Slashed(p)
    /\ executionBlockFound
    /\ penalties' = penalties \union {SlashedPenalty(p)}
    /\ uncheckedProposers' = uncheckedProposers \ {p}
    /\ UNCHANGED <<pc, todo, executionBlockFound, missedSlot, promises>>

\* executionBlock.block_number of null.
SlashedBlockMissing(p) == Slashed(p) /\ ~executionBlockFound /\ GoTo("thrown")

SlashedLoopEnds ==
    /\ pc = "slashed" /\ uncheckedProposers = {}
    /\ IF ponSlots = {}
       THEN GoTo("listing")
       ELSE /\ pc' = "missed"
            /\ todo' = ponSlots
            /\ UNCHANGED <<uncheckedProposers, executionBlockFound, missedSlot, promises, penalties>>

-------------------------------------------------------------------------------
(* getMissedSlots, and the requests started together after it.              *)

First(s, slots) == s \in slots /\ \A t \in slots : s <= t

\* Mutant of ProbeMissed: a request that fails counts as a missed slot.
ProbeMissedOrFailed(s, reached) == ~reached \/ history[s].block = "missed"

\* Only a 404 counts: a request that fails reads as a proposed slot.
ProbeMissed(s, reached) == reached /\ history[s].block = "missed"

AwaitMissedProbe(s) ==
    /\ pc = "missed" /\ First(s, todo)
    /\ \E reached \in Reached :
        missedSlot' = IF ProbeMissed(s, reached) THEN missedSlot \union {s} ELSE missedSlot
    /\ todo' = todo \ {s}
    /\ UNCHANGED <<pc, uncheckedProposers, executionBlockFound, promises, penalties>>

MissedSlotsKnown == pc = "missed" /\ todo = {} /\ GoTo("headers")

proposedSlot == ponSlots \ missedSlot

AwaitHeaderRequests ==
    /\ pc = "headers"
    /\ pc' = "gather"
    /\ pendingPayments' = proposedSlot
    /\ pendingBlocks' = proposedSlot
    /\ pendingRelay' = {"deliveries", "submissions"}
    /\ UNCHANGED <<todo, uncheckedProposers, executionBlockFound, missedSlot,
                   nullBlocks, relayFailed, penalties>>

\* The length of null is read.
HeaderRequestsFail == pc = "headers" /\ FALSE \in Reached /\ GoTo("thrown")

-------------------------------------------------------------------------------
(* Promises that settle while the scan awaits the relay and the blocks, and *)
(* the slot payments also while it is in the loop over them.                *)

Gathering == pc \in {"gather", "payments"}

\* getSlotPayment rejects when the block cannot be fetched (the catch block reads
\* variables declared after it) or its last transaction has no recipient.
PaymentKnown(s) ==
    /\ history[s].block # "missed"
    /\ history[s].lastTx # Null => history[s].lastTx.to # Null

SettleSlotPayment(s) ==
    /\ Gathering /\ s \in pendingPayments
    /\ PaymentKnown(s)
    /\ pendingPayments' = pendingPayments \ {s}
    /\ UNCHANGED <<pc, todo, uncheckedProposers, executionBlockFound, missedSlot,
                   pendingBlocks, pendingRelay, nullBlocks, relayFailed, penalties>>

\* Mutant of SlotPaymentRejects: the rejection is swallowed and nothing settles.
SlotPaymentHangs(s) == Gathering /\ s \in pendingPayments /\ FALSE \in Reached /\ GoTo(pc)

SlotPaymentRejects(s) ==
    /\ Gathering /\ s \in pendingPayments
    /\ ~PaymentKnown(s) \/ FALSE \in Reached
    /\ GoTo("thrown")

SettleBlock(s) ==
    /\ pc = "gather" /\ s \in pendingBlocks
    /\ history[s].block # "missed"
    /\ pendingBlocks' = pendingBlocks \ {s}
    /\ UNCHANGED <<pc, todo, uncheckedProposers, executionBlockFound, missedSlot,
                   pendingPayments, pendingRelay, nullBlocks, relayFailed, penalties>>

\* Only the request awaited, the first pending one, has its rejection caught.
BlockRejects(s) ==
    /\ pc = "gather" /\ s \in pendingBlocks
    /\ history[s].block = "missed" \/ FALSE \in Reached
    /\ IF First(s, pendingBlocks)
       THEN /\ nullBlocks' = nullBlocks \union {s}
            /\ pendingBlocks' = pendingBlocks \ {s}
            /\ UNCHANGED <<pc, todo, uncheckedProposers, executionBlockFound, missedSlot,
                           pendingPayments, pendingRelay, relayFailed, penalties>>
       ELSE GoTo("thrown")

\* A failed request leaves null (deliveries) or [] (submissions), with no rejection.
SettleRelay(list) ==
    /\ pc = "gather" /\ list \in pendingRelay
    /\ pendingRelay' = pendingRelay \ {list}
    /\ \E reached \in Reached :
        relayFailed' = IF reached THEN relayFailed ELSE relayFailed \union {list}
    /\ UNCHANGED <<pc, todo, uncheckedProposers, executionBlockFound, missedSlot,
                   pendingPayments, pendingBlocks, nullBlocks, penalties>>

PaymentLoopStarts ==
    /\ pc = "gather" /\ pendingBlocks = {} /\ pendingRelay = {}
    /\ pc' = "payments"
    /\ todo' = proposedSlot
    /\ UNCHANGED <<uncheckedProposers, executionBlockFound, missedSlot, promises, penalties>>

-------------------------------------------------------------------------------
(* The verdict on a slot with a block.                                      *)

highestValueHeader(s) == HighestValueHeader(headerRequests, s)

\* What the relay's lists attribute to a slot, given what is known of its block.
Attribution(s, blockHash) ==
    BuilderSubmissionForSlot(blockHash, BuilderSubmissions(s), headerRequests, payloadDeliveries)

\* Mutant of Payment: what the last transaction carries counts wherever it goes.
PaymentToAnyone(s) ==
    LET tx == history[s].lastTx IN
        IF tx = Null THEN [payment |-> 0, builder |-> ZERO_ADDRESS, reverted |-> FALSE]
        ELSE [payment |-> tx.value, builder |-> tx.from, reverted |-> tx.reverted]

\* paymentToPayoutPool: only the last transaction counts, and only if it goes to
\* the pool or to the alternative fee recipient registered now.
Payment(s) ==
    LET tx == history[s].lastTx IN
        IF tx = Null THEN [payment |-> 0, builder |-> ZERO_ADDRESS, reverted |-> FALSE]
        ELSE [payment  |-> IF \/ tx.to = "payoutPool"
                              \/ OptedOut(duty[s]) /\ tx.to = alternativeFeeRecipient[duty[s]]
                           THEN tx.value ELSE 0,
              builder  |-> tx.from,
              reverted |-> tx.reverted]

\* A list that could not be fetched is read (no entry for the slot in [], no
\* length of null), or the block of the slot is unknown: "Unexpected state".
PaymentCheckThrows(s) ==
    \/ "submissions" \in relayFailed
    \/ s \in nullBlocks
    \/ "deliveries" \in relayFailed /\ Considered(BuilderSubmissions(s), BlockHash(s)) # {}

PaymentCheck(s) ==
    /\ pc = "payments" /\ First(s, todo) /\ s \notin pendingPayments

Underpaid(s) ==
    IsUnderpayment(highestValueHeader(s), Attribution(s, BlockHash(s)).builderBid,
                   Payment(s).reverted, Payment(s).payment)

UnderpaymentPenalty(s) ==
    LET bid == Attribution(s, BlockHash(s)).builderBid IN
        [internalPenaltyType |-> "BUILDER_UNDERPAYMENT", slot |-> s, blsKey |-> duty[s],
         builder |-> IF Payment(s).builder = ZERO_ADDRESS THEN bid.BuilderPubkey
                     ELSE Payment(s).builder,
         amount  |-> 2 * highestValueHeader(s),
         rpbs    |-> RpbsPayload(bid)]

PaymentCheckFails(s) == PaymentCheck(s) /\ PaymentCheckThrows(s) /\ GoTo("thrown")

SlotHandled(s) ==
    /\ todo' = todo \ {s}
    /\ UNCHANGED <<pc, uncheckedProposers, executionBlockFound, missedSlot, promises>>

ReportUnderpayment(s) ==
    /\ PaymentCheck(s) /\ ~PaymentCheckThrows(s)
    /\ Underpaid(s)
    /\ penalties' = penalties \union {UnderpaymentPenalty(s)}
    /\ SlotHandled(s)

\* Also the empty block without a bid, for which the code only warns.
AcceptPayment(s) ==
    /\ PaymentCheck(s) /\ ~PaymentCheckThrows(s)
    /\ ~Underpaid(s)
    /\ SlotHandled(s)
    /\ UNCHANGED penalties

PaymentLoopEnds ==
    /\ pc = "payments" /\ todo = {}
    /\ pc' = "missedLoop"
    /\ todo' = missedSlot
    /\ UNCHANGED <<uncheckedProposers, executionBlockFound, missedSlot, promises, penalties>>

-------------------------------------------------------------------------------
(* The verdict on a missed slot with bids.                                  *)

MissedCheck(s) == pc = "missedLoop" /\ First(s, todo)

\* Mutant of NoDemand: a slot without bids ends the loop.
NoDemandBreaks(s) ==
    /\ MissedCheck(s)
    /\ "submissions" \notin relayFailed /\ history[s].bids = <<>>
    /\ GoTo("listing")

NoDemand(s) ==
    /\ MissedCheck(s)
    /\ "submissions" \notin relayFailed /\ history[s].bids = <<>>
    /\ SlotHandled(s)
    /\ UNCHANGED penalties

\* Entries of [] for the slot, or the length of null, are read.
MissedCheckThrows(s) ==
    /\ MissedCheck(s)
    /\ \/ "submissions" \in relayFailed
       \/ "deliveries" \in relayFailed /\ history[s].bids # <<>>
    /\ GoTo("thrown")

Judge(s) == MissedCheck(s) /\ relayFailed = {} /\ history[s].bids # <<>>

\* The list of deliveries, an array counted from 0, is indexed by the slot number.
DeliveredEntry(s) == s < Len(payloadDeliveries)

Offline(s) == ~Truthy(highestValueHeader(s)) /\ ~OptedOut(duty[s])
DidNotSign(s) == ~Offline(s) /\ ~DeliveredEntry(s) /\ ~OptedOut(duty[s])
DidNotPublish(s) == ~Offline(s) /\ ~DidNotSign(s)

rpbs(s) == RpbsPayload(Attribution(s, Null).builderBid)

MissedSlotPenalty(type, s, builder, amount) ==
    [internalPenaltyType |-> type, slot |-> s,
     blsKey |-> Attribution(s, Null).ProposerPubkey,
     builder |-> builder, amount |-> amount, rpbs |-> rpbs(s)]

\* Reading BuilderPubkey of a null rpbs throws, and so does a request for the
\* rewards that fails.
ReportOffline(s) ==
    /\ Judge(s) /\ Offline(s)
    /\ rpbs(s) # Null
    /\ \E amount \in ProposerAmounts :
        penalties' = penalties \union
            {MissedSlotPenalty("PROPOSER_OFFLINE", s, rpbs(s).BuilderPubkey, amount)}
    /\ SlotHandled(s)

OfflineThrows(s) ==
    /\ Judge(s) /\ Offline(s)
    /\ rpbs(s) = Null \/ FALSE \in Reached
    /\ GoTo("thrown")

\* Mutant of ReportDidNotSign: the loop does not continue with the next slot.
ReportDidNotSignAndGoOn(s) ==
    /\ Judge(s) /\ DidNotSign(s)
    /\ rpbs(s) # Null
    /\ \E amount \in ProposerAmounts :
        penalties' = penalties \union
            {MissedSlotPenalty("PROPOSER_DID_NOT_SIGN", s, rpbs(s).BuilderPubkey, amount),
             MissedSlotPenalty("BUILDER_DIDNT_PUBLISH", s, rpbs(s).BuilderPubkey,
                               2 * highestValueHeader(s))}
    /\ SlotHandled(s)

ReportDidNotSign(s) ==
    /\ Judge(s) /\ DidNotSign(s)
    /\ LET builder == IF rpbs(s) = Null THEN ZERO_ADDRESS ELSE rpbs(s).BuilderPubkey IN
       \E amount \in ProposerAmounts :
        penalties' = penalties \union
            {MissedSlotPenalty("PROPOSER_DID_NOT_SIGN", s, builder, amount)}
    /\ SlotHandled(s)

DidNotSignThrows(s) ==
    /\ Judge(s) /\ DidNotSign(s)
    /\ FALSE \in Reached
    /\ GoTo("thrown")

ReportNotPublishing(s) ==
    /\ Judge(s) /\ DidNotPublish(s)
    /\ rpbs(s) # Null /\ highestValueHeader(s) # Null
    /\ penalties' = penalties \union
            {MissedSlotPenalty("BUILDER_DIDNT_PUBLISH", s, rpbs(s).BuilderPubkey,
                               2 * highestValueHeader(s))}
    /\ SlotHandled(s)

\* BuilderPubkey of null, or BigInt(undefined).
NotPublishingThrows(s) ==
    /\ Judge(s) /\ DidNotPublish(s)
    /\ rpbs(s) = Null \/ highestValueHeader(s) = Null
    /\ GoTo("thrown")

MissedLoopEnds == pc = "missedLoop" /\ todo = {} /\ GoTo("listing")

-------------------------------------------------------------------------------
SlashedLoop == (\E p \in pool : NotSlashed(p) \/ ReportSlashed(p) \/ SlashedBlockMissing(p))
               \/ SlashedLoopEnds

Gather ==
    \/ \E s \in Slots : \/ SettleSlotPayment(s) \/ SlotPaymentRejects(s)
                        \/ SettleBlock(s) \/ BlockRejects(s)
    \/ \E list \in {"deliveries", "submissions"} : SettleRelay(list)

PaymentLoop ==
    \/ PaymentLoopStarts \/ PaymentLoopEnds
    \/ \E s \in Slots : PaymentCheckFails(s) \/ ReportUnderpayment(s) \/ AcceptPayment(s)

MissedLoop ==
    \/ \E s \in Slots :
        \/ NoDemand(s) \/ MissedCheckThrows(s)
        \/ ReportOffline(s) \/ OfflineThrows(s)
        \/ ReportDidNotSign(s) \/ DidNotSignThrows(s)
        \/ ReportNotPublishing(s) \/ NotPublishingThrows(s)
    \/ MissedLoopEnds

ScanNext ==
    \/ ReadFinality \/ GetEpochProposers \/ GetProposers \/ AwaitAlternativeFeeRecipients
    \/ GetExecutionBlockInAnEpoch \/ SlashedLoop
    \/ (\E s \in Slots : AwaitMissedProbe(s)) \/ MissedSlotsKnown
    \/ AwaitHeaderRequests \/ HeaderRequestsFail
    \/ Gather \/ PaymentLoop \/ MissedLoop

Next == ScanNext /\ UNCHANGED world

Spec == Init /\ [][Next]_vars

\* Every request is answered or fails: axios and web3 are given no timeout, so
\* this is what the code relies on, not what it enforces.
FairSpec == Spec /\ WF_vars(Next)

-------------------------------------------------------------------------------
RpbsPayloads == [BuilderPubkey : Builders, BlockHash : Slots \X Nat, Value : Nat \ {0}]

Penalty ==
    [internalPenaltyType : INTERNAL_PENALTY_TYPES, slot : Slots, blsKey : Proposers,
     builder : Wallets \union {ZERO_ADDRESS}, amount : Nat, rpbs : {Null} \union RpbsPayloads]

TypeOK ==
    /\ WorldInit
    /\ pc \in Phases \union Outcomes
    /\ todo \subseteq ponSlots
    /\ uncheckedProposers \subseteq pool
    /\ executionBlockFound \in BOOLEAN
    /\ missedSlot \subseteq ponSlots
    /\ pendingPayments \subseteq ponSlots /\ pendingBlocks \subseteq ponSlots
    /\ nullBlocks \subseteq ponSlots
    /\ pendingRelay \subseteq {"deliveries", "submissions"}
    /\ relayFailed \subseteq {"deliveries", "submissions"}
    /\ penalties \subseteq Penalty

SlotVerdicts == {p \in penalties : p.internalPenaltyType \in SlotPenalties}

\* A slot is blamed on one party at most: the two loops and the branches of the
\* second never both put a penalty on the same slot, whatever fetch failed before.
OneVerdictPerSlot == \A p, q \in SlotVerdicts : p.slot = q.slot => p = q

\* A slot is reported as missed only if the chain has no block for it, and as
\* underpaid only if the block the proposer signed is there: getMissedSlots
\* answers "proposed" for a request that failed, and no path from that wrong
\* answer ends in a penalty.
VerdictsMatchChain ==
    \A p \in SlotVerdicts :
        IF p.internalPenaltyType = "BUILDER_UNDERPAYMENT"
        THEN history[p.slot].block = "pon"
        ELSE history[p.slot].block = "missed" /\ history[p.slot].bids # <<>>

\* The proposer a penalty names, which for a missed slot is read in a record of
\* the relay, is the one with the duty in that slot and is in the payout pool.
VerdictsNameDutyProposer ==
    \A p \in SlotVerdicts : p.blsKey = duty[p.slot] /\ p.blsKey \in pool

\* The RPBS payload of an underpayment report is the bid of the block on chain.
UnderpaymentCarriesChainBid ==
    \A p \in penalties : p.internalPenaltyType = "BUILDER_UNDERPAYMENT" /\ p.rpbs # Null =>
        p.rpbs.BlockHash = BlockHash(p.slot)

\* Why the verdicts are right: slots taken for missed are; the payment of a slot
\* taken for proposed is known once it has settled; no slot is judged before the
\* loops; each loop judges slots of its own half and has not judged its todo yet.
BeforeLoops == Phases \ {"payments", "missedLoop"}

LoopInv ==
    /\ \A s \in missedSlot : history[s].block = "missed"
    /\ Gathering => \A s \in proposedSlot \ pendingPayments : PaymentKnown(s)
    /\ pc \in BeforeLoops => SlotVerdicts = {}
    /\ pc = "payments" =>
        /\ todo \subseteq proposedSlot
        /\ \A p \in SlotVerdicts : p.slot \in proposedSlot \ todo
    /\ pc = "missedLoop" =>
        /\ todo \subseteq missedSlot
        /\ \A p \in SlotVerdicts : p.slot \notin todo

-------------------------------------------------------------------------------
(* What the README and the comments say of the verdicts, for scans without  *)
(* a failed request. The code does not do it: see the findings.             *)

Accused(type) == {p \in penalties : p.internalPenaltyType = type}

EndedInFinalEpoch == pc \in Outcomes /\ Epoch <= previousFinalisedEpoch

\* "Requesting a header from a relayer and not signing the header": a proposer
\* that signed one is not accused of it.
SignersNotAccused == \A p \in Accused("PROPOSER_DID_NOT_SIGN") : history[p.slot].signed = 0

\* "Not requesting a header from the relayer where a bid was made": a proposer in
\* the payout pool that does so is reported as offline by the scan.
OfflineProposersReported ==
    EndedInFinalEpoch /\ kicked = {} =>
        \A s \in ponSlots :
            /\ history[s].block = "missed" /\ history[s].requested = {}
            /\ \E k \in DOMAIN history[s].bids : history[s].bids[k].value > 0
            /\ ~OptedOut(duty[s])
            => \E p \in Accused("PROPOSER_OFFLINE") : p.slot = s

\* "Not requesting a header from the relayer where a bid was made": a proposer that
\* requested one is not accused of being offline. (The code takes a highest header worth
\* 0 for none.)
RequestersNotOffline == \A p \in Accused("PROPOSER_OFFLINE") : history[p.slot].requested = {}

\* "They have the full contents": the builder blamed for not publishing, when the
\* proposer signed a header, is the builder of that header.
BlamedBuilderHadTheContents ==
    \A p \in Accused("BUILDER_DIDNT_PUBLISH") :
        LET h == history[p.slot] IN h.signed # 0 => p.builder = h.bids[h.signed].builder

\* "Either they were slashed or their effective balance fell below 32 ETH": the
\* scan of a final epoch reports every such validator of the pool.
KickedProposersReported ==
    EndedInFinalEpoch =>
        \A p \in pool : isValidatorSlashedOrEffectiveLow(p) => SlashedPenalty(p) \in penalties

-------------------------------------------------------------------------------
\* Every scan ends.
Termination == <>(pc \in Outcomes)

Audit == INSTANCE EpochAudit WITH
    outcome   <- IF pc \in Outcomes THEN pc ELSE "running",
    published <- IF pc = "listing" THEN penalties ELSE {}

\* A scan implements EpochAudit: failed requests and the order in which requests
\* settle make it end without a listing or leave out a kicked validator, but a
\* listing that is returned has exactly the verdicts the slots call for.
ImplementsAudit == Audit!Spec
===============================================================================
