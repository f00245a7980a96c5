-------------------------------- MODULE Verifier --------------------------------
(***************************************************************************)
(* POST /validate (verification-api/index.js): the reports of a request    *)
(* are checked one after the other, each check in its order, and signed.   *)
(* The first check that fails refuses the whole request; a rejection       *)
(* nobody handles ends the process (Node 18).                              *)
(*                                                                         *)
(* The verifier asks the same services as the reporter, later: what they   *)
(* may answer differently by then is the record now. A request takes       *)
(* seconds, and now stays as it is while one is checked.                   *)
(***************************************************************************)
EXTENDS EpochReporter

CONSTANT ValidationFetchesMayFail

ASSUME ValidationFetchesAssumption == ValidationFetchesMayFail \in BOOLEAN

VARIABLES
    now,
    paidAsCommitted,    \* slots whose last transaction is that of the bid's RPBS payload
    slotHeaders,        \* slot -> the relay's list of headers handed out for it
    slotDeliveries,     \* slot -> the relay's list of payloads delivered for it
    verifier,           \* "idle", "checking", "signed" or "refused" (answered), "down"
    submitted,          \* body.reports
    i,                  \* the report that is checked
    check,              \* the check of it that comes next, by its place in AllChecks
    reports,            \* the reports signed so far
    unanswered          \* did a fetch of this request fail?

evidence == <<paidAsCommitted, slotHeaders, slotDeliveries>>
request == <<submitted, i, check, reports, unanswered>>
verifierVars == <<verifier, request>>

\* What the services answer at the time of the scan, everybody being reportable.
AtScan(amount) ==
    [finalized |-> finalized, alternativeFeeRecipient |-> alternativeFeeRecipient,
     kicked |-> kicked, reportableProposers |-> Proposers, reportableBuilders |-> Wallets,
     proposerAmount |-> amount]

\* The records of a slot, and a list of them, in any order, for each slot.
HeadersOf(s) == {RelayRecord(s, k) : k \in history[s].requested}
DeliveriesOf(s) == {r \in SignedPayloads : r.Slot = s}

ListsOf(records) ==
    {lists \in [Slots -> UNION {SetToSeqs(records[s]) : s \in Slots}] :
        \A s \in Slots : lists[s] \in SetToSeqs(records[s])}

NoRequest ==
    submitted = <<>> /\ i = 1 /\ check = 1 /\ reports = <<>> /\ unanswered = FALSE

VerifierInit ==
    /\ \E amount \in ProposerAmounts : now = AtScan(amount)
    /\ paidAsCommitted \in
            SUBSET {s \in ponSlots : history[s].block = "pon" /\ history[s].lastTx # Null}
    /\ slotHeaders \in ListsOf([s \in Slots |-> HeadersOf(s)])
    /\ slotDeliveries \in ListsOf([s \in Slots |-> DeliveriesOf(s)])
    /\ verifier = "idle" /\ NoRequest

-------------------------------------------------------------------------------
AllChecks ==
    <<"fields", "rpbs", "finality", "penaltyType", "duty", "proposer", "builder", "headers",
      "lastTransaction", "highest", "recipient", "submissions", "deliveries", "verdict",
      "computeTypedHash">>

\* Mutant of Applies: the highest header is asked for in every report but of kicking.
AppliesToOfflineToo(name, type) ==
    /\ type = "PROPOSER_SLASHED_OR_LOW_EFFECTIVE" =>
            name \notin {"rpbs", "headers", "highest", "submissions", "deliveries"}
    /\ name \in {"duty", "lastTransaction"} => type = "BUILDER_UNDERPAYMENT"

\* Mutant of Applies: the builder is looked up for an underpayment only.
AppliesBuilderToUnderpayment(name, type) ==
    /\ type = "PROPOSER_SLASHED_OR_LOW_EFFECTIVE" =>
            name \notin {"rpbs", "headers", "highest", "submissions", "deliveries"}
    /\ type = "PROPOSER_OFFLINE" => name # "highest"
    /\ name \in {"duty", "builder", "lastTransaction"} => type = "BUILDER_UNDERPAYMENT"

Applies(name, type) ==
    /\ type = "PROPOSER_SLASHED_OR_LOW_EFFECTIVE" =>
            name \notin {"rpbs", "headers", "highest", "submissions", "deliveries"}
    /\ type = "PROPOSER_OFFLINE" => name # "highest"
    /\ name \in {"duty", "lastTransaction"} => type = "BUILDER_UNDERPAYMENT"

ChecksOf(type) == {k \in DOMAIN AllChecks : Applies(AllChecks[k], type)}

report == submitted[i]
type == report.internalPenaltyType
slot == report.slot
current == AllChecks[check]
checksLeft == {k \in ChecksOf(type) : k > check}

highestOfSlot == HighestValueHeader(slotHeaders[slot], slot)

HasAlternative == now.alternativeFeeRecipient[report.blsKey] # ZERO_ADDRESS

ToPayoutPool == history[slot].lastTx # Null /\ history[slot].lastTx.to = "payoutPool"

\* The receipt's status is a boolean in this version of web3, so a payment never
\* counts as reverted.
StillUnderpaid ==
    IsUnderpayment(
        highestOfSlot,
        BuilderSubmissionForSlot(BlockHash(slot), BuilderSubmissions(slot),
                                 slotHeaders[slot], slotDeliveries[slot]).builderBid,
        FALSE, history[slot].lastTx.value)

\* Mutant of Cleared: the alternative fee recipient is not looked at again.
ClearedByRelayOnly ==
    \/ type = "PROPOSER_OFFLINE" /\ Truthy(highestOfSlot)
    \/ type = "PROPOSER_DID_NOT_SIGN" /\ slot < Len(slotDeliveries[slot])

\* What clears a proposer before its fee is looked up. The deliveries of the slot, an
\* array counted from 0, are indexed by the slot number.
Cleared ==
    \/ HasAlternative
    \/ type = "PROPOSER_OFFLINE" /\ Truthy(highestOfSlot)
    \/ type = "PROPOSER_DID_NOT_SIGN" /\ slot < Len(slotDeliveries[slot])

FeeVerdicts == {"PROPOSER_OFFLINE", "PROPOSER_DID_NOT_SIGN"}

VerdictRefused(reached) ==
    \/ /\ type = "PROPOSER_SLASHED_OR_LOW_EFFECTIVE"
       /\ report.amount # 0 \/ ~reached \/ report.blsKey \notin now.kicked \/ HasAlternative
    \/ /\ type = "BUILDER_UNDERPAYMENT"
       /\ ~StillUnderpaid \/ report.amount # 2 * highestOfSlot
    \/ type \in FeeVerdicts /\ (Cleared \/ report.amount # now.proposerAmount)
    \/ /\ type = "BUILDER_DIDNT_PUBLISH"
       /\ ~ProbeMissed(slot, reached) \/ report.amount # 2 * highestOfSlot

\* The block or the fee history cannot be had, or the refusal of a wrong amount names
\* expectedAmount, a variable that is not declared.
VerdictThrows(reached) ==
    \/ type = "BUILDER_UNDERPAYMENT" /\ ~reached
    \/ type \in FeeVerdicts /\ ~Cleared /\ ~reached
    \/ type = "PROPOSER_OFFLINE" /\ ~Cleared /\ report.amount # now.proposerAmount

\* The conditions of the early returns, check by check.
Refuses(name, reached) ==
    \/ name = "fields" /\ report.block = Null
    \/ name = "rpbs" /\ report.rpbs = Null
    \/ name = "finality" /\ slot + 2 * SLOTS_IN_EPOCH > now.finalized * SLOTS_IN_EPOCH
    \/ name = "penaltyType" /\ report.penaltyType # INTERNAL_PENALTY_TYPE_TO_CONTRACT_TYPE[type]
    \/ name = "duty" /\ duty[slot] # report.blsKey
    \/ name = "proposer" /\ report.blsKey \notin now.reportableProposers
    \/ name = "builder" /\ report.builder \notin now.reportableBuilders \union {ZERO_ADDRESS}
    \/ name = "headers" /\ (~reached \/ slotHeaders[slot] = <<>>)
    \/ name = "lastTransaction" /\ ~(ToPayoutPool /\ slot \in paidAsCommitted)
    \/ name = "highest" /\ ~Truthy(highestOfSlot)
    \/ name = "verdict" /\ VerdictRefused(reached)

\* The last transaction of an empty block, or of one that cannot be fetched, is read;
\* a contract call rejects; a block "NaN" cannot be encoded.
Throws(name, reached) ==
    \/ name \in {"finality", "duty", "proposer", "recipient", "computeTypedHash"} /\ ~reached
    \/ name = "builder" /\ ~reached /\ report.builder # ZERO_ADDRESS
    \/ name = "lastTransaction" /\ (~reached \/ history[slot].lastTx = Null)
    \/ name = "submissions" /\ ~reached /\ type = "BUILDER_UNDERPAYMENT"
    \/ /\ name = "deliveries" /\ ~reached
       /\ \/ type = "BUILDER_UNDERPAYMENT"
          \/ type = "PROPOSER_DID_NOT_SIGN" /\ ~HasAlternative
    \/ name = "verdict" /\ VerdictThrows(reached)
    \/ name = "computeTypedHash" /\ report.block # "number"

\* The checks that look at nothing but the request itself.
LocalChecks == {"fields", "rpbs", "penaltyType", "highest"}

Answered(name) ==
    IF ValidationFetchesMayFail /\ name \notin LocalChecks THEN BOOLEAN ELSE {TRUE}

-------------------------------------------------------------------------------
Receive(body) ==
    /\ verifier = "idle" /\ body # <<>>
    /\ verifier' = "checking"
    /\ submitted' = body
    /\ UNCHANGED <<i, check, reports, unanswered>>

Examine(reached) ==
    /\ verifier = "checking" /\ i <= Len(submitted)
    /\ reached \in Answered(current)
    /\ unanswered' = (unanswered \/ ~reached)

Pass(reached) ==
    /\ Examine(reached)
    /\ ~Throws(current, reached) /\ ~Refuses(current, reached)
    /\ IF checksLeft # {}
       THEN check' = Min(checksLeft) /\ UNCHANGED <<verifier, submitted, i, reports>>
       ELSE /\ reports' = Append(reports, report)
            /\ i' = i + 1
            /\ check' = 1
            /\ UNCHANGED <<verifier, submitted>>

\* Mutant of Refuse: the loop goes on with the next report.
RefuseAndGoOn(reached) ==
    /\ Examine(reached)
    /\ ~Throws(current, reached) /\ Refuses(current, reached)
    /\ i' = i + 1
    /\ check' = 1
    /\ UNCHANGED <<verifier, submitted, reports>>

Refuse(reached) ==
    /\ Examine(reached)
    /\ ~Throws(current, reached) /\ Refuses(current, reached)
    /\ verifier' = "refused"
    /\ UNCHANGED <<submitted, i, check, reports>>

\* Mutant of Throw: the rejection is swallowed, and no answer is sent either.
ThrowSwallowed(reached) ==
    /\ Examine(reached)
    /\ Throws(current, reached)
    /\ UNCHANGED <<verifier, submitted, i, check, reports>>

Throw(reached) ==
    /\ Examine(reached)
    /\ Throws(current, reached)
    /\ verifier' = "down"
    /\ UNCHANGED <<submitted, i, check, reports>>

Answer ==
    /\ verifier = "checking" /\ i = Len(submitted) + 1
    /\ verifier' = "signed"
    /\ UNCHANGED request

\* The client has its answer, or somebody starts the process again.
BackToIdle ==
    /\ verifier \in {"signed", "refused", "down"}
    /\ verifier' = "idle"
    /\ submitted' = <<>> /\ i' = 1 /\ check' = 1 /\ reports' = <<>> /\ unanswered' = FALSE

Validate ==
    \/ Answer
    \/ \E reached \in BOOLEAN : Pass(reached) \/ Refuse(reached) \/ Throw(reached)
===============================================================================
