-------------------------- MODULE EpochReporterProofs --------------------------
(***************************************************************************)
(* What holds of every scan, for every epoch, history of its slots, and    *)
(* pattern of failed requests.                                             *)
(***************************************************************************)
EXTENDS EpochReporter, PbsEpochProofs

\* No step changes the world.
LEMMA WorldStays ==
    ASSUME WorldInit, UNCHANGED world
    PROVE  WorldInit'
PROOF
<1>1. /\ finalized' = finalized /\ duty' = duty /\ pool' = pool
      /\ alternativeFeeRecipient' = alternativeFeeRecipient
      /\ kicked' = kicked /\ history' = history
      /\ headerRequests' = headerRequests /\ payloadDeliveries' = payloadDeliveries
  BY DEF world
<1>2. RequestedHeaders' = RequestedHeaders
  BY <1>1 DEF RequestedHeaders, RelayRecord
<1>3. SignedPayloads' = SignedPayloads
  BY <1>1 DEF SignedPayloads, RelayRecord
<1> QED BY <1>1, <1>2, <1>3 DEF WorldInit

-------------------------------------------------------------------------------
(* The penalties reported.                                                  *)

\* A report carries the fields of the bid, or nothing.
LEMMA RpbsPayloadType ==
    ASSUME NEW bid, bid # Null => bid \in Submission
    PROVE  RpbsPayload(bid) \in {Null} \union RpbsPayloads
PROOF
<1>1. CASE bid = Null
  BY <1>1 DEF RpbsPayload
<1>2. CASE bid # Null
  <2>1. bid.BuilderPubkey \in Builders /\ bid.BuilderBidHash \in Slots \X Nat /\ bid.BidValue \in Nat
    BY <1>2 DEF Submission
  <2> QED BY <1>2, <2>1 DEF RpbsPayload, RpbsPayloads, Truthy
<1> QED BY <1>1, <1>2

\* The last transaction is sent by a wallet.
LEMMA PaymentType ==
    ASSUME WorldInit, NEW s \in Slots
    PROVE  /\ Payment(s).payment \in Nat
           /\ Payment(s).builder \in Wallets \union {ZERO_ADDRESS}
PROOF
<1>1. history[s].lastTx \in Transaction \union {Null}
  BY HistoryFacts DEF WellFormed
<1>2. CASE history[s].lastTx = Null
  BY <1>2 DEF Payment
<1>3. CASE history[s].lastTx \in Transaction
  <2>1. history[s].lastTx.value \in Nat /\ history[s].lastTx.from \in Wallets
    BY <1>3 DEF Transaction
  <2> QED BY <1>3, <2>1 DEF Payment
<1> QED BY <1>1, <1>2, <1>3

\* An underpayment report is well formed, names the proposer with the duty and
\* carries the bid of the block on chain, if there is one.
LEMMA UnderpaymentReport ==
    ASSUME WorldInit, NEW s \in Slots, Underpaid(s)
    PROVE  /\ UnderpaymentPenalty(s) \in Penalty
           /\ UnderpaymentPenalty(s).internalPenaltyType = "BUILDER_UNDERPAYMENT"
           /\ UnderpaymentPenalty(s).slot = s
           /\ UnderpaymentPenalty(s).blsKey = duty[s]
           /\ UnderpaymentPenalty(s).rpbs = RpbsPayload(Attribution(s, BlockHash(s)).builderBid)
PROOF
<1> DEFINE bid == Attribution(s, BlockHash(s)).builderBid
           highest == highestValueHeader(s)
<1>1. bid # Null /\ Truthy(highest)
  BY DEF Underpaid, IsUnderpayment
<1>2. bid \in Submission
  BY <1>1, AttributionFacts DEF Attribution
<1>3. bid.BuilderPubkey \in Builders
  BY <1>2 DEF Submission
<1>4. highest \in Nat
  BY <1>1, HighestFacts DEF Truthy, highestValueHeader
<1>5. duty[s] \in Proposers
  BY DEF WorldInit
<1>6. RpbsPayload(bid) \in {Null} \union RpbsPayloads
  BY <1>2, RpbsPayloadType
<1>7. Payment(s).builder \in Wallets \union {ZERO_ADDRESS}
  BY PaymentType
<1>8. "BUILDER_UNDERPAYMENT" \in INTERNAL_PENALTY_TYPES
  BY DEF INTERNAL_PENALTY_TYPES, SlotPenalties, MissedSlotPenalties
<1>9. 2 * highest \in Nat
  BY <1>4
<1> HIDE DEF bid, highest
<1> QED BY <1>3, <1>5, <1>6, <1>7, <1>8, <1>9
        DEF UnderpaymentPenalty, Penalty, RpbsPayloads, Wallets, bid, highest

\* A report on a missed slot for which a header was handed out is well formed and
\* names the proposer with the duty.
LEMMA MissedSlotReport ==
    ASSUME WorldInit, NEW s \in Slots, NEW type \in MissedSlotPenalties,
           NEW builder \in Wallets \union {ZERO_ADDRESS}, NEW amount \in Nat,
           history[s].requested # {}
    PROVE  /\ MissedSlotPenalty(type, s, builder, amount) \in Penalty
           /\ MissedSlotPenalty(type, s, builder, amount).internalPenaltyType = type
           /\ MissedSlotPenalty(type, s, builder, amount).slot = s
           /\ MissedSlotPenalty(type, s, builder, amount).blsKey = duty[s]
PROOF
<1>1. Attribution(s, Null).builderBid # Null
  BY MissedBidFacts DEF Attribution
<1>2. Attribution(s, Null).builderBid \in Submission /\ Attribution(s, Null).ProposerPubkey = duty[s]
  BY <1>1, AttributionFacts DEF Attribution
<1>3. rpbs(s) \in {Null} \union RpbsPayloads
  BY <1>2, RpbsPayloadType DEF rpbs
<1>4. duty[s] \in Proposers
  BY DEF WorldInit
<1>5. type \in INTERNAL_PENALTY_TYPES
  BY DEF INTERNAL_PENALTY_TYPES, SlotPenalties
<1> QED BY <1>2, <1>3, <1>4, <1>5 DEF MissedSlotPenalty, Penalty, RpbsPayloads

\* The payload of a report on a missed slot, if any, is a bid whose header was
\* handed out, so the builder blamed is one.
LEMMA MissedSlotPayload ==
    ASSUME WorldInit, NEW s \in Slots, rpbs(s) # Null
    PROVE  history[s].requested # {} /\ rpbs(s).BuilderPubkey \in Wallets
PROOF
<1>1. Attribution(s, Null).builderBid # Null
  BY DEF rpbs, RpbsPayload
<1>2. history[s].requested # {} /\ Attribution(s, Null).builderBid \in Submission
  BY <1>1, MissedBidFacts, AttributionFacts DEF Attribution
<1>3. rpbs(s) \in RpbsPayloads
  BY <1>2, RpbsPayloadType DEF rpbs
<1> QED BY <1>2, <1>3 DEF RpbsPayloads, Wallets

\* What a report does to the penalties: one well-formed penalty is added.
LEMMA SlashedReport ==
    ASSUME WorldInit, NEW p \in pool, ReportSlashed(p)
    PROVE  \E r \in Penalty :
            /\ penalties' = penalties \union {r}
            /\ r.internalPenaltyType = "PROPOSER_SLASHED_OR_LOW_EFFECTIVE"
PROOF
<1>1. p \in Proposers
  BY DEF WorldInit
<1>2. FirstSlot \in Slots
  <2>1. Epoch * SLOTS_IN_EPOCH \in Nat
    BY EpochAssumption
  <2> QED BY <2>1, EpochAssumption DEF FirstSlot, Slots, epochToSlot
<1>3. SlashedPenalty(p) \in Penalty
  BY <1>1, <1>2 DEF SlashedPenalty, Penalty, INTERNAL_PENALTY_TYPES
<1> QED BY <1>3 DEF ReportSlashed, SlashedPenalty

\* The same for a missed slot: the report is on the slot the loop handles.
LEMMA MissedReport ==
    ASSUME WorldInit, NEW s \in Slots,
           ReportOffline(s) \/ ReportDidNotSign(s) \/ ReportNotPublishing(s)
    PROVE  \E r \in Penalty :
            /\ penalties' = penalties \union {r}
            /\ r.internalPenaltyType \in MissedSlotPenalties
            /\ r.slot = s
            /\ r.blsKey = duty[s]
PROOF
<1>1. highestValueHeader(s) # Null => highestValueHeader(s) \in Nat /\ history[s].requested # {}
  BY HighestFacts DEF highestValueHeader
<1>2. rpbs(s) # Null =>
        history[s].requested # {} /\ rpbs(s).BuilderPubkey \in Wallets \union {ZERO_ADDRESS}
  BY MissedSlotPayload
<1>3. \A type \in MissedSlotPenalties, builder \in Wallets \union {ZERO_ADDRESS}, amount \in Nat :
        history[s].requested # {} =>
            /\ MissedSlotPenalty(type, s, builder, amount) \in Penalty
            /\ MissedSlotPenalty(type, s, builder, amount).internalPenaltyType = type
            /\ MissedSlotPenalty(type, s, builder, amount).slot = s
            /\ MissedSlotPenalty(type, s, builder, amount).blsKey = duty[s]
  BY MissedSlotReport
<1>4. /\ "PROPOSER_OFFLINE" \in MissedSlotPenalties
      /\ "PROPOSER_DID_NOT_SIGN" \in MissedSlotPenalties
      /\ "BUILDER_DIDNT_PUBLISH" \in MissedSlotPenalties
  BY DEF MissedSlotPenalties
<1>5. CASE ReportOffline(s)
  <2>1. PICK amount \in ProposerAmounts :
            penalties' = penalties \union
                {MissedSlotPenalty("PROPOSER_OFFLINE", s, rpbs(s).BuilderPubkey, amount)}
    BY <1>5 DEF ReportOffline
  <2>2. rpbs(s) # Null
    BY <1>5 DEF ReportOffline
  <2>3. amount \in Nat
    BY ProposerAmountsAssumption
  <2> DEFINE r == MissedSlotPenalty("PROPOSER_OFFLINE", s, rpbs(s).BuilderPubkey, amount)
  <2>4. history[s].requested # {} /\ rpbs(s).BuilderPubkey \in Wallets \union {ZERO_ADDRESS}
    BY <1>2, <2>2
  <2>5. /\ r \in Penalty /\ r.internalPenaltyType = "PROPOSER_OFFLINE"
        /\ r.slot = s /\ r.blsKey = duty[s]
    BY <1>3, <1>4, <2>3, <2>4
  <2> HIDE DEF r
  <2>6. penalties' = penalties \union {r}
    BY <2>1 DEF r
  <2> QED BY <1>4, <2>5, <2>6
<1>6. CASE ReportDidNotSign(s)
  <2> DEFINE builder == IF rpbs(s) = Null THEN ZERO_ADDRESS ELSE rpbs(s).BuilderPubkey
  <2>1. PICK amount \in ProposerAmounts :
            penalties' = penalties \union
                {MissedSlotPenalty("PROPOSER_DID_NOT_SIGN", s, builder, amount)}
    BY <1>6 DEF ReportDidNotSign
  <2>2. builder \in Wallets \union {ZERO_ADDRESS}
    BY <1>2
  <2>3. history[s].requested # {}
    BY <1>1, <1>6 DEF ReportDidNotSign, DidNotSign, Offline, Truthy
  <2>4. amount \in Nat
    BY ProposerAmountsAssumption
  <2> HIDE DEF builder
  <2> QED BY <1>3, <1>4, <2>1, <2>2, <2>3, <2>4
<1>7. CASE ReportNotPublishing(s)
  <2>1. /\ rpbs(s) # Null /\ highestValueHeader(s) # Null
        /\ penalties' = penalties \union
                {MissedSlotPenalty("BUILDER_DIDNT_PUBLISH", s, rpbs(s).BuilderPubkey,
                                   2 * highestValueHeader(s))}
    BY <1>7 DEF ReportNotPublishing
  <2>2. 2 * highestValueHeader(s) \in Nat
    BY <1>1, <2>1
  <2> QED BY <1>2, <1>3, <1>4, <2>1, <2>2
<1> QED BY <1>5, <1>6, <1>7

-------------------------------------------------------------------------------
(* Type correctness.                                                        *)

\* Every world starts a scan well typed.
LEMMA TypeInit == Init => TypeOK
PROOF
<1> SUFFICES ASSUME Init PROVE TypeOK
  OBVIOUS
<1> QED BY DEF Init, ScanInit, TypeOK, Phases

\* Every step leaves the scan well typed, the reports it adds included.
LEMMA TypeNext == TypeOK /\ [Next]_vars => TypeOK'
PROOF
<1> SUFFICES ASSUME TypeOK, [Next]_vars PROVE TypeOK'
  OBVIOUS
<1>1. WorldInit /\ UNCHANGED world
  BY DEF TypeOK, Next, vars
<1>2. WorldInit' /\ pool' = pool /\ ponSlots' = ponSlots
  BY <1>1, WorldStays DEF world, ponSlots
<1>3. ponSlots \subseteq Slots
  BY DEF ponSlots
<1> USE DEF TypeOK, Phases, Outcomes, progress, promises, GoTo, SlotHandled
<1>4. CASE UNCHANGED vars
  BY <1>2, <1>4 DEF vars
<1>5. CASE ReadFinality
  BY <1>2, <1>5 DEF ReadFinality
<1>6. CASE GetEpochProposers
  BY <1>2, <1>6 DEF GetEpochProposers
<1>7. CASE GetProposers
  BY <1>2, <1>7 DEF GetProposers
<1>8. CASE AwaitAlternativeFeeRecipients
  BY <1>2, <1>8 DEF AwaitAlternativeFeeRecipients
<1>9. CASE GetExecutionBlockInAnEpoch
  <2>1. executionBlockFound' \in BOOLEAN
    BY <1>9 DEF GetExecutionBlockInAnEpoch
  <2> QED BY <1>2, <1>9, <2>1 DEF GetExecutionBlockInAnEpoch
<1>10. CASE SlashedLoop
  <2>1. ASSUME NEW p \in pool, NotSlashed(p) PROVE TypeOK'
    BY <1>2, <2>1 DEF NotSlashed
  <2>2. ASSUME NEW p \in pool, ReportSlashed(p) PROVE TypeOK'
    <3>1. penalties' \subseteq Penalty
      BY <1>1, <2>2, SlashedReport
    <3> QED BY <1>2, <2>2, <3>1 DEF ReportSlashed, Slashed
  <2>3. ASSUME NEW p \in pool, SlashedBlockMissing(p) PROVE TypeOK'
    BY <1>2, <2>3 DEF SlashedBlockMissing
  <2>4. CASE SlashedLoopEnds
    BY <1>2, <2>4 DEF SlashedLoopEnds
  <2> QED BY <1>10, <2>1, <2>2, <2>3, <2>4 DEF SlashedLoop
<1>11. ASSUME NEW s \in Slots, AwaitMissedProbe(s) PROVE TypeOK'
  <2>1. s \in todo
    BY <1>11 DEF AwaitMissedProbe, First
  <2>2. missedSlot' \subseteq ponSlots
    BY <1>11, <2>1 DEF AwaitMissedProbe
  <2> QED BY <1>2, <1>11, <2>2 DEF AwaitMissedProbe
<1>12. CASE MissedSlotsKnown
  BY <1>2, <1>12 DEF MissedSlotsKnown
<1>13. CASE AwaitHeaderRequests
  BY <1>2, <1>13 DEF AwaitHeaderRequests, proposedSlot
<1>14. CASE HeaderRequestsFail
  BY <1>2, <1>14 DEF HeaderRequestsFail
<1>15. CASE Gather
  <2>1. ASSUME NEW s \in Slots, SettleSlotPayment(s) PROVE TypeOK'
    BY <1>2, <2>1 DEF SettleSlotPayment
  <2>2. ASSUME NEW s \in Slots, SlotPaymentRejects(s) PROVE TypeOK'
    BY <1>2, <2>2 DEF SlotPaymentRejects
  <2>3. ASSUME NEW s \in Slots, SettleBlock(s) PROVE TypeOK'
    BY <1>2, <2>3 DEF SettleBlock
  <2>4. ASSUME NEW s \in Slots, BlockRejects(s) PROVE TypeOK'
    BY <1>2, <2>4 DEF BlockRejects
  <2>5. ASSUME NEW list \in {"deliveries", "submissions"}, SettleRelay(list) PROVE TypeOK'
    BY <1>2, <2>5 DEF SettleRelay
  <2> QED BY <1>15, <2>1, <2>2, <2>3, <2>4, <2>5 DEF Gather
<1>16. CASE PaymentLoop
  <2>1. CASE PaymentLoopStarts
    BY <1>2, <2>1 DEF PaymentLoopStarts, proposedSlot
  <2>2. CASE PaymentLoopEnds
    BY <1>2, <2>2 DEF PaymentLoopEnds
  <2>3. ASSUME NEW s \in Slots, PaymentCheckFails(s) PROVE TypeOK'
    BY <1>2, <2>3 DEF PaymentCheckFails
  <2>4. ASSUME NEW s \in Slots, ReportUnderpayment(s) PROVE TypeOK'
    <3>1. penalties' \subseteq Penalty
      BY <1>1, <2>4, UnderpaymentReport DEF ReportUnderpayment
    <3> QED BY <1>2, <2>4, <3>1 DEF ReportUnderpayment
  <2>5. ASSUME NEW s \in Slots, AcceptPayment(s) PROVE TypeOK'
    BY <1>2, <2>5 DEF AcceptPayment
  <2> QED BY <1>16, <2>1, <2>2, <2>3, <2>4, <2>5 DEF PaymentLoop
<1>17. CASE MissedLoop
  <2>1. ASSUME NEW s \in Slots, NoDemand(s) PROVE TypeOK'
    BY <1>2, <2>1 DEF NoDemand
  <2>2. ASSUME NEW s \in Slots,
               MissedCheckThrows(s) \/ OfflineThrows(s) \/ DidNotSignThrows(s) \/ NotPublishingThrows(s)
        PROVE  TypeOK'
    BY <1>2, <2>2 DEF MissedCheckThrows, OfflineThrows, DidNotSignThrows, NotPublishingThrows
  <2>3. ASSUME NEW s \in Slots,
               ReportOffline(s) \/ ReportDidNotSign(s) \/ ReportNotPublishing(s)
        PROVE  TypeOK'
    <3>1. penalties' \subseteq Penalty
      BY <1>1, <2>3, MissedReport
    <3>2. SlotHandled(s)
      BY <2>3 DEF ReportOffline, ReportDidNotSign, ReportNotPublishing
    <3> QED BY <1>2, <3>1, <3>2
  <2>4. CASE MissedLoopEnds
    BY <1>2, <2>4 DEF MissedLoopEnds
  <2> QED BY <1>17, <2>1, <2>2, <2>3, <2>4 DEF MissedLoop
<1> QED BY <1>4, <1>5, <1>6, <1>7, <1>8, <1>9, <1>10, <1>11, <1>12, <1>13, <1>14, <1>15,
           <1>16, <1>17 DEF Next, ScanNext

\* Type correctness of a scan.
THEOREM TypeCorrect == Spec => []TypeOK
PROOF
<1> QED BY TypeInit, TypeNext, PTL DEF Spec

-------------------------------------------------------------------------------
(* The verdicts. ScanInv is inductive together with TypeOK.                 *)

Verdicts ==
    /\ OneVerdictPerSlot
    /\ VerdictsMatchChain
    /\ VerdictsNameDutyProposer
    /\ UnderpaymentCarriesChainBid

ScanInv == LoopInv /\ Verdicts

\* What the operators say of the same world is the same after a step.
LEMMA WorldSame ==
    ASSUME UNCHANGED world
    PROVE  /\ ponSlots' = ponSlots /\ history' = history /\ duty' = duty /\ pool' = pool
           /\ \A s : PaymentKnown(s)' <=> PaymentKnown(s)
           /\ \A s : BlockHash(s)' = BlockHash(s)
PROOF
<1>1. duty' = duty /\ pool' = pool /\ history' = history
  BY DEF world
<1>2. \A s : PaymentKnown(s)' <=> PaymentKnown(s)
  BY <1>1 DEF PaymentKnown
<1>3. \A s : BlockHash(s)' = BlockHash(s)
  BY <1>1 DEF BlockHash
<1> QED BY <1>1, <1>2, <1>3 DEF ponSlots

\* A step that reports nothing, or a slashed validator, leaves the verdicts.
LEMMA VerdictsStay ==
    ASSUME UNCHANGED world, Verdicts,
           \/ penalties' = penalties
           \/ \E r : /\ penalties' = penalties \union {r}
                     /\ r.internalPenaltyType = "PROPOSER_SLASHED_OR_LOW_EFFECTIVE"
    PROVE  Verdicts' /\ SlotVerdicts' = SlotVerdicts
PROOF
<1>1. "PROPOSER_SLASHED_OR_LOW_EFFECTIVE" \notin SlotPenalties \union {"BUILDER_UNDERPAYMENT"}
  BY DEF SlotPenalties, MissedSlotPenalties
<1>2. SlotVerdicts' = SlotVerdicts
  BY <1>1 DEF SlotVerdicts
<1>3. \A p \in penalties' : p.internalPenaltyType = "BUILDER_UNDERPAYMENT" => p \in penalties
  BY <1>1
<1>4. /\ history' = history /\ duty' = duty /\ pool' = pool
      /\ \A s : BlockHash(s)' = BlockHash(s)
  BY WorldSame
<1>5. OneVerdictPerSlot'
  BY <1>2 DEF Verdicts, OneVerdictPerSlot
<1>6. VerdictsMatchChain'
  BY <1>2, <1>4 DEF Verdicts, VerdictsMatchChain
<1>7. VerdictsNameDutyProposer'
  BY <1>2, <1>4 DEF Verdicts, VerdictsNameDutyProposer
<1>8. UnderpaymentCarriesChainBid'
  BY <1>3, <1>4 DEF Verdicts, UnderpaymentCarriesChainBid
<1> QED BY <1>2, <1>5, <1>6, <1>7, <1>8 DEF Verdicts

\* A report on a slot that has no verdict yet keeps the verdicts right if it is.
LEMMA VerdictAdded ==
    ASSUME UNCHANGED world, Verdicts,
           NEW s \in ponSlots, \A p \in SlotVerdicts : p.slot # s,
           NEW r, penalties' = penalties \union {r},
           r.internalPenaltyType \in SlotPenalties, r.slot = s, r.blsKey = duty[s],
           IF r.internalPenaltyType = "BUILDER_UNDERPAYMENT"
           THEN /\ history[s].block = "pon"
                /\ r.rpbs # Null => r.rpbs.BlockHash = BlockHash(s)
           ELSE history[s].block = "missed" /\ history[s].bids # <<>>
    PROVE  Verdicts' /\ SlotVerdicts' = SlotVerdicts \union {r}
PROOF
<1>1. SlotVerdicts' = SlotVerdicts \union {r}
  BY DEF SlotVerdicts
<1>2. /\ history' = history /\ duty' = duty /\ pool' = pool
      /\ \A t : BlockHash(t)' = BlockHash(t)
  BY WorldSame
<1>3. OneVerdictPerSlot'
  BY <1>1 DEF Verdicts, OneVerdictPerSlot
<1>4. VerdictsMatchChain'
  BY <1>1, <1>2 DEF Verdicts, VerdictsMatchChain
<1>5. VerdictsNameDutyProposer'
  BY <1>1, <1>2 DEF Verdicts, VerdictsNameDutyProposer, ponSlots
<1>6. UnderpaymentCarriesChainBid'
  BY <1>2 DEF Verdicts, UnderpaymentCarriesChainBid
<1> QED BY <1>1, <1>3, <1>4, <1>5, <1>6 DEF Verdicts

\* A report of an underpayment: the block signed is on chain.
LEMMA UnderpaymentStep ==
    ASSUME TypeOK, ScanInv, UNCHANGED world, NEW s \in Slots, ReportUnderpayment(s)
    PROVE  ScanInv'
PROOF
<1> DEFINE r == UnderpaymentPenalty(s)
           bid == Attribution(s, BlockHash(s)).builderBid
<1>1. WorldInit
  BY DEF TypeOK
<1>2. /\ pc = "payments" /\ s \in todo /\ s \notin pendingPayments
      /\ Underpaid(s) /\ penalties' = penalties \union {r} /\ SlotHandled(s)
  BY DEF ReportUnderpayment, PaymentCheck, First
<1>3. /\ todo \subseteq proposedSlot
      /\ \A p \in SlotVerdicts : p.slot \in proposedSlot \ todo
      /\ \A t \in proposedSlot \ pendingPayments : PaymentKnown(t)
  BY <1>2 DEF ScanInv, LoopInv, Gathering
<1>4. s \in proposedSlot /\ s \in ponSlots /\ history[s].block # "missed"
  BY <1>2, <1>3 DEF PaymentKnown, proposedSlot
<1>5. bid # Null
  BY <1>2 DEF Underpaid, IsUnderpayment
<1>6. history[s].block = "pon" /\ bid.BuilderBidHash = BlockHash(s)
  BY <1>1, <1>4, <1>5, ChainBidFacts DEF Attribution
<1>7. /\ r.internalPenaltyType = "BUILDER_UNDERPAYMENT"
      /\ r.slot = s /\ r.blsKey = duty[s] /\ r.rpbs = RpbsPayload(bid)
  BY <1>1, <1>2, UnderpaymentReport
<1>8. r.rpbs # Null => r.rpbs.BlockHash = BlockHash(s)
  BY <1>6, <1>7 DEF RpbsPayload
<1>9. "BUILDER_UNDERPAYMENT" \in SlotPenalties
  BY DEF SlotPenalties
<1>10. Verdicts
  BY DEF ScanInv
<1> HIDE DEF r, bid
<1>11. Verdicts' /\ SlotVerdicts' = SlotVerdicts \union {r}
  BY <1>2, <1>3, <1>4, <1>6, <1>7, <1>8, <1>9, <1>10, VerdictAdded
<1>12. LoopInv'
  <2>1. /\ pc' = "payments" /\ missedSlot' = missedSlot /\ pendingPayments' = pendingPayments
        /\ todo' = todo \ {s}
    BY <1>2 DEF SlotHandled, promises
  <2>2. history' = history /\ proposedSlot' = proposedSlot /\ \A t : PaymentKnown(t)' <=> PaymentKnown(t)
    BY <2>1, WorldSame DEF proposedSlot
  <2>3. \A t \in missedSlot' : history'[t].block = "missed"
    BY <2>1, <2>2 DEF ScanInv, LoopInv
  <2>4. \A t \in proposedSlot' \ pendingPayments' : PaymentKnown(t)'
    BY <1>3, <2>1, <2>2
  <2>5. \A p \in SlotVerdicts' : p.slot \in proposedSlot' \ todo'
    BY <1>3, <1>4, <1>7, <1>11, <2>1, <2>2
  <2>6. todo' \subseteq proposedSlot'
    BY <1>3, <2>1, <2>2
  <2> QED BY <2>1, <2>3, <2>4, <2>5, <2>6 DEF LoopInv, BeforeLoops
<1> QED BY <1>11, <1>12 DEF ScanInv

\* A report on a missed slot: there is no block, and there were bids.
LEMMA MissedStep ==
    ASSUME TypeOK, ScanInv, UNCHANGED world, NEW s \in Slots,
           ReportOffline(s) \/ ReportDidNotSign(s) \/ ReportNotPublishing(s)
    PROVE  ScanInv'
PROOF
<1>1. WorldInit /\ Verdicts
  BY DEF TypeOK, ScanInv
<1>2. pc = "missedLoop" /\ s \in todo /\ history[s].bids # <<>> /\ SlotHandled(s)
  BY DEF ReportOffline, ReportDidNotSign, ReportNotPublishing, Judge, MissedCheck, First
<1>3. /\ todo \subseteq missedSlot
      /\ \A p \in SlotVerdicts : p.slot \notin todo
      /\ \A t \in missedSlot : history[t].block = "missed"
  BY <1>2 DEF ScanInv, LoopInv
<1>4. s \in ponSlots /\ history[s].block = "missed"
  BY <1>2, <1>3 DEF TypeOK
<1>5. PICK r \in Penalty :
        /\ penalties' = penalties \union {r}
        /\ r.internalPenaltyType \in MissedSlotPenalties
        /\ r.slot = s
        /\ r.blsKey = duty[s]
  BY <1>1, MissedReport
<1>6. r.internalPenaltyType \in SlotPenalties /\ r.internalPenaltyType # "BUILDER_UNDERPAYMENT"
  BY <1>5 DEF SlotPenalties, MissedSlotPenalties
<1>7. \A p \in SlotVerdicts : p.slot # s
  BY <1>2, <1>3
<1>8. Verdicts' /\ SlotVerdicts' = SlotVerdicts \union {r}
  BY <1>1, <1>2, <1>4, <1>5, <1>6, <1>7, VerdictAdded
<1>9. LoopInv'
  <2>1. pc' = "missedLoop" /\ missedSlot' = missedSlot /\ todo' = todo \ {s}
    BY <1>2 DEF SlotHandled
  <2>2. history' = history
    BY WorldSame
  <2>3. \A p \in SlotVerdicts' : p.slot \notin todo'
    BY <1>3, <1>5, <1>8, <2>1
  <2> QED BY <1>3, <2>1, <2>2, <2>3 DEF LoopInv, BeforeLoops, Gathering
<1> QED BY <1>8, <1>9 DEF ScanInv

\* No verdict is there before the scan starts.
LEMMA ScanInvInit == Init => ScanInv
PROOF
<1> SUFFICES ASSUME Init PROVE ScanInv
  OBVIOUS
<1>1. SlotVerdicts = {} /\ penalties = {} /\ missedSlot = {} /\ pc = "finality"
  BY DEF Init, ScanInit, SlotVerdicts
<1>2. LoopInv
  BY <1>1 DEF LoopInv, Gathering
<1>3. Verdicts
  BY <1>1 DEF Verdicts, OneVerdictPerSlot, VerdictsMatchChain, VerdictsNameDutyProposer,
              UnderpaymentCarriesChainBid
<1> QED BY <1>2, <1>3 DEF ScanInv

\* No step, in whatever order requests settle or fail, breaks the invariant.
LEMMA ScanInvNext == TypeOK /\ TypeOK' /\ ScanInv /\ [Next]_vars => ScanInv'
PROOF
<1> SUFFICES ASSUME TypeOK, TypeOK', ScanInv, [Next]_vars PROVE ScanInv'
  OBVIOUS
<1>1. WorldInit /\ UNCHANGED world /\ Verdicts
  BY DEF TypeOK, Next, vars, ScanInv
<1>2. /\ ponSlots' = ponSlots /\ history' = history
      /\ \A s : PaymentKnown(s)' <=> PaymentKnown(s)
  BY <1>1, WorldSame
<1>3. /\ \A s \in missedSlot : history[s].block = "missed"
      /\ pc \in {"gather", "payments"} => \A s \in proposedSlot \ pendingPayments : PaymentKnown(s)
      /\ pc \in BeforeLoops => SlotVerdicts = {}
      /\ pc = "payments" =>
            /\ todo \subseteq proposedSlot
            /\ \A p \in SlotVerdicts : p.slot \in proposedSlot \ todo
      /\ pc = "missedLoop" =>
            /\ todo \subseteq missedSlot
            /\ \A p \in SlotVerdicts : p.slot \notin todo
  BY DEF ScanInv, LoopInv, Gathering
<1>4. ASSUME penalties' = penalties PROVE Verdicts' /\ SlotVerdicts' = SlotVerdicts
  BY <1>1, <1>4, VerdictsStay
<1>5. missedSlot \subseteq ponSlots /\ proposedSlot = ponSlots \ missedSlot
  BY DEF TypeOK, proposedSlot
<1>6. proposedSlot' = ponSlots \ missedSlot'
  BY <1>2 DEF proposedSlot
<1> DEFINE EarlyPhases == {"finality", "duties", "proposers", "altFee", "firstBlock", "slashed",
                           "missed", "headers"}
<1>7. ASSUME pc \in EarlyPhases, SlotVerdicts' = {}, Verdicts',
             pc' \in EarlyPhases \union Outcomes,
             \A s \in missedSlot' : history[s].block = "missed"
      PROVE  ScanInv'
  BY <1>2, <1>7 DEF ScanInv, LoopInv, Gathering, Outcomes
<1>8. pc \in EarlyPhases => SlotVerdicts = {}
  BY <1>3 DEF BeforeLoops, Phases
<1>9. ASSUME pc' \in Outcomes, UNCHANGED progress PROVE ScanInv'
  BY <1>2, <1>3, <1>4, <1>9
     DEF ScanInv, LoopInv, Gathering, Outcomes, BeforeLoops, Phases, progress
<1>10. CASE UNCHANGED vars
  <2>1. UNCHANGED <<pc, todo, missedSlot, pendingPayments, penalties>>
    BY <1>10 DEF vars, progress, promises
  <2> QED BY <1>2, <1>3, <1>4, <1>5, <1>6, <2>1 DEF ScanInv, LoopInv, Gathering
<1>11. CASE \/ ReadFinality \/ GetEpochProposers \/ GetProposers \/ AwaitAlternativeFeeRecipients
            \/ GetExecutionBlockInAnEpoch \/ MissedSlotsKnown
  <2>1. /\ pc \in EarlyPhases /\ pc' \in EarlyPhases \union Outcomes
        /\ penalties' = penalties /\ missedSlot' = missedSlot
    BY <1>11 DEF ReadFinality, GetEpochProposers, GetProposers, AwaitAlternativeFeeRecipients,
                 GetExecutionBlockInAnEpoch, MissedSlotsKnown, GoTo, progress, Outcomes
  <2> QED BY <1>3, <1>4, <1>7, <1>8, <2>1
<1>12. CASE SlashedLoop
  <2>1. ASSUME NEW p \in pool, ReportSlashed(p) PROVE ScanInv'
    <3>1. Verdicts' /\ SlotVerdicts' = SlotVerdicts
      BY <1>1, <2>1, SlashedReport, VerdictsStay
    <3>2. pc = "slashed" /\ pc' = pc /\ missedSlot' = missedSlot
      BY <2>1 DEF ReportSlashed, Slashed
    <3> QED BY <1>3, <1>7, <1>8, <3>1, <3>2
  <2>2. ASSUME NEW p \in pool, NotSlashed(p) \/ SlashedBlockMissing(p) PROVE ScanInv'
    <3>1. /\ pc \in EarlyPhases /\ pc' \in EarlyPhases \union Outcomes
          /\ penalties' = penalties /\ missedSlot' = missedSlot
      BY <2>2 DEF NotSlashed, SlashedBlockMissing, Slashed, GoTo, progress, Outcomes
    <3> QED BY <1>3, <1>4, <1>7, <1>8, <3>1
  <2>3. CASE SlashedLoopEnds
    <3>1. /\ pc \in EarlyPhases /\ pc' \in EarlyPhases \union Outcomes
          /\ penalties' = penalties /\ missedSlot' = missedSlot
      BY <2>3 DEF SlashedLoopEnds, GoTo, progress, Outcomes
    <3> QED BY <1>3, <1>4, <1>7, <1>8, <3>1
  <2> QED BY <1>12, <2>1, <2>2, <2>3 DEF SlashedLoop
<1>13. ASSUME NEW s \in Slots, AwaitMissedProbe(s) PROVE ScanInv'
  <2>1. /\ pc \in EarlyPhases /\ pc' \in EarlyPhases \union Outcomes
        /\ penalties' = penalties
        /\ missedSlot' \subseteq missedSlot \union {s}
        /\ s \in missedSlot' => s \in missedSlot \/ history[s].block = "missed"
    BY <1>13 DEF AwaitMissedProbe, ProbeMissed
  <2>2. \A t \in missedSlot' : history[t].block = "missed"
    BY <1>3, <2>1
  <2> QED BY <1>4, <1>7, <1>8, <2>1, <2>2
<1>14. CASE AwaitHeaderRequests
  <2>1. /\ pc = "headers" /\ pc' = "gather" /\ pendingPayments' = proposedSlot
        /\ penalties' = penalties /\ missedSlot' = missedSlot
    BY <1>14 DEF AwaitHeaderRequests
  <2>2. proposedSlot' \ pendingPayments' = {}
    BY <1>5, <1>6, <2>1
  <2> QED BY <1>2, <1>3, <1>4, <1>8, <2>1, <2>2 DEF ScanInv, LoopInv
<1>15. CASE HeaderRequestsFail
  BY <1>9, <1>15 DEF HeaderRequestsFail, GoTo, Outcomes
<1>16. CASE Gather
  <2>1. ASSUME NEW s \in Slots, SettleSlotPayment(s) PROVE ScanInv'
    <3>1. /\ pc \in {"gather", "payments"} /\ pc' = pc /\ todo' = todo
          /\ missedSlot' = missedSlot /\ penalties' = penalties
          /\ pendingPayments' = pendingPayments \ {s} /\ PaymentKnown(s)
      BY <2>1 DEF SettleSlotPayment, Gathering
    <3>2. \A t \in proposedSlot' \ pendingPayments' : PaymentKnown(t)'
      BY <1>2, <1>3, <1>5, <1>6, <3>1
    <3>3. Verdicts' /\ SlotVerdicts' = SlotVerdicts /\ proposedSlot' = proposedSlot
      BY <1>4, <1>5, <1>6, <3>1
    <3> QED BY <1>2, <1>3, <3>1, <3>2, <3>3 DEF ScanInv, LoopInv
  <2>2. ASSUME NEW s \in Slots, SlotPaymentRejects(s) PROVE ScanInv'
    BY <1>9, <2>2 DEF SlotPaymentRejects, GoTo, Outcomes
  <2>3. ASSUME pc = "gather", pc' = "gather", UNCHANGED <<missedSlot, pendingPayments, penalties>>
        PROVE  ScanInv'
    BY <1>2, <1>3, <1>4, <1>5, <1>6, <2>3 DEF ScanInv, LoopInv
  <2>4. ASSUME NEW s \in Slots, SettleBlock(s) PROVE ScanInv'
    BY <2>3, <2>4 DEF SettleBlock
  <2>5. ASSUME NEW s \in Slots, BlockRejects(s) PROVE ScanInv'
    BY <1>9, <2>3, <2>5 DEF BlockRejects, GoTo, Outcomes
  <2>6. ASSUME NEW list \in {"deliveries", "submissions"}, SettleRelay(list) PROVE ScanInv'
    BY <2>3, <2>6 DEF SettleRelay
  <2> QED BY <1>16, <2>1, <2>2, <2>4, <2>5, <2>6 DEF Gather
<1>17. CASE PaymentLoop
  <2>1. CASE PaymentLoopStarts
    <3>1. /\ pc = "gather" /\ pc' = "payments" /\ todo' = proposedSlot
          /\ UNCHANGED <<missedSlot, pendingPayments, penalties>>
      BY <2>1 DEF PaymentLoopStarts, promises
    <3>2. SlotVerdicts' = {} /\ Verdicts' /\ proposedSlot' = proposedSlot
      BY <1>3, <1>4, <1>5, <1>6, <3>1 DEF BeforeLoops, Phases
    <3> QED BY <1>2, <1>3, <3>1, <3>2 DEF ScanInv, LoopInv, BeforeLoops
  <2>2. CASE PaymentLoopEnds
    <3>1. /\ pc = "payments" /\ pc' = "missedLoop" /\ todo' = missedSlot
          /\ missedSlot' = missedSlot /\ penalties' = penalties
      BY <2>2 DEF PaymentLoopEnds
    <3>2. \A p \in SlotVerdicts : p.slot \notin missedSlot
      BY <1>3, <1>5, <3>1
    <3> QED BY <1>2, <1>3, <1>4, <3>1, <3>2 DEF ScanInv, LoopInv, BeforeLoops, Gathering
  <2>3. ASSUME NEW s \in Slots, PaymentCheckFails(s) PROVE ScanInv'
    BY <1>9, <2>3 DEF PaymentCheckFails, GoTo, Outcomes
  <2>4. ASSUME NEW s \in Slots, ReportUnderpayment(s) PROVE ScanInv'
    BY <1>1, <2>4, UnderpaymentStep
  <2>5. ASSUME NEW s \in Slots, AcceptPayment(s) PROVE ScanInv'
    <3>1. /\ pc = "payments" /\ pc' = pc /\ s \in todo /\ todo' = todo \ {s}
          /\ UNCHANGED <<missedSlot, pendingPayments, penalties>>
      BY <2>5 DEF AcceptPayment, PaymentCheck, First, SlotHandled, promises
    <3>2. SlotVerdicts' = SlotVerdicts /\ Verdicts' /\ proposedSlot' = proposedSlot
      BY <1>4, <1>5, <1>6, <3>1
    <3>3. /\ todo' \subseteq proposedSlot'
          /\ \A p \in SlotVerdicts' : p.slot \in proposedSlot' \ todo'
      BY <1>3, <3>1, <3>2
    <3> QED BY <1>2, <1>3, <3>1, <3>2, <3>3 DEF ScanInv, LoopInv, BeforeLoops
  <2> QED BY <1>17, <2>1, <2>2, <2>3, <2>4, <2>5 DEF PaymentLoop
<1>18. CASE MissedLoop
  <2>1. ASSUME NEW s \in Slots, NoDemand(s) PROVE ScanInv'
    <3>1. /\ pc = "missedLoop" /\ pc' = pc /\ todo' = todo \ {s}
          /\ missedSlot' = missedSlot /\ penalties' = penalties
      BY <2>1 DEF NoDemand, MissedCheck, SlotHandled
    <3> QED BY <1>2, <1>3, <1>4, <3>1 DEF ScanInv, LoopInv, BeforeLoops, Gathering
  <2>2. ASSUME NEW s \in Slots,
               MissedCheckThrows(s) \/ OfflineThrows(s) \/ DidNotSignThrows(s) \/ NotPublishingThrows(s)
        PROVE  ScanInv'
    BY <1>9, <2>2 DEF MissedCheckThrows, OfflineThrows, DidNotSignThrows, NotPublishingThrows,
                      GoTo, Outcomes
  <2>3. ASSUME NEW s \in Slots,
               ReportOffline(s) \/ ReportDidNotSign(s) \/ ReportNotPublishing(s)
        PROVE  ScanInv'
    BY <1>1, <2>3, MissedStep
  <2>4. CASE MissedLoopEnds
    BY <1>9, <2>4 DEF MissedLoopEnds, GoTo, Outcomes
  <2> QED BY <1>18, <2>1, <2>2, <2>3, <2>4 DEF MissedLoop
<1> QED BY <1>10, <1>11, <1>12, <1>13, <1>14, <1>15, <1>16, <1>17, <1>18 DEF Next, ScanNext

\* The verdicts are right throughout the scan, and the loops are as they must be for
\* them to stay so.
THEOREM ScanInvariant == Spec => []ScanInv
PROOF
<1>1. Init => TypeOK /\ ScanInv
  BY TypeInit, ScanInvInit
<1>2. TypeOK /\ ScanInv /\ [Next]_vars => TypeOK' /\ ScanInv'
  BY TypeNext, ScanInvNext
<1> QED BY <1>1, <1>2, PTL DEF Spec

\* The two loops judge disjoint halves of the slots, each slot once.
THEOREM LoopsInvariant == Spec => []LoopInv
PROOF
<1>1. ScanInv => LoopInv
  BY DEF ScanInv
<1> QED BY <1>1, ScanInvariant, PTL

\* A slot is blamed on one party at most.
THEOREM OneVerdict == Spec => []OneVerdictPerSlot
PROOF
<1>1. ScanInv => OneVerdictPerSlot
  BY DEF ScanInv, Verdicts
<1> QED BY <1>1, ScanInvariant, PTL

\* A slot is reported as missed or as underpaid only if the chain shows it so.
THEOREM VerdictsTrueOfChain == Spec => []VerdictsMatchChain
PROOF
<1>1. ScanInv => VerdictsMatchChain
  BY DEF ScanInv, Verdicts
<1> QED BY <1>1, ScanInvariant, PTL

\* The proposer a penalty names is the one with the duty in its slot, in the pool.
THEOREM DutyProposerNamed == Spec => []VerdictsNameDutyProposer
PROOF
<1>1. ScanInv => VerdictsNameDutyProposer
  BY DEF ScanInv, Verdicts
<1> QED BY <1>1, ScanInvariant, PTL

\* The payload of an underpayment report is the bid of the block on chain.
THEOREM ChainBidCarried == Spec => []UnderpaymentCarriesChainBid
PROOF
<1>1. ScanInv => UnderpaymentCarriesChainBid
  BY DEF ScanInv, Verdicts
<1> QED BY <1>1, ScanInvariant, PTL

-------------------------------------------------------------------------------
(* Why the penalties on missed slots are there: the test that led to one    *)
(* holds of its slot throughout the scan; and a penalty on a slot carries   *)
(* what the relay's lists attribute to the slot. FoundedInv is inductive    *)
(* together with TypeOK and ScanInv.                                        *)

Founded(p) ==
    /\ p.internalPenaltyType = "PROPOSER_SLASHED_OR_LOW_EFFECTIVE" => p.amount = 0
    /\ p.internalPenaltyType \in SlotPenalties =>
        p.rpbs = RpbsPayload(Attribution(p.slot, BlockHash(p.slot)).builderBid)
    /\ p.internalPenaltyType = "PROPOSER_OFFLINE" => Offline(p.slot) /\ p.rpbs # Null
    /\ p.internalPenaltyType = "PROPOSER_DID_NOT_SIGN" => DidNotSign(p.slot)
    /\ p.internalPenaltyType = "BUILDER_DIDNT_PUBLISH" =>
        /\ DidNotPublish(p.slot)
        /\ highestValueHeader(p.slot) # Null
        /\ p.amount = 2 * highestValueHeader(p.slot)

FoundedInv == \A p \in penalties : Founded(p)

\* What the tests say of a slot does not change during a scan.
LEMMA FoundedSame ==
    ASSUME UNCHANGED world
    PROVE  \A p : Founded(p)' <=> Founded(p)
PROOF
<1>1. /\ history' = history /\ duty' = duty /\ headerRequests' = headerRequests
      /\ payloadDeliveries' = payloadDeliveries
      /\ alternativeFeeRecipient' = alternativeFeeRecipient
  BY DEF world
<1>2. \A s : BlockHash(s)' = BlockHash(s)
  BY WorldSame
<1>3. \A s : BuilderSubmissions(s)' = BuilderSubmissions(s)
  BY <1>1 DEF BuilderSubmissions
<1>4. \A s, hash : Attribution(s, hash)' = Attribution(s, hash)
  BY <1>1, <1>3 DEF Attribution
<1>5. \A s : highestValueHeader(s)' = highestValueHeader(s)
  BY <1>1 DEF highestValueHeader
<1>6. \A s : /\ Offline(s)' <=> Offline(s)
             /\ DidNotSign(s)' <=> DidNotSign(s)
             /\ DidNotPublish(s)' <=> DidNotPublish(s)
  BY <1>1, <1>5 DEF Offline, DidNotSign, DidNotPublish, OptedOut, DeliveredEntry
<1>7. \A p : RpbsPayload(Attribution(p.slot, BlockHash(p.slot)).builderBid)'
                = RpbsPayload(Attribution(p.slot, BlockHash(p.slot)).builderBid)
  BY <1>2, <1>4
<1> QED BY <1>5, <1>6, <1>7 DEF Founded

\* A step that adds no penalty, or a founded one, leaves the penalties founded.
LEMMA FoundedStays ==
    ASSUME UNCHANGED world, FoundedInv,
           \/ penalties' = penalties
           \/ \E r : penalties' = penalties \union {r} /\ Founded(r)
    PROVE  FoundedInv'
PROOF
<1> QED BY FoundedSame DEF FoundedInv

\* Each report of the second loop passed the test its type stands for.
LEMMA MissedReportFounded ==
    ASSUME WorldInit, NEW s \in Slots, history[s].block = "missed",
           ReportOffline(s) \/ ReportDidNotSign(s) \/ ReportNotPublishing(s)
    PROVE  \E r : penalties' = penalties \union {r} /\ Founded(r)
PROOF
<1>1. BlockHash(s) = Null
  BY DEF BlockHash
<1>2. \A type \in MissedSlotPenalties : \A builder, amount :
        /\ MissedSlotPenalty(type, s, builder, amount).internalPenaltyType = type
        /\ MissedSlotPenalty(type, s, builder, amount).slot = s
        /\ MissedSlotPenalty(type, s, builder, amount).amount = amount
        /\ MissedSlotPenalty(type, s, builder, amount).rpbs
            = RpbsPayload(Attribution(s, BlockHash(s)).builderBid)
        /\ MissedSlotPenalty(type, s, builder, amount).rpbs = rpbs(s)
  BY <1>1 DEF MissedSlotPenalty, rpbs
<1>3. /\ "PROPOSER_OFFLINE" \in MissedSlotPenalties
      /\ "PROPOSER_DID_NOT_SIGN" \in MissedSlotPenalties
      /\ "BUILDER_DIDNT_PUBLISH" \in MissedSlotPenalties
      /\ "PROPOSER_SLASHED_OR_LOW_EFFECTIVE" \notin MissedSlotPenalties
  BY DEF MissedSlotPenalties
<1>4. CASE ReportOffline(s)
  <2>1. PICK amount \in ProposerAmounts :
            penalties' = penalties \union
                {MissedSlotPenalty("PROPOSER_OFFLINE", s, rpbs(s).BuilderPubkey, amount)}
    BY <1>4 DEF ReportOffline
  <2> DEFINE r == MissedSlotPenalty("PROPOSER_OFFLINE", s, rpbs(s).BuilderPubkey, amount)
  <2>2. Offline(s) /\ rpbs(s) # Null
    BY <1>4 DEF ReportOffline
  <2>3. /\ r.internalPenaltyType = "PROPOSER_OFFLINE" /\ r.slot = s /\ r.rpbs = rpbs(s)
        /\ r.rpbs = RpbsPayload(Attribution(s, BlockHash(s)).builderBid)
    BY <1>2, <1>3
  <2> HIDE DEF r
  <2>4. Founded(r)
    BY <2>2, <2>3 DEF Founded
  <2> QED BY <2>1, <2>4 DEF r
<1>5. CASE ReportDidNotSign(s)
  <2> DEFINE builder == IF rpbs(s) = Null THEN ZERO_ADDRESS ELSE rpbs(s).BuilderPubkey
  <2>1. PICK amount \in ProposerAmounts :
            penalties' = penalties \union
                {MissedSlotPenalty("PROPOSER_DID_NOT_SIGN", s, builder, amount)}
    BY <1>5 DEF ReportDidNotSign
  <2> DEFINE r == MissedSlotPenalty("PROPOSER_DID_NOT_SIGN", s, builder, amount)
  <2>2. DidNotSign(s)
    BY <1>5 DEF ReportDidNotSign
  <2>3. /\ r.internalPenaltyType = "PROPOSER_DID_NOT_SIGN" /\ r.slot = s
        /\ r.rpbs = RpbsPayload(Attribution(s, BlockHash(s)).builderBid)
    BY <1>2, <1>3
  <2> HIDE DEF r
  <2>4. Founded(r)
    BY <2>2, <2>3 DEF Founded
  <2> QED BY <2>1, <2>4 DEF r
<1>6. CASE ReportNotPublishing(s)
  <2> DEFINE r == MissedSlotPenalty("BUILDER_DIDNT_PUBLISH", s, rpbs(s).BuilderPubkey,
                                    2 * highestValueHeader(s))
  <2>1. /\ DidNotPublish(s) /\ highestValueHeader(s) # Null
        /\ penalties' = penalties \union {r}
    BY <1>6 DEF ReportNotPublishing
  <2>2. /\ r.internalPenaltyType = "BUILDER_DIDNT_PUBLISH" /\ r.slot = s
        /\ r.amount = 2 * highestValueHeader(s)
        /\ r.rpbs = RpbsPayload(Attribution(s, BlockHash(s)).builderBid)
    BY <1>2, <1>3
  <2> HIDE DEF r
  <2>3. Founded(r)
    BY <2>1, <2>2 DEF Founded
  <2> QED BY <2>1, <2>3
<1> QED BY <1>4, <1>5, <1>6

\* The other reports passed theirs, and a step that reports nothing changes nothing.
LEMMA FoundedInvNext == TypeOK /\ ScanInv /\ FoundedInv /\ [Next]_vars => FoundedInv'
PROOF
<1> SUFFICES ASSUME TypeOK, ScanInv, FoundedInv, [Next]_vars PROVE FoundedInv'
  OBVIOUS
<1>1. WorldInit /\ UNCHANGED world
  BY DEF TypeOK, Next, vars
<1>2. ASSUME penalties' = penalties PROVE FoundedInv'
  BY <1>1, <1>2, FoundedStays
<1>3. ASSUME NEW r, penalties' = penalties \union {r}, Founded(r) PROVE FoundedInv'
  BY <1>1, <1>3, FoundedStays
<1>4. CASE UNCHANGED vars
  BY <1>2, <1>4 DEF vars, progress
<1>5. CASE \/ ReadFinality \/ GetEpochProposers \/ GetProposers \/ AwaitAlternativeFeeRecipients
           \/ GetExecutionBlockInAnEpoch \/ MissedSlotsKnown
           \/ AwaitHeaderRequests \/ HeaderRequestsFail
           \/ \E s \in Slots : AwaitMissedProbe(s)
  BY <1>2, <1>5 DEF ReadFinality, GetEpochProposers, GetProposers, AwaitAlternativeFeeRecipients,
                    GetExecutionBlockInAnEpoch, MissedSlotsKnown, AwaitHeaderRequests,
                    HeaderRequestsFail, AwaitMissedProbe, GoTo, progress
<1>6. CASE SlashedLoop
  <2>1. ASSUME NEW p \in pool, ReportSlashed(p) PROVE FoundedInv'
    <3>1. Founded(SlashedPenalty(p))
      BY DEF Founded, SlashedPenalty, SlotPenalties, MissedSlotPenalties
    <3> QED BY <1>3, <2>1, <3>1 DEF ReportSlashed
  <2>2. CASE (\E p \in pool : NotSlashed(p) \/ SlashedBlockMissing(p)) \/ SlashedLoopEnds
    BY <1>2, <2>2 DEF NotSlashed, SlashedBlockMissing, SlashedLoopEnds, GoTo, progress
  <2> QED BY <1>6, <2>1, <2>2 DEF SlashedLoop
<1>7. CASE Gather
  BY <1>2, <1>7 DEF Gather, SettleSlotPayment, SlotPaymentRejects, SettleBlock, BlockRejects,
                    SettleRelay, GoTo, progress
<1>8. CASE PaymentLoop
  <2>1. ASSUME NEW s \in Slots, ReportUnderpayment(s) PROVE FoundedInv'
    <3> DEFINE r == UnderpaymentPenalty(s)
    <3>1. Underpaid(s) /\ penalties' = penalties \union {r}
      BY <2>1 DEF ReportUnderpayment
    <3>2. /\ r.internalPenaltyType = "BUILDER_UNDERPAYMENT" /\ r.slot = s
          /\ r.rpbs = RpbsPayload(Attribution(s, BlockHash(s)).builderBid)
      BY <1>1, <3>1, UnderpaymentReport
    <3> HIDE DEF r
    <3>3. Founded(r)
      BY <3>2 DEF Founded
    <3> QED BY <1>3, <3>1, <3>3
  <2>2. CASE \/ PaymentLoopStarts \/ PaymentLoopEnds
             \/ \E s \in Slots : PaymentCheckFails(s) \/ AcceptPayment(s)
    BY <1>2, <2>2 DEF PaymentLoopStarts, PaymentLoopEnds, PaymentCheckFails, AcceptPayment,
                      GoTo, progress
  <2> QED BY <1>8, <2>1, <2>2 DEF PaymentLoop
<1>9. CASE MissedLoop
  <2>1. ASSUME NEW s \in Slots,
               ReportOffline(s) \/ ReportDidNotSign(s) \/ ReportNotPublishing(s)
        PROVE  FoundedInv'
    <3>1. pc = "missedLoop" /\ s \in todo
      BY <2>1 DEF ReportOffline, ReportDidNotSign, ReportNotPublishing, Judge, MissedCheck, First
    <3>2. history[s].block = "missed"
      BY <3>1 DEF ScanInv, LoopInv
    <3> QED BY <1>1, <1>3, <2>1, <3>2, MissedReportFounded
  <2>2. CASE \/ MissedLoopEnds
             \/ \E s \in Slots : \/ NoDemand(s) \/ MissedCheckThrows(s) \/ OfflineThrows(s)
                                 \/ DidNotSignThrows(s) \/ NotPublishingThrows(s)
    BY <1>2, <2>2 DEF MissedLoopEnds, NoDemand, MissedCheckThrows, OfflineThrows,
                      DidNotSignThrows, NotPublishingThrows, GoTo, progress
  <2> QED BY <1>9, <2>1, <2>2 DEF MissedLoop
<1> QED BY <1>4, <1>5, <1>6, <1>7, <1>8, <1>9 DEF Next, ScanNext

\* Every penalty of a scan was called for by the test its type stands for.
THEOREM PenaltiesFounded == Spec => []FoundedInv
PROOF
<1>1. Init => TypeOK /\ ScanInv /\ FoundedInv
  BY TypeInit, ScanInvInit DEF Init, ScanInit, FoundedInv
<1>2. TypeOK /\ ScanInv /\ FoundedInv /\ [Next]_vars => TypeOK' /\ ScanInv' /\ FoundedInv'
  BY TypeNext, ScanInvNext, FoundedInvNext
<1> QED BY <1>1, <1>2, PTL DEF Spec
===============================================================================
