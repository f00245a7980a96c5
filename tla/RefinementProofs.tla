--------------------------- MODULE RefinementProofs ---------------------------
(***************************************************************************)
(* Every scan implements EpochAudit, and every verification of its reports *)
(* implements ReportValidation: for every epoch, history of its slots and  *)
(* pattern of failed requests, what a scan returns is exactly what the     *)
(* slots call for, what is signed of it is substantiated, and the verifier *)
(* refuses of it exactly what one of the reasons in Disputed speaks        *)
(* against.                                                                *)
(***************************************************************************)
EXTENDS ReportPipeline, EpochReporterProofs

-------------------------------------------------------------------------------
(* The abstract specification reads the same world.                         *)

LEMMA SameWorld ==
    /\ Audit!Slots = Slots /\ Audit!ponSlots = ponSlots /\ Audit!world = world
    /\ Audit!WorldInit <=> WorldInit
    /\ Audit!SlotPenalties = SlotPenalties /\ Audit!MissedSlotPenalties = MissedSlotPenalties
    /\ Audit!ProposerPenalties = ProposerPenalties
PROOF
<1>1. Audit!Slots = Slots
  BY DEF Audit!Slots, Slots, Audit!FirstSlot, FirstSlot, Audit!epochToSlot, epochToSlot
<1>2. Audit!ponSlots = ponSlots
  BY <1>1 DEF Audit!ponSlots, ponSlots
<1>3. Audit!world = world
  BY DEF Audit!world, world
<1>4. Audit!RequestedHeaders = RequestedHeaders /\ Audit!SignedPayloads = SignedPayloads
  BY <1>1 DEF Audit!RequestedHeaders, RequestedHeaders, Audit!SignedPayloads, SignedPayloads,
              Audit!RelayRecord, RelayRecord
<1>5. \A S : Audit!SetToSeqs(S) = SetToSeqs(S)
  <2>1. \A S : Audit!Cardinality(S) = Cardinality(S)
    BY DEF Audit!Cardinality, Cardinality
  <2> QED BY <2>1 DEF Audit!SetToSeqs, SetToSeqs
<1>6. Audit!WorldInit <=> WorldInit
  BY <1>1, <1>4, <1>5 DEF Audit!WorldInit, WorldInit
<1>7. Audit!SlotPenalties = SlotPenalties /\ Audit!MissedSlotPenalties = MissedSlotPenalties
  BY DEF Audit!SlotPenalties, SlotPenalties, Audit!MissedSlotPenalties, MissedSlotPenalties
<1>8. Audit!ProposerPenalties = ProposerPenalties
  BY DEF Audit!ProposerPenalties, ProposerPenalties
<1> QED BY <1>1, <1>2, <1>3, <1>6, <1>7, <1>8

\* The gate lets an epoch pass that is final in the sense of the abstract specification.
LEMMA GateIsFinal ==
    ASSUME WorldInit, Epoch <= previousFinalisedEpoch
    PROVE  Audit!Final
PROOF
<1>1. finalized \in Nat
  BY FinalizedAssumption DEF WorldInit
<1> QED BY <1>1, EpochAssumption DEF previousFinalisedEpoch, Audit!Final

\* The highest value among the headers is that of the best bid requested.
LEMMA SameHighest ==
    ASSUME WorldInit, NEW s \in Slots
    PROVE  /\ Audit!HighestRequested(s)
                = IF highestValueHeader(s) = Null THEN 0 ELSE highestValueHeader(s)
           /\ Audit!HighestRequested(s) \in Nat
           /\ Truthy(highestValueHeader(s)) <=> Audit!HighestRequested(s) > 0
PROOF
<1>1. \A S : Audit!Max(S) = Max(S)
  BY DEF Audit!Max, Max
<1> DEFINE highest == highestValueHeader(s)
<1>2. /\ highest = Null <=> history[s].requested = {}
      /\ highest # Null =>
            /\ highest \in Nat
            /\ highest = Max({history[s].bids[k].value : k \in history[s].requested})
  BY HighestFacts DEF highestValueHeader
<1> HIDE DEF highest
<1>3. Audit!HighestRequested(s) = IF highest = Null THEN 0 ELSE highest
  BY <1>1, <1>2 DEF Audit!HighestRequested
<1>4. Audit!HighestRequested(s) \in Nat
  BY <1>2, <1>3
<1>5. Truthy(highest) <=> Audit!HighestRequested(s) > 0
  BY <1>2, <1>3, NullIsNoValue DEF Truthy
<1> QED BY <1>3, <1>4, <1>5 DEF highest

\* The reporter's test finds the underpaid slots, no other and all of them.
LEMMA SameUnderpaid ==
    ASSUME WorldInit, NEW s \in Slots, history[s].block # "missed"
    PROVE  Underpaid(s) <=> Audit!UnderpaidSlot(s)
PROOF
<1> DEFINE tx == history[s].lastTx
           highest == highestValueHeader(s)
           due == Audit!HighestRequested(s)
<1>1. Attribution(s, BlockHash(s)).builderBid # Null <=> history[s].block = "pon"
  BY ChainBidFacts DEF Attribution
<1>2. /\ due = IF highest = Null THEN 0 ELSE highest
      /\ due \in Nat
      /\ Truthy(highest) <=> due > 0
  BY SameHighest
<1>3. Payment(s).payment = Audit!Credited(s) /\ (Payment(s).reverted <=> Audit!Reverted(s))
  <2>1. CASE tx = Null
    BY <2>1 DEF Payment, Audit!Credited, Audit!Reverted
  <2>2. CASE tx # Null
    <3>1. (tx.to = "payoutPool" \/ (OptedOut(duty[s]) /\ tx.to = alternativeFeeRecipient[duty[s]]))
            <=> tx.to \in Audit!PaidTo(s)
      BY DEF OptedOut, Audit!PaidTo
    <3> QED BY <2>2, <3>1 DEF Payment, Audit!Credited, Audit!Reverted
  <2> QED BY <2>1, <2>2
<1> HIDE DEF highest, due
<1>4. Truthy(highest) => highest = due
  BY <1>2 DEF Truthy
<1> QED BY <1>1, <1>2, <1>3, <1>4
        DEF Underpaid, IsUnderpayment, Audit!UnderpaidSlot, highest, due

\* A penalty on a missed slot that passed the code's test blames a party that fits it.
LEMMA FoundedBlame ==
    ASSUME WorldInit, NEW p, p.internalPenaltyType \in MissedSlotPenalties,
           p.slot \in Slots, Founded(p)
    PROVE  Audit!BlameFits(p)
PROOF
<1> DEFINE highest == highestValueHeader(p.slot)
           due == Audit!HighestRequested(p.slot)
           exempt == OptedOut(duty[p.slot])
<1>1. /\ due = IF highest = Null THEN 0 ELSE highest
      /\ due \in Nat
      /\ Truthy(highest) <=> due > 0
  BY SameHighest
<1>2. highest = Null <=> history[p.slot].requested = {}
  BY HighestFacts DEF highestValueHeader
<1>3. Audit!ExemptAtScan(duty[p.slot]) <=> exempt
  BY DEF Audit!ExemptAtScan, OptedOut
<1>4. /\ Offline(p.slot) => ~Truthy(highest) /\ ~exempt
      /\ DidNotSign(p.slot) => Truthy(highest) /\ ~exempt
  BY DEF Offline, DidNotSign
<1> HIDE DEF highest, due, exempt
<1>5. CASE p.internalPenaltyType = "PROPOSER_OFFLINE"
  <2>1. due = 0 /\ ~exempt
    BY <1>1, <1>4, <1>5 DEF Founded
  <2> QED BY <1>3, <1>5, <2>1 DEF Audit!BlameFits, due
<1>6. CASE p.internalPenaltyType = "PROPOSER_DID_NOT_SIGN"
  <2>1. history[p.slot].requested # {} /\ ~exempt
    BY <1>2, <1>4, <1>6 DEF Founded, Truthy
  <2> QED BY <1>3, <1>6, <2>1 DEF Audit!BlameFits
<1>7. CASE p.internalPenaltyType = "BUILDER_DIDNT_PUBLISH"
  <2>1. history[p.slot].requested # {} /\ p.amount = 2 * due
    BY <1>1, <1>2, <1>7 DEF Founded, highest
  <2>2. p.internalPenaltyType \notin Audit!ProposerPenalties
    BY <1>7 DEF Audit!ProposerPenalties
  <2> QED BY <1>7, <2>1, <2>2 DEF Audit!BlameFits, due
<1> QED BY <1>5, <1>6, <1>7 DEF MissedSlotPenalties

-------------------------------------------------------------------------------
(* The strengthening: each verdict is what its slot calls for, and no slot  *)
(* that calls for one has been passed over.                                 *)

RightVerdict(p) ==
    IF p.internalPenaltyType = "BUILDER_UNDERPAYMENT"
    THEN Audit!UnderpaidSlot(p.slot) /\ p.amount = 2 * Audit!HighestRequested(p.slot)
    ELSE Audit!MissedWithBids(p.slot)

CallsForVerdict(s) == Audit!UnderpaidSlot(s) \/ Audit!MissedWithBids(s)

Judged(s) == CallsForVerdict(s) => \E p \in SlotVerdicts : p.slot = s

Started == {"finality", "error", "thrown"}

AuditInv ==
    /\ pc \notin Started => Epoch <= previousFinalisedEpoch
    /\ Audit!KickedOnly(penalties)
    /\ \A p \in SlotVerdicts : RightVerdict(p)
    /\ pc = "payments" => \A s \in proposedSlot \ todo : Judged(s)
    /\ pc = "missedLoop" => \A s \in ponSlots \ todo : Judged(s)
    /\ pc = "listing" => \A s \in ponSlots : Judged(s)

\* What the slots call for does not change during a scan.
LEMMA AuditSame ==
    ASSUME UNCHANGED world
    PROVE  /\ previousFinalisedEpoch' = previousFinalisedEpoch
           /\ \A s : Audit!UnderpaidSlot(s)' <=> Audit!UnderpaidSlot(s)
           /\ \A s : Audit!MissedWithBids(s)' <=> Audit!MissedWithBids(s)
           /\ \A s : Audit!HighestRequested(s)' = Audit!HighestRequested(s)
           /\ \A p : Audit!ExemptAtScan(p)' <=> Audit!ExemptAtScan(p)
           /\ \A p : Audit!BlameFits(p)' <=> Audit!BlameFits(p)
           /\ \A s : CallsForVerdict(s)' <=> CallsForVerdict(s)
           /\ \A p : RightVerdict(p)' <=> RightVerdict(p)
PROOF
<1>1. /\ finalized' = finalized /\ history' = history /\ duty' = duty
      /\ alternativeFeeRecipient' = alternativeFeeRecipient
  BY DEF world
<1>2. previousFinalisedEpoch' = previousFinalisedEpoch
  BY <1>1 DEF previousFinalisedEpoch
<1>3. \A s : Audit!HighestRequested(s)' = Audit!HighestRequested(s)
  BY <1>1 DEF Audit!HighestRequested
<1>4. \A s : Audit!Credited(s)' = Audit!Credited(s) /\ (Audit!Reverted(s)' <=> Audit!Reverted(s))
  BY <1>1 DEF Audit!Credited, Audit!PaidTo, Audit!Reverted
<1>5. \A s : Audit!UnderpaidSlot(s)' <=> Audit!UnderpaidSlot(s)
  BY <1>1, <1>3, <1>4 DEF Audit!UnderpaidSlot
<1>6. \A s : Audit!MissedWithBids(s)' <=> Audit!MissedWithBids(s)
  BY <1>1 DEF Audit!MissedWithBids
<1>7. \A s : CallsForVerdict(s)' <=> CallsForVerdict(s)
  BY <1>5, <1>6 DEF CallsForVerdict
<1>8. \A p : RightVerdict(p)' <=> RightVerdict(p)
  BY <1>3, <1>5, <1>6 DEF RightVerdict
<1>9. \A p : Audit!ExemptAtScan(p)' <=> Audit!ExemptAtScan(p)
  BY <1>1 DEF Audit!ExemptAtScan
<1>10. \A p : Audit!BlameFits(p)' <=> Audit!BlameFits(p)
  BY <1>1, <1>3, <1>9 DEF Audit!BlameFits, Audit!ProposerPenalties
<1> QED BY <1>2, <1>3, <1>5, <1>6, <1>7, <1>8, <1>9, <1>10

\* What a step that leaves the penalties preserves.
LEMMA AuditStays ==
    ASSUME UNCHANGED world, AuditInv, penalties' = penalties
    PROVE  /\ SlotVerdicts' = SlotVerdicts
           /\ \A s : Judged(s)' <=> Judged(s)
           /\ Audit!KickedOnly(penalties)'
           /\ \A p \in SlotVerdicts' : RightVerdict(p)'
PROOF
<1>1. SlotVerdicts' = SlotVerdicts
  BY DEF SlotVerdicts
<1>2. \A s : Judged(s)' <=> Judged(s)
  BY <1>1, AuditSame DEF Judged
<1>3. Audit!KickedOnly(penalties)'
  BY AuditSame DEF AuditInv, Audit!KickedOnly, world
<1>4. \A p \in SlotVerdicts' : RightVerdict(p)'
  BY <1>1, AuditSame DEF AuditInv
<1> QED BY <1>1, <1>2, <1>3, <1>4

\* A right verdict added on a slot judges it, and the slots judged stay so.
LEMMA AuditAdded ==
    ASSUME UNCHANGED world, AuditInv,
           NEW s, NEW r, penalties' = penalties \union {r},
           r.internalPenaltyType \in SlotPenalties, r.slot = s, RightVerdict(r)
    PROVE  /\ Judged(s)' /\ \A t : Judged(t) => Judged(t)'
           /\ Audit!KickedOnly(penalties)'
           /\ \A p \in SlotVerdicts' : RightVerdict(p)'
PROOF
<1>1. SlotVerdicts' = SlotVerdicts \union {r}
  BY DEF SlotVerdicts
<1>2. \A t : CallsForVerdict(t)' <=> CallsForVerdict(t)
  BY AuditSame
<1>3. Judged(s)' /\ \A t : Judged(t) => Judged(t)'
  BY <1>1, <1>2 DEF Judged
<1>4. "PROPOSER_SLASHED_OR_LOW_EFFECTIVE" \notin SlotPenalties
  BY DEF SlotPenalties, MissedSlotPenalties
<1>5. Audit!KickedOnly(penalties)'
  BY <1>4, AuditSame DEF AuditInv, Audit!KickedOnly, world
<1>6. \A p \in SlotVerdicts' : RightVerdict(p)'
  BY <1>1, AuditSame DEF AuditInv
<1> QED BY <1>3, <1>5, <1>6

\* Of the slots with a block, those that call for no verdict are accepted.
LEMMA ProposedJudged ==
    ASSUME TypeOK, ScanInv, NEW s \in Slots, PaymentCheck(s), ~Underpaid(s)
    PROVE  Judged(s)
PROOF
<1>1. s \in proposedSlot /\ s \notin pendingPayments /\ pc = "payments"
  BY DEF PaymentCheck, First, ScanInv, LoopInv
<1>2. history[s].block # "missed"
  BY <1>1 DEF ScanInv, LoopInv, Gathering, PaymentKnown
<1>3. WorldInit
  BY DEF TypeOK
<1> QED BY <1>2, <1>3, SameUnderpaid DEF Judged, CallsForVerdict, Audit!MissedWithBids

\* An underpayment report is right about the slot.
LEMMA UnderpaymentRight ==
    ASSUME TypeOK, ScanInv, NEW s \in Slots, PaymentCheck(s), Underpaid(s)
    PROVE  RightVerdict(UnderpaymentPenalty(s))
PROOF
<1>1. s \in proposedSlot /\ s \notin pendingPayments /\ pc = "payments"
  BY DEF PaymentCheck, First, ScanInv, LoopInv
<1>2. history[s].block # "missed"
  BY <1>1 DEF ScanInv, LoopInv, Gathering, PaymentKnown
<1>3. WorldInit
  BY DEF TypeOK
<1>4. Audit!UnderpaidSlot(s)
  BY <1>2, <1>3, SameUnderpaid
<1>5. highestValueHeader(s) = Audit!HighestRequested(s)
  BY <1>3, <1>4, SameHighest DEF Audit!UnderpaidSlot, Underpaid, IsUnderpayment, Truthy
<1> QED BY <1>4, <1>5 DEF RightVerdict, UnderpaymentPenalty

\* Nothing has been found before the scan starts.
LEMMA AuditInvInit == Init => AuditInv
PROOF
<1> SUFFICES ASSUME Init PROVE AuditInv
  OBVIOUS
<1>1. pc = "finality" /\ penalties = {} /\ SlotVerdicts = {}
  BY DEF Init, ScanInit, SlotVerdicts
<1> QED BY <1>1 DEF AuditInv, Started, Audit!KickedOnly

\* No step, in whatever order requests settle or fail, breaks the invariant.
LEMMA AuditInvNext == TypeOK /\ ScanInv /\ AuditInv /\ [Next]_vars => AuditInv'
PROOF
<1> SUFFICES ASSUME TypeOK, ScanInv, AuditInv, [Next]_vars PROVE AuditInv'
  OBVIOUS
<1>1. WorldInit /\ UNCHANGED world
  BY DEF TypeOK, Next, vars
<1>2. ponSlots' = ponSlots /\ pool' = pool /\ previousFinalisedEpoch' = previousFinalisedEpoch
  BY <1>1, WorldSame, AuditSame
<1>3. ASSUME penalties' = penalties
      PROVE  /\ SlotVerdicts' = SlotVerdicts
             /\ \A s : Judged(s)' <=> Judged(s)
             /\ Audit!KickedOnly(penalties)'
             /\ \A p \in SlotVerdicts' : RightVerdict(p)'
  BY <1>1, <1>3, AuditStays
<1>4. pc \notin Started => Epoch <= previousFinalisedEpoch
  BY DEF AuditInv
<1> DEFINE Quiet == {"finality", "duties", "proposers", "altFee", "firstBlock", "slashed",
                     "missed", "headers", "gather", "error", "thrown"}
<1>5. ASSUME penalties' = penalties, pc' \in Quiet, pc # "finality",
             pc \in Started => pc' \in Started
      PROVE  AuditInv'
  BY <1>2, <1>3, <1>4, <1>5 DEF AuditInv, Started
<1>6. ASSUME pc' \in {"error", "thrown"}, penalties' = penalties
      PROVE  AuditInv'
  BY <1>3, <1>6 DEF AuditInv, Started
<1>7. proposedSlot' = ponSlots \ missedSlot' /\ proposedSlot = ponSlots \ missedSlot
  BY <1>2 DEF proposedSlot
<1>8. CASE UNCHANGED vars
  <2>1. UNCHANGED <<pc, todo, missedSlot, penalties>>
    BY <1>8 DEF vars, progress
  <2> QED BY <1>2, <1>3, <1>7, <2>1 DEF AuditInv
<1>9. CASE ReadFinality
  <2>1. PICK reached \in Reached :
            /\ penalties' = penalties
            /\ pc' = IF ~reached THEN "thrown"
                    ELSE IF Epoch > previousFinalisedEpoch THEN "error" ELSE "duties"
    BY <1>9 DEF ReadFinality, GoTo, progress
  <2>2. Epoch \in Int /\ previousFinalisedEpoch \in Int
    BY <1>1, EpochAssumption, FinalizedAssumption DEF WorldInit, previousFinalisedEpoch
  <2> QED BY <1>2, <1>3, <2>1, <2>2 DEF AuditInv, Started
<1>10. CASE \/ GetEpochProposers \/ GetProposers \/ AwaitAlternativeFeeRecipients
            \/ GetExecutionBlockInAnEpoch \/ MissedSlotsKnown
            \/ AwaitHeaderRequests \/ HeaderRequestsFail
  <2>1. penalties' = penalties /\ pc' \in Quiet /\ pc \notin Started
    BY <1>10 DEF GetEpochProposers, GetProposers, AwaitAlternativeFeeRecipients,
                 GetExecutionBlockInAnEpoch, MissedSlotsKnown, AwaitHeaderRequests,
                 HeaderRequestsFail, GoTo, progress, Started
  <2> QED BY <1>5, <2>1 DEF Started
<1>11. CASE SlashedLoop
  <2>1. ASSUME NEW p \in pool, ReportSlashed(p) PROVE AuditInv'
    <3>1. /\ pc = "slashed" /\ pc' = pc /\ p \in kicked /\ ~Audit!ExemptAtScan(p)
          /\ penalties' = penalties \union {SlashedPenalty(p)}
      BY <2>1 DEF ReportSlashed, Slashed, isValidatorSlashedOrEffectiveLow, OptedOut,
                  Audit!ExemptAtScan
    <3>2. SlotVerdicts' = SlotVerdicts
      BY <3>1 DEF SlotVerdicts, SlashedPenalty, SlotPenalties, MissedSlotPenalties
    <3>3. Audit!KickedOnly(penalties)'
      BY <1>1, <3>1, AuditSame DEF AuditInv, Audit!KickedOnly, SlashedPenalty, world
    <3>4. \A q \in SlotVerdicts' : RightVerdict(q)'
      BY <1>1, <3>2, AuditSame DEF AuditInv
    <3> QED BY <1>2, <1>4, <3>1, <3>3, <3>4 DEF AuditInv, Started
  <2>2. ASSUME NEW p \in pool, NotSlashed(p) \/ SlashedBlockMissing(p) PROVE AuditInv'
    <3>1. penalties' = penalties /\ pc' \in Quiet /\ pc = "slashed"
      BY <2>2 DEF NotSlashed, SlashedBlockMissing, Slashed, GoTo, progress
    <3> QED BY <1>5, <3>1 DEF Started
  <2>3. CASE SlashedLoopEnds
    <3>1. /\ penalties' = penalties /\ pc = "slashed"
          /\ pc' = "missed" \/ (pc' = "listing" /\ ponSlots = {})
      BY <2>3 DEF SlashedLoopEnds, GoTo, progress
    <3>2. CASE pc' = "missed"
      BY <1>5, <3>1, <3>2 DEF Started
    <3>3. CASE pc' = "listing" /\ ponSlots = {}
      BY <1>2, <1>3, <1>4, <3>1, <3>3 DEF AuditInv, Started
    <3> QED BY <3>1, <3>2, <3>3
  <2> QED BY <1>11, <2>1, <2>2, <2>3 DEF SlashedLoop
<1>12. ASSUME NEW s \in Slots, AwaitMissedProbe(s) PROVE AuditInv'
  <2>1. penalties' = penalties /\ pc' \in Quiet /\ pc = "missed"
    BY <1>12 DEF AwaitMissedProbe
  <2> QED BY <1>5, <2>1 DEF Started
<1>13. CASE Gather
  <2>1. ASSUME NEW s \in Slots, SettleSlotPayment(s) PROVE AuditInv'
    <3>1. /\ pc \in {"gather", "payments"} /\ UNCHANGED <<pc, todo, missedSlot, penalties>>
      BY <2>1 DEF SettleSlotPayment, Gathering
    <3> QED BY <1>2, <1>3, <1>7, <3>1 DEF AuditInv
  <2>2. ASSUME NEW s \in Slots, SlotPaymentRejects(s) PROVE AuditInv'
    BY <1>6, <2>2 DEF SlotPaymentRejects, GoTo, progress
  <2>3. ASSUME NEW s \in Slots, SettleBlock(s) \/ BlockRejects(s) PROVE AuditInv'
    <3>1. penalties' = penalties /\ pc' \in Quiet /\ pc = "gather"
      BY <2>3 DEF SettleBlock, BlockRejects, GoTo, progress
    <3> QED BY <1>5, <3>1 DEF Started
  <2>4. ASSUME NEW list \in {"deliveries", "submissions"}, SettleRelay(list) PROVE AuditInv'
    <3>1. penalties' = penalties /\ pc' \in Quiet /\ pc = "gather"
      BY <2>4 DEF SettleRelay
    <3> QED BY <1>5, <3>1 DEF Started
  <2> QED BY <1>13, <2>1, <2>2, <2>3, <2>4 DEF Gather
<1>14. CASE PaymentLoop
  <2>1. CASE PaymentLoopStarts
    <3>1. /\ pc = "gather" /\ pc' = "payments" /\ todo' = proposedSlot
          /\ missedSlot' = missedSlot /\ penalties' = penalties
      BY <2>1 DEF PaymentLoopStarts
    <3> QED BY <1>2, <1>3, <1>4, <1>7, <3>1 DEF AuditInv, Started
  <2>2. CASE PaymentLoopEnds
    <3>1. /\ pc = "payments" /\ todo = {} /\ pc' = "missedLoop" /\ todo' = missedSlot
          /\ penalties' = penalties
      BY <2>2 DEF PaymentLoopEnds
    <3>2. \A s \in ponSlots \ missedSlot : Judged(s)
      BY <1>7, <3>1 DEF AuditInv
    <3> QED BY <1>2, <1>3, <1>4, <3>1, <3>2 DEF AuditInv, Started
  <2>3. ASSUME NEW s \in Slots, PaymentCheckFails(s) PROVE AuditInv'
    BY <1>6, <2>3 DEF PaymentCheckFails, GoTo, progress
  <2>4. ASSUME NEW s \in Slots, ReportUnderpayment(s) PROVE AuditInv'
    <3>1. /\ PaymentCheck(s) /\ Underpaid(s) /\ penalties' = penalties \union {UnderpaymentPenalty(s)}
          /\ pc = "payments" /\ pc' = pc /\ todo' = todo \ {s} /\ missedSlot' = missedSlot
      BY <2>4 DEF ReportUnderpayment, PaymentCheck, SlotHandled
    <3>2. /\ UnderpaymentPenalty(s).internalPenaltyType \in SlotPenalties
          /\ UnderpaymentPenalty(s).slot = s
      BY DEF UnderpaymentPenalty, SlotPenalties
    <3>3. RightVerdict(UnderpaymentPenalty(s))
      BY <3>1, UnderpaymentRight
    <3>4. /\ Judged(s)' /\ \A t : Judged(t) => Judged(t)'
          /\ Audit!KickedOnly(penalties)'
          /\ \A p \in SlotVerdicts' : RightVerdict(p)'
      BY <1>1, <3>1, <3>2, <3>3, AuditAdded
    <3>5. \A t \in proposedSlot' \ todo' : Judged(t)'
      BY <1>7, <3>1, <3>4 DEF AuditInv
    <3> QED BY <1>2, <1>4, <3>1, <3>4, <3>5 DEF AuditInv, Started
  <2>5. ASSUME NEW s \in Slots, AcceptPayment(s) PROVE AuditInv'
    <3>1. /\ PaymentCheck(s) /\ ~Underpaid(s) /\ penalties' = penalties
          /\ pc = "payments" /\ pc' = pc /\ todo' = todo \ {s} /\ missedSlot' = missedSlot
      BY <2>5 DEF AcceptPayment, PaymentCheck, SlotHandled
    <3>2. Judged(s)
      BY <3>1, ProposedJudged
    <3>3. \A t \in proposedSlot' \ todo' : Judged(t)'
      BY <1>3, <1>7, <3>1, <3>2 DEF AuditInv
    <3> QED BY <1>2, <1>3, <1>4, <3>1, <3>3 DEF AuditInv, Started
  <2> QED BY <1>14, <2>1, <2>2, <2>3, <2>4, <2>5 DEF PaymentLoop
<1>15. CASE MissedLoop
  <2>1. ASSUME NEW s \in Slots, NoDemand(s) PROVE AuditInv'
    <3>1. /\ pc = "missedLoop" /\ pc' = pc /\ s \in todo /\ todo' = todo \ {s}
          /\ penalties' = penalties /\ history[s].bids = <<>>
      BY <2>1 DEF NoDemand, MissedCheck, First, SlotHandled
    <3>2. history[s].block = "missed"
      BY <3>1 DEF ScanInv, LoopInv
    <3>3. Judged(s)
      BY <3>1, <3>2 DEF Judged, CallsForVerdict, Audit!UnderpaidSlot, Audit!MissedWithBids
    <3>4. \A t \in ponSlots' \ todo' : Judged(t)'
      BY <1>2, <1>3, <3>1, <3>3 DEF AuditInv
    <3> QED BY <1>2, <1>3, <1>4, <3>1, <3>4 DEF AuditInv, Started
  <2>2. ASSUME NEW s \in Slots,
               MissedCheckThrows(s) \/ OfflineThrows(s) \/ DidNotSignThrows(s) \/ NotPublishingThrows(s)
        PROVE  AuditInv'
    BY <1>6, <2>2 DEF MissedCheckThrows, OfflineThrows, DidNotSignThrows, NotPublishingThrows,
                      GoTo, progress
  <2>3. ASSUME NEW s \in Slots,
               ReportOffline(s) \/ ReportDidNotSign(s) \/ ReportNotPublishing(s)
        PROVE  AuditInv'
    <3>1. /\ pc = "missedLoop" /\ pc' = pc /\ s \in todo /\ todo' = todo \ {s}
          /\ history[s].bids # <<>>
      BY <2>3 DEF ReportOffline, ReportDidNotSign, ReportNotPublishing, Judge, MissedCheck,
                  First, SlotHandled
    <3>2. history[s].block = "missed"
      BY <3>1 DEF ScanInv, LoopInv
    <3>3. PICK r \in Penalty : /\ penalties' = penalties \union {r}
                               /\ r.internalPenaltyType \in MissedSlotPenalties
                               /\ r.slot = s
      BY <1>1, <2>3, MissedReport
    <3>4. r.internalPenaltyType \in SlotPenalties /\ r.internalPenaltyType # "BUILDER_UNDERPAYMENT"
      BY <3>3 DEF SlotPenalties, MissedSlotPenalties
    <3>5. RightVerdict(r)
      BY <3>1, <3>2, <3>3, <3>4 DEF RightVerdict, Audit!MissedWithBids
    <3>6. /\ Judged(s)' /\ \A t : Judged(t) => Judged(t)'
          /\ Audit!KickedOnly(penalties)'
          /\ \A p \in SlotVerdicts' : RightVerdict(p)'
      BY <1>1, <3>3, <3>4, <3>5, AuditAdded
    <3>7. \A t \in ponSlots' \ todo' : Judged(t)'
      BY <1>2, <3>1, <3>6 DEF AuditInv
    <3> QED BY <1>2, <1>4, <3>1, <3>6, <3>7 DEF AuditInv, Started
  <2>4. CASE MissedLoopEnds
    <3>1. /\ pc = "missedLoop" /\ pc' = "listing" /\ todo = {} /\ penalties' = penalties
      BY <2>4 DEF MissedLoopEnds, GoTo, progress
    <3> QED BY <1>2, <1>3, <1>4, <3>1 DEF AuditInv, Started
  <2> QED BY <1>15, <2>1, <2>2, <2>3, <2>4 DEF MissedLoop
<1> QED BY <1>8, <1>9, <1>10, <1>11, <1>12, <1>13, <1>14, <1>15 DEF Next, ScanNext

-------------------------------------------------------------------------------
(* The refinement.                                                          *)

\* A listing that is complete and right is exact.
LEMMA ListingExact ==
    ASSUME TypeOK, ScanInv, AuditInv, FoundedInv, pc = "listing"
    PROVE  Audit!Exact(penalties)
PROOF
<1>1. /\ \A s \in ponSlots : Judged(s)
      /\ \A p \in SlotVerdicts : RightVerdict(p)
      /\ Audit!KickedOnly(penalties)
  BY DEF AuditInv
<1>2. \A s : Audit!VerdictsOn(s, penalties) = {p \in SlotVerdicts : p.slot = s}
  BY SameWorld DEF Audit!VerdictsOn, SlotVerdicts
<1>3. \A p, q \in SlotVerdicts : p.slot = q.slot => p = q
  BY DEF ScanInv, Verdicts, OneVerdictPerSlot
<1>4. \A p \in SlotVerdicts : p.slot \in ponSlots /\ p.blsKey = duty[p.slot]
  <2>1. \A p \in SlotVerdicts : p.slot \in Slots
    BY DEF TypeOK, SlotVerdicts, Penalty
  <2> QED BY <2>1 DEF ScanInv, Verdicts, VerdictsNameDutyProposer, ponSlots
<1>5. ASSUME NEW s \in ponSlots PROVE Audit!ExactOn(s, Audit!VerdictsOn(s, penalties))
  <2> DEFINE verdicts == {p \in SlotVerdicts : p.slot = s}
  <2>1. ASSUME NEW p \in verdicts
        PROVE  /\ verdicts = {p} /\ RightVerdict(p) /\ p.slot = s /\ p.blsKey = duty[s]
               /\ p.internalPenaltyType \in SlotPenalties
    BY <1>1, <1>3, <1>4 DEF SlotVerdicts
  <2>2. CASE Audit!UnderpaidSlot(s)
    <3>1. PICK p \in verdicts : TRUE
      BY <1>1, <2>2 DEF Judged, CallsForVerdict
    <3>2. ~Audit!MissedWithBids(s)
      BY <2>2 DEF Audit!UnderpaidSlot, Audit!MissedWithBids
    <3>3. p.internalPenaltyType = "BUILDER_UNDERPAYMENT" /\ p.amount = 2 * Audit!HighestRequested(s)
      BY <2>1, <3>2 DEF RightVerdict
    <3>4. verdicts = {p} /\ p.blsKey = duty[s]
      BY <2>1
    <3> HIDE DEF verdicts
    <3>5. Audit!ExactOn(s, verdicts)
      BY <2>2, <3>1, <3>3, <3>4 DEF Audit!ExactOn
    <3> QED BY <1>2, <3>5 DEF verdicts
  <2>3. CASE ~Audit!UnderpaidSlot(s) /\ Audit!MissedWithBids(s)
    <3>1. PICK p \in verdicts : TRUE
      BY <1>1, <2>3 DEF Judged, CallsForVerdict
    <3>2. p.internalPenaltyType \in MissedSlotPenalties
      BY <2>1, <2>3 DEF RightVerdict, SlotPenalties
    <3>3. verdicts = {p} /\ p.slot = s /\ p.blsKey = duty[s]
      BY <2>1
    <3>4. Audit!BlameFits(p)
      <4>1. Founded(p) /\ p.slot \in Slots
        BY <3>3 DEF FoundedInv, SlotVerdicts, ponSlots
      <4> QED BY <3>2, <4>1, FoundedBlame DEF TypeOK
    <3> HIDE DEF verdicts
    <3>5. Audit!ExactOn(s, verdicts)
      BY <2>3, <3>1, <3>2, <3>3, <3>4, SameWorld DEF Audit!ExactOn
    <3> QED BY <1>2, <3>5 DEF verdicts
  <2>4. CASE ~CallsForVerdict(s)
    <3>1. verdicts = {}
      BY <2>1, <2>4 DEF RightVerdict, CallsForVerdict
    <3> QED BY <1>2, <2>4, <3>1 DEF Audit!ExactOn, CallsForVerdict
  <2> QED BY <2>2, <2>3, <2>4 DEF CallsForVerdict
<1>6. ASSUME NEW s \in Slots \ ponSlots PROVE Audit!VerdictsOn(s, penalties) = {}
  BY <1>2, <1>4
<1> QED BY <1>1, <1>5, <1>6, SameWorld DEF Audit!Exact

\* A scan starts as an audit does.
LEMMA AuditStarts == Init => Audit!Init
PROOF
<1> QED BY SameWorld DEF Init, ScanInit, Audit!Init, Outcomes

\* The same listing is exact before and after a step.
LEMMA ExactStays ==
    ASSUME UNCHANGED world, Audit!Exact(penalties)'
    PROVE  Audit!Exact(penalties')
PROOF
<1>1. /\ Audit!ponSlots' = Audit!ponSlots
      /\ pool' = pool /\ kicked' = kicked /\ duty' = duty
  BY DEF Audit!ponSlots, world
<1>2. \A s : Audit!VerdictsOn(s, penalties)' = Audit!VerdictsOn(s, penalties')
  BY DEF Audit!VerdictsOn
<1>3. ASSUME NEW s \in Audit!ponSlots
      PROVE  Audit!ExactOn(s, Audit!VerdictsOn(s, penalties'))
  <2>1. Audit!ExactOn(s, Audit!VerdictsOn(s, penalties))'
    BY <1>1 DEF Audit!Exact
  <2> DEFINE verdicts == Audit!VerdictsOn(s, penalties')
  <2>2. /\ Audit!UnderpaidSlot(s)' <=> Audit!UnderpaidSlot(s)
        /\ Audit!MissedWithBids(s)' <=> Audit!MissedWithBids(s)
        /\ Audit!HighestRequested(s)' = Audit!HighestRequested(s)
        /\ \A p : Audit!BlameFits(p)' <=> Audit!BlameFits(p)
        /\ Audit!VerdictsOn(s, penalties)' = verdicts
    BY <1>2, AuditSame
  <2> HIDE DEF verdicts
  <2>3. Audit!ExactOn(s, verdicts)
    BY <1>1, <2>1, <2>2 DEF Audit!ExactOn
  <2> QED BY <2>3 DEF verdicts
<1>4. Audit!KickedOnly(penalties')
  BY <1>1, AuditSame DEF Audit!Exact, Audit!KickedOnly
<1>5. \A s \in Audit!Slots \ Audit!ponSlots : Audit!VerdictsOn(s, penalties') = {}
  BY <1>1, <1>2 DEF Audit!Exact
<1> QED BY <1>3, <1>4, <1>5 DEF Audit!Exact

\* A scan that has ended takes no step.
LEMMA EndedScanStays == ASSUME Next PROVE pc \notin Outcomes
PROOF
<1> USE DEF Outcomes
<1>1. CASE \/ ReadFinality \/ GetEpochProposers \/ GetProposers \/ AwaitAlternativeFeeRecipients
           \/ GetExecutionBlockInAnEpoch \/ MissedSlotsKnown
           \/ AwaitHeaderRequests \/ HeaderRequestsFail
           \/ \E s \in Slots : AwaitMissedProbe(s)
  BY <1>1 DEF ReadFinality, GetEpochProposers, GetProposers, AwaitAlternativeFeeRecipients,
              GetExecutionBlockInAnEpoch, MissedSlotsKnown, AwaitHeaderRequests,
              HeaderRequestsFail, AwaitMissedProbe
<1>2. CASE SlashedLoop
  BY <1>2 DEF SlashedLoop, NotSlashed, ReportSlashed, SlashedBlockMissing, Slashed, SlashedLoopEnds
<1>3. CASE Gather
  BY <1>3 DEF Gather, SettleSlotPayment, SlotPaymentRejects, SettleBlock, BlockRejects,
              SettleRelay, Gathering
<1>4. CASE PaymentLoop
  BY <1>4 DEF PaymentLoop, PaymentLoopStarts, PaymentLoopEnds, PaymentCheckFails,
              ReportUnderpayment, AcceptPayment, PaymentCheck
<1>5. CASE MissedLoop
  BY <1>5 DEF MissedLoop, NoDemand, MissedCheckThrows, ReportOffline, OfflineThrows,
              ReportDidNotSign, DidNotSignThrows, ReportNotPublishing, NotPublishingThrows,
              MissedLoopEnds, Judge, MissedCheck
<1> QED BY <1>1, <1>2, <1>3, <1>4, <1>5 DEF Next, ScanNext

\* Every step of a scan publishes an exact listing, gives up, or changes nothing that
\* the audit sees.
LEMMA AuditSteps ==
    ASSUME TypeOK, AuditInv, AuditInv', (pc = "listing" => Audit!Exact(penalties))', [Next]_vars
    PROVE  [Audit!Next]_(Audit!auditVars)
PROOF
<1>1. UNCHANGED world /\ WorldInit /\ Audit!world' = Audit!world
  BY SameWorld DEF Next, vars, TypeOK, Audit!world, world
<1>2. CASE UNCHANGED vars
  BY <1>1, <1>2 DEF Audit!auditVars, vars, progress, promises
<1>3. CASE Next /\ pc' \notin Outcomes
  <2>1. pc \notin Outcomes /\ pc # "listing" /\ pc' # "listing"
    BY <1>3, EndedScanStays DEF Outcomes
  <2> QED BY <1>1, <1>3, <2>1 DEF Audit!auditVars
<1>4. CASE Next /\ pc' = "listing"
  <2>1. pc \notin Outcomes
    BY <1>4, EndedScanStays
  <2>2. Audit!Final
    <3>1. Epoch <= previousFinalisedEpoch
      BY <1>1, <1>4, AuditSame DEF AuditInv, Started
    <3> QED BY <1>1, <3>1, GateIsFinal
  <2>3. Audit!Exact(penalties')
    BY <1>1, <1>4, ExactStays
  <2> QED BY <1>1, <1>4, <2>1, <2>2, <2>3 DEF Audit!Next, Audit!Publish, Outcomes
<1>5. CASE Next /\ pc' \in {"error", "thrown"}
  <2>1. pc \notin Outcomes
    BY <1>5, EndedScanStays
  <2> QED BY <1>1, <1>5, <2>1 DEF Audit!Next, Audit!GiveUp, Outcomes
<1> QED BY <1>2, <1>3, <1>4, <1>5 DEF Outcomes

\* What a scan publishes is right, and nothing is left out.
THEOREM AuditInvariant == Spec => []AuditInv
PROOF
<1>1. Init => TypeOK /\ ScanInv /\ AuditInv
  BY TypeInit, ScanInvInit, AuditInvInit
<1>2. TypeOK /\ ScanInv /\ AuditInv /\ [Next]_vars => TypeOK' /\ ScanInv' /\ AuditInv'
  BY TypeNext, ScanInvNext, AuditInvNext
<1> QED BY <1>1, <1>2, PTL DEF Spec

\* A scan implements EpochAudit.
THEOREM AuditImplemented == Spec => ImplementsAudit
PROOF
<1>1. TypeOK /\ ScanInv /\ AuditInv /\ FoundedInv => (pc = "listing" => Audit!Exact(penalties))
  BY ListingExact
<1>2. TypeOK /\ AuditInv /\ AuditInv' /\ (pc = "listing" => Audit!Exact(penalties))' /\ [Next]_vars
        => [Audit!Next]_(Audit!auditVars)
  BY AuditSteps
<1> QED BY <1>1, <1>2, AuditStarts, TypeCorrect, ScanInvariant, AuditInvariant,
           PenaltiesFounded, PTL
        DEF Spec, ImplementsAudit, Audit!Spec

-------------------------------------------------------------------------------
(* From the listing to the signatures: what the verifier reads and checks. *)

\* The checks are fifteen. Which of them a report is put to depends on its type.
LEMMA ChecksFacts ==
    /\ Len(AllChecks) = 15 /\ DOMAIN AllChecks = 1 .. 15
    /\ AllChecks[1] = "fields" /\ AllChecks[2] = "rpbs" /\ AllChecks[3] = "finality"
    /\ AllChecks[4] = "penaltyType" /\ AllChecks[5] = "duty" /\ AllChecks[6] = "proposer"
    /\ AllChecks[7] = "builder" /\ AllChecks[8] = "headers" /\ AllChecks[9] = "lastTransaction"
    /\ AllChecks[10] = "highest" /\ AllChecks[11] = "recipient" /\ AllChecks[12] = "submissions"
    /\ AllChecks[13] = "deliveries" /\ AllChecks[14] = "verdict"
    /\ AllChecks[15] = "computeTypedHash"
PROOF
<1> QED BY DEF AllChecks

LEMMA ChecksApply ==
    ASSUME NEW t
    PROVE  /\ ChecksOf(t) \subseteq 1 .. 15
           /\ {1, 3, 6, 7, 14, 15} \subseteq ChecksOf(t)
           /\ t # "PROPOSER_SLASHED_OR_LOW_EFFECTIVE" => 2 \in ChecksOf(t)
           /\ t = "BUILDER_UNDERPAYMENT" => 9 \in ChecksOf(t)
           /\ t = "BUILDER_DIDNT_PUBLISH" => 10 \in ChecksOf(t)
PROOF
<1>1. ChecksOf(t) \subseteq 1 .. 15
  BY ChecksFacts DEF ChecksOf
<1>2. {1, 3, 6, 7, 14, 15} \subseteq ChecksOf(t)
  BY ChecksFacts DEF ChecksOf, Applies
<1>3. t # "PROPOSER_SLASHED_OR_LOW_EFFECTIVE" => 2 \in ChecksOf(t)
  BY ChecksFacts DEF ChecksOf, Applies
<1>4. t = "BUILDER_UNDERPAYMENT" => 9 \in ChecksOf(t)
  BY ChecksFacts DEF ChecksOf, Applies
<1>5. t = "BUILDER_DIDNT_PUBLISH" => 10 \in ChecksOf(t)
  BY ChecksFacts DEF ChecksOf, Applies
<1> QED BY <1>1, <1>2, <1>3, <1>4, <1>5

-------------------------------------------------------------------------------
(* The verifier's lists of a slot say what the reporter's lists of the      *)
(* epoch say of it.                                                         *)

EvidenceOK ==
    \A s \in Slots :
        /\ slotHeaders[s] \in SetToSeqs(HeadersOf(s))
        /\ slotDeliveries[s] \in SetToSeqs(DeliveriesOf(s))

\* Each list of a slot is part of that of the epoch, in some order.
LEMMA SlotListFacts ==
    ASSUME WorldInit, EvidenceOK, NEW s \in Slots
    PROVE  /\ HoldsHeadersOf(slotHeaders[s], s)
           /\ slotHeaders[s] = <<>> => history[s].requested = {}
           /\ HoldsDeliveries(slotDeliveries[s])
           /\ Len(slotDeliveries[s]) \in 0 .. Len(payloadDeliveries)
PROOF
<1> DEFINE headers == slotHeaders[s]
           deliveries == slotDeliveries[s]
           m == Cardinality(HeadersOf(s))
           l == Cardinality(DeliveriesOf(s))
<1>1. headers \in SetToSeqs(HeadersOf(s)) /\ deliveries \in SetToSeqs(DeliveriesOf(s))
  BY DEF EvidenceOK
<1>2. HeadersOf(s) \in SUBSET RequestedHeaders /\ DeliveriesOf(s) \in SUBSET SignedPayloads
  BY DEF HeadersOf, DeliveriesOf, RequestedHeaders
<1>3. /\ IsFiniteSet(HeadersOf(s)) /\ IsFiniteSet(DeliveriesOf(s))
      /\ l <= Cardinality(SignedPayloads) /\ Cardinality(SignedPayloads) \in Nat
  BY <1>2, RecordsFinite, FS_Subset, FS_CardinalityType
<1>4. /\ m \in Nat /\ DOMAIN headers = 1 .. m
      /\ \A j \in 1 .. m : headers[j] \in HeadersOf(s)
      /\ \A x \in HeadersOf(s) : \E j \in 1 .. m : headers[j] = x
  BY <1>1, <1>3, ListOfSet
<1>5. /\ l \in Nat /\ DOMAIN deliveries = 1 .. l
      /\ \A j \in 1 .. l : deliveries[j] \in DeliveriesOf(s)
  BY <1>1, <1>3, ListOfSet
<1>6. HoldsHeadersOf(headers, s)
  <2> HIDE DEF headers, m
  <2> QED BY <1>4 DEF HoldsHeadersOf, HeadersOf
<1>7. HoldsDeliveries(deliveries)
  <2> HIDE DEF deliveries, l
  <2> QED BY <1>5 DEF HoldsDeliveries, DeliveriesOf, SignedPayloads
<1>8. headers = <<>> => history[s].requested = {}
  <2> HIDE DEF headers, m
  <2>1. headers = <<>> => 1 .. m = {}
    BY <1>4
  <2>2. \A k \in history[s].requested : RelayRecord(s, k) \in HeadersOf(s)
    BY DEF HeadersOf
  <2> QED BY <1>4, <2>1, <2>2
<1>9. Len(deliveries) = l /\ Len(payloadDeliveries) = Cardinality(SignedPayloads)
  <2>1. deliveries \in [1 .. l -> DeliveriesOf(s)]
    BY <1>1 DEF SetToSeqs
  <2>2. payloadDeliveries \in [1 .. Cardinality(SignedPayloads) -> SignedPayloads]
    BY DEF WorldInit, SetToSeqs
  <2>3. Len(deliveries) = l
    <3> HIDE DEF deliveries, l
    <3> QED BY <1>5, <2>1
  <2> QED BY <1>3, <2>2, <2>3
<1> QED BY <1>3, <1>5, <1>6, <1>7, <1>8, <1>9

\* The highest value and the bid the verifier finds are those the reporter found.
LEMMA SlotListsAgree ==
    ASSUME WorldInit, EvidenceOK, NEW s \in Slots
    PROVE  /\ HighestValueHeader(slotHeaders[s], s) = highestValueHeader(s)
           /\ BuilderSubmissionForSlot(BlockHash(s), BuilderSubmissions(s), slotHeaders[s],
                                       slotDeliveries[s]).builderBid # Null
                <=> Attribution(s, BlockHash(s)).builderBid # Null
PROOF
<1>1. HoldsHeadersOf(slotHeaders[s], s) /\ HoldsDeliveries(slotDeliveries[s])
  BY SlotListFacts
<1>2. HoldsHeadersOf(headerRequests, s)
  BY HeaderListFacts
<1>3. HighestValueHeader(slotHeaders[s], s) = highestValueHeader(s)
  BY <1>1, <1>2, BidValuesFacts DEF HighestValueHeader, highestValueHeader
<1>4. BuilderSubmissionForSlot(BlockHash(s), BuilderSubmissions(s), slotHeaders[s],
                               slotDeliveries[s]).builderBid # Null
        <=> history[s].requested \intersect Considered(BuilderSubmissions(s), BlockHash(s)) # {}
  BY <1>1, AttributionOf
<1>5. Attribution(s, BlockHash(s)).builderBid # Null
        <=> history[s].requested \intersect Considered(BuilderSubmissions(s), BlockHash(s)) # {}
  BY AttributionFacts DEF Attribution
<1> QED BY <1>3, <1>4, <1>5

-------------------------------------------------------------------------------
(* What is known of a report when the verifier looks at it.                 *)

\* ReportValidation states the faults as EpochAudit does.
LEMMA SameFaults ==
    ASSUME NEW s, NEW p
    PROVE  /\ Validation!Audit!BlameFits(p) <=> Audit!BlameFits(p)
           /\ Validation!Audit!UnderpaidSlot(s) <=> Audit!UnderpaidSlot(s)
           /\ Validation!Audit!MissedWithBids(s) <=> Audit!MissedWithBids(s)
           /\ Validation!Audit!HighestRequested(s) = Audit!HighestRequested(s)
PROOF
<1>1. \A S : Validation!Audit!Max(S) = Audit!Max(S)
  BY DEF Validation!Audit!Max, Audit!Max
<1>2. \A t : Validation!Audit!HighestRequested(t) = Audit!HighestRequested(t)
  BY <1>1 DEF Validation!Audit!HighestRequested, Audit!HighestRequested
<1>3. Validation!Audit!Credited(s) = Audit!Credited(s)
  BY DEF Validation!Audit!Credited, Audit!Credited, Validation!Audit!PaidTo, Audit!PaidTo
<1>4. Validation!Audit!Reverted(s) <=> Audit!Reverted(s)
  BY DEF Validation!Audit!Reverted, Audit!Reverted
<1>5. Validation!Audit!BlameFits(p) <=> Audit!BlameFits(p)
  BY <1>2 DEF Validation!Audit!BlameFits, Audit!BlameFits,
              Validation!Audit!ExemptAtScan, Audit!ExemptAtScan,
              Validation!Audit!ProposerPenalties, Audit!ProposerPenalties
<1> QED BY <1>2, <1>3, <1>4, <1>5 DEF Validation!Audit!UnderpaidSlot, Audit!UnderpaidSlot,
                               Validation!Audit!MissedWithBids, Audit!MissedWithBids

ScanResult == TypeOK /\ ScanInv /\ AuditInv /\ FoundedInv

\* A report is a penalty of the scan: well formed, and right for the reason given.
WellFounded(r) ==
    /\ r.internalPenaltyType \in INTERNAL_PENALTY_TYPES
    /\ r.slot \in Slots /\ r.amount \in Nat
    /\ r.builder \in Wallets \union {ZERO_ADDRESS}
    /\ r.penaltyType = INTERNAL_PENALTY_TYPE_TO_CONTRACT_TYPE[r.internalPenaltyType]
    /\ r.block \in {"number", "NaN", Null}
    /\ r.internalPenaltyType = "PROPOSER_SLASHED_OR_LOW_EFFECTIVE" =>
        r.amount = 0 /\ r.blsKey \in kicked
    /\ r.internalPenaltyType \in SlotPenalties =>
        /\ r.blsKey = duty[r.slot]
        /\ r.rpbs = RpbsPayload(Attribution(r.slot, BlockHash(r.slot)).builderBid)
    /\ r.internalPenaltyType = "BUILDER_UNDERPAYMENT" =>
        /\ Audit!UnderpaidSlot(r.slot)
        /\ r.amount = 2 * Audit!HighestRequested(r.slot)
    /\ r.internalPenaltyType \in MissedSlotPenalties =>
        Audit!MissedWithBids(r.slot) /\ Audit!BlameFits(r)
    /\ r.internalPenaltyType = "PROPOSER_OFFLINE" => Offline(r.slot)
    /\ r.internalPenaltyType = "PROPOSER_DID_NOT_SIGN" => DidNotSign(r.slot)
    /\ r.internalPenaltyType = "BUILDER_DIDNT_PUBLISH" =>
        highestValueHeader(r.slot) # Null /\ r.amount = 2 * highestValueHeader(r.slot)

LEMMA ReportsWellFounded ==
    ASSUME ScanResult, NEW r \in Listing
    PROVE  WellFounded(r)
PROOF
<1>1. PICK p \in penalties : r \in Reported(p)
  BY DEF Listing
<1>2. /\ r.internalPenaltyType = p.internalPenaltyType
      /\ r.penaltyType = INTERNAL_PENALTY_TYPE_TO_CONTRACT_TYPE[p.internalPenaltyType]
      /\ r.slot = p.slot /\ r.blsKey = p.blsKey /\ r.builder = p.builder
      /\ r.amount = p.amount /\ r.rpbs = p.rpbs
      /\ r.block \in {"number", "NaN", Null}
  BY <1>1 DEF Reported
<1>3. p \in Penalty /\ Founded(p)
  BY DEF ScanResult, TypeOK, FoundedInv
<1>4. /\ p.internalPenaltyType \in INTERNAL_PENALTY_TYPES /\ p.slot \in Slots /\ p.amount \in Nat
      /\ p.builder \in Wallets \union {ZERO_ADDRESS}
  BY <1>3 DEF Penalty
<1>5. p.internalPenaltyType = "PROPOSER_SLASHED_OR_LOW_EFFECTIVE" => p.blsKey \in kicked
  BY DEF ScanResult, AuditInv, Audit!KickedOnly
<1>6. p.internalPenaltyType \in SlotPenalties => RightVerdict(p) /\ p.blsKey = duty[p.slot]
  BY DEF ScanResult, AuditInv, ScanInv, Verdicts, VerdictsNameDutyProposer, SlotVerdicts
<1>7. p.internalPenaltyType = "BUILDER_UNDERPAYMENT" =>
        Audit!UnderpaidSlot(p.slot) /\ p.amount = 2 * Audit!HighestRequested(p.slot)
  BY <1>6 DEF RightVerdict, SlotPenalties
<1>8. p.internalPenaltyType \in MissedSlotPenalties => Audit!MissedWithBids(p.slot)
  BY <1>6 DEF RightVerdict, SlotPenalties, MissedSlotPenalties
<1>9. p.internalPenaltyType \in MissedSlotPenalties => Audit!BlameFits(p)
  BY <1>3, <1>4, FoundedBlame DEF ScanResult, TypeOK
<1>10. Audit!BlameFits(p) => Audit!BlameFits(r)
  BY <1>2 DEF Audit!BlameFits
<1> QED BY <1>2, <1>3, <1>4, <1>5, <1>6, <1>7, <1>8, <1>9, <1>10 DEF WellFounded, Founded

\* The slots of the epoch in terms of the finalized epoch the verifier compares with.
LEMMA FinalSlots ==
    ASSUME NEW s \in Slots, NEW f \in Nat
    PROVE  s + 2 * SLOTS_IN_EPOCH > f * SLOTS_IN_EPOCH
             <=> f < Epoch + 2 \/ (f = Epoch + 2 /\ s > FirstSlot)
PROOF
<1> DEFINE S == SLOTS_IN_EPOCH
           first == Epoch * S
<1>1. S \in Nat /\ S > 0 /\ Epoch \in Nat
  BY EpochAssumption
<1>2. \A e \in Nat : e * S \in Nat
  BY <1>1
<1>3. /\ first \in Nat /\ f * S \in Nat
      /\ (Epoch + 2) * S = first + 2 * S /\ (Epoch + 3) * S = first + 3 * S
  BY <1>1
<1>4. \A e, g, n \in Nat : e <= g => e * n <= g * n
  OBVIOUS
<1>5. FirstSlot = first /\ s \in Int /\ s >= first /\ s < first + S
  <2>1. FirstSlot = first
    BY <1>1, <1>3 DEF FirstSlot, epochToSlot
  <2>2. epochToSlot(Epoch, SLOTS_IN_EPOCH) = first + S - 1
    BY <1>1, <1>3 DEF epochToSlot
  <2> HIDE DEF first, S
  <2> QED BY <1>1, <1>3, <2>1, <2>2 DEF Slots
<1>6. CASE f < Epoch + 2
  <2>1. (f + 1) * S <= (Epoch + 2) * S
    BY <1>1, <1>4, <1>6
  <2>2. (f + 1) * S = f * S + S
    BY <1>1
  <2>3. f * S + S <= first + 2 * S
    BY <1>3, <2>1, <2>2
  <2> HIDE DEF first, S
  <2> QED BY <1>1, <1>3, <1>5, <1>6, <2>3 DEF S
<1>7. CASE f = Epoch + 2
  <2>1. f * S = first + 2 * S
    BY <1>3, <1>7
  <2> HIDE DEF first, S
  <2> QED BY <1>1, <1>3, <1>5, <1>7, <2>1 DEF S
<1>8. CASE f > Epoch + 2
  <2>1. (Epoch + 3) * S <= f * S
    BY <1>1, <1>4, <1>8
  <2>2. first + 3 * S <= f * S
    BY <1>3, <2>1
  <2> HIDE DEF first, S
  <2> QED BY <1>1, <1>3, <1>5, <1>8, <2>2 DEF S
<1> QED BY <1>1, <1>6, <1>7, <1>8

\* The world today, and the lists of a slot, as the verifier reads them.
WorldsToday ==
    [finalized : Nat, alternativeFeeRecipient : [Proposers -> {ZERO_ADDRESS, "alternative"}],
     kicked : SUBSET Proposers, reportableProposers : SUBSET Proposers,
     reportableBuilders : SUBSET Wallets, proposerAmount : Nat]

TodayOK == now \in WorldsToday /\ kicked \subseteq now.kicked /\ EvidenceOK

\* What the verifier reads of the relay's lists, in terms of the slot.
LEMMA VerifierReads ==
    ASSUME ScanResult, TodayOK, WellFounded(report)
    PROVE  /\ highestOfSlot = highestValueHeader(slot)
           /\ Validation!Audit!HighestRequested(slot)
                = IF highestOfSlot = Null THEN 0 ELSE highestOfSlot
           /\ highestOfSlot # Null => highestOfSlot \in Nat
           /\ type = "BUILDER_UNDERPAYMENT" =>
                /\ history[slot].block = "pon"
                /\ Truthy(highestOfSlot) /\ highestOfSlot \in Nat
                /\ report.amount = 2 * highestOfSlot
                /\ StillUnderpaid <=> history[slot].lastTx.value < highestOfSlot
PROOF
<1>1. WorldInit /\ EvidenceOK /\ slot \in Slots
  BY DEF ScanResult, TypeOK, TodayOK, WellFounded, slot
<1>2. highestOfSlot = highestValueHeader(slot)
  BY <1>1, SlotListsAgree DEF highestOfSlot
<1>3. /\ Audit!HighestRequested(slot) = IF highestOfSlot = Null THEN 0 ELSE highestOfSlot
      /\ Truthy(highestOfSlot) <=> Audit!HighestRequested(slot) > 0
  BY <1>1, <1>2, SameHighest
<1>4. Validation!Audit!HighestRequested(slot) = Audit!HighestRequested(slot)
  BY SameFaults
<1>5. highestOfSlot # Null => highestOfSlot \in Nat
  BY <1>1, <1>2, HighestFacts DEF highestValueHeader
<1>6. ASSUME type = "BUILDER_UNDERPAYMENT"
      PROVE  /\ history[slot].block = "pon"
             /\ Truthy(highestOfSlot) /\ highestOfSlot \in Nat
             /\ report.amount = 2 * highestOfSlot
             /\ StillUnderpaid <=> history[slot].lastTx.value < highestOfSlot
  <2>1. Audit!UnderpaidSlot(slot) /\ report.amount = 2 * Audit!HighestRequested(slot)
    BY <1>6 DEF WellFounded, type, slot
  <2>2. history[slot].block = "pon" /\ Truthy(highestOfSlot)
    BY <1>3, <2>1 DEF Audit!UnderpaidSlot
  <2>3. highestOfSlot \in Nat /\ report.amount = 2 * highestOfSlot
    BY <1>3, <1>5, <2>1, <2>2 DEF Truthy
  <2>4. Attribution(slot, BlockHash(slot)).builderBid # Null
    BY <1>1, <2>2, ChainBidFacts DEF Attribution
  <2>5. BuilderSubmissionForSlot(BlockHash(slot), BuilderSubmissions(slot), slotHeaders[slot],
                                 slotDeliveries[slot]).builderBid # Null
    BY <1>1, <2>4, SlotListsAgree
  <2>6. StillUnderpaid <=> history[slot].lastTx.value < highestOfSlot
    BY <2>2, <2>5 DEF StillUnderpaid, IsUnderpayment
  <2> QED BY <2>2, <2>3, <2>6
<1> QED BY <1>2, <1>3, <1>4, <1>5, <1>6

\* A report is passed by the verdict only if nothing speaks against it today, ...
LEMMA VerdictDisputed ==
    ASSUME ScanResult, TodayOK, WellFounded(report),
           VerdictRefused(TRUE) \/ VerdictThrows(TRUE)
    PROVE  Disputed(report)
PROOF
<1>1. /\ highestOfSlot = highestValueHeader(slot)
      /\ Validation!Audit!HighestRequested(slot)
            = IF highestOfSlot = Null THEN 0 ELSE highestOfSlot
      /\ type = "BUILDER_UNDERPAYMENT" =>
            /\ history[slot].block = "pon"
            /\ Truthy(highestOfSlot) /\ highestOfSlot \in Nat
            /\ report.amount = 2 * highestOfSlot
            /\ StillUnderpaid <=> history[slot].lastTx.value < highestOfSlot
  BY VerifierReads
<1>2. WorldInit /\ slot \in Slots /\ EvidenceOK
  BY DEF ScanResult, TypeOK, WellFounded, slot, TodayOK
<1>3. /\ "PROPOSER_OFFLINE" \in ProposerPenalties /\ "PROPOSER_DID_NOT_SIGN" \in ProposerPenalties
      /\ "PROPOSER_SLASHED_OR_LOW_EFFECTIVE" \in ProposerPenalties
  BY DEF ProposerPenalties
<1>4. HasAlternative <=> Validation!OptedOutNow(report.blsKey)
  BY DEF HasAlternative, Validation!OptedOutNow
<1>5. CASE HasAlternative /\ type \in ProposerPenalties
  BY <1>4, <1>5 DEF Disputed, type
<1>6. CASE type \in FeeVerdicts /\ report.amount # now.proposerAmount
  BY <1>6 DEF Disputed, type
<1>7. CASE type = "PROPOSER_SLASHED_OR_LOW_EFFECTIVE" /\ ~HasAlternative
  BY <1>7 DEF VerdictRefused, VerdictThrows, FeeVerdicts, WellFounded, TodayOK, type
<1>8. CASE type = "BUILDER_UNDERPAYMENT"
  <2> DEFINE tx == history[slot].lastTx
  <2>1. ~StillUnderpaid
    BY <1>1, <1>8 DEF VerdictRefused, VerdictThrows, FeeVerdicts
  <2>2. Audit!UnderpaidSlot(slot)
    BY <1>8 DEF WellFounded, type, slot
  <2>3. CASE tx = Null \/ tx.to # "payoutPool"
    BY <1>8, <2>3 DEF Disputed, type, slot
  <2>4. CASE tx # Null /\ tx.to = "payoutPool"
    <3>1. tx.to \in Audit!PaidTo(slot)
      BY <2>4 DEF Audit!PaidTo
    <3>2. Audit!Credited(slot) = tx.value /\ (Audit!Reverted(slot) <=> tx.reverted)
      BY <2>4, <3>1 DEF Audit!Credited, Audit!Reverted
    <3>3. Validation!Audit!HighestRequested(slot) = highestOfSlot
      BY <1>1, <1>8 DEF Truthy
    <3>4. Audit!HighestRequested(slot) = highestOfSlot
      BY <3>3, SameFaults
    <3>5. tx.value \in Nat
      <4>1. tx \in Transaction
        BY <1>2, <2>4, HistoryFacts DEF WellFormed
      <4> QED BY <4>1 DEF Transaction
    <3>6. tx.value >= highestOfSlot
      BY <1>1, <1>8, <2>1, <3>5
    <3>7. tx.reverted
      BY <1>1, <1>8, <2>2, <3>2, <3>4, <3>5, <3>6 DEF Audit!UnderpaidSlot
    <3> QED BY <1>8, <3>3, <3>6, <3>7 DEF Disputed, type, slot
  <2> QED BY <2>3, <2>4
<1>9. CASE type = "PROPOSER_OFFLINE" /\ ~HasAlternative /\ report.amount = now.proposerAmount
  <2>1. ~Truthy(highestOfSlot)
    BY <1>1, <1>9 DEF WellFounded, Offline, type, slot
  <2> QED BY <1>9, <2>1 DEF VerdictRefused, VerdictThrows, FeeVerdicts, Cleared
<1>10. CASE type = "PROPOSER_DID_NOT_SIGN" /\ ~HasAlternative /\ report.amount = now.proposerAmount
  <2>1. ~(slot < Len(payloadDeliveries))
    BY <1>10 DEF WellFounded, DidNotSign, DeliveredEntry, type, slot
  <2>2. /\ Len(slotDeliveries[slot]) \in 0 .. Len(payloadDeliveries)
        /\ Len(payloadDeliveries) \in Nat /\ slot \in Nat
    BY <1>2, SlotListFacts, DeliveryListFacts, SlotsFacts
  <2>3. ~(slot < Len(slotDeliveries[slot]))
    BY <2>1, <2>2
  <2> QED BY <1>10, <2>3 DEF VerdictRefused, VerdictThrows, FeeVerdicts, Cleared
<1>11. CASE type = "BUILDER_DIDNT_PUBLISH"
  <2>1. history[slot].block = "missed" /\ report.amount = 2 * highestOfSlot
    BY <1>1, <1>11 DEF WellFounded, MissedSlotPenalties, Audit!MissedWithBids, type, slot
  <2> QED BY <1>11, <2>1 DEF VerdictRefused, VerdictThrows, FeeVerdicts, ProbeMissed
<1>12. type \in {"PROPOSER_SLASHED_OR_LOW_EFFECTIVE", "BUILDER_UNDERPAYMENT", "PROPOSER_OFFLINE",
                 "PROPOSER_DID_NOT_SIGN", "BUILDER_DIDNT_PUBLISH"}
  BY DEF WellFounded, INTERNAL_PENALTY_TYPES, SlotPenalties, MissedSlotPenalties, type
<1> QED BY <1>3, <1>5, <1>6, <1>7, <1>8, <1>9, <1>10, <1>11, <1>12 DEF FeeVerdicts

\* ... and by the other checks as well: a report that some check stops, although its
\* fetch was answered, is disputed.
LEMMA StoppedDisputed ==
    ASSUME ScanResult, TodayOK, WellFounded(report), check \in ChecksOf(type),
           Refuses(current, TRUE) \/ Throws(current, TRUE)
    PROVE  Disputed(report)
PROOF
<1>1. Applies(current, type) /\ check \in 1 .. 15
  BY ChecksApply DEF ChecksOf, current
<1>2. current \in {"fields", "rpbs", "finality", "penaltyType", "duty", "proposer", "builder",
                   "headers", "lastTransaction", "highest", "recipient", "submissions",
                   "deliveries", "verdict", "computeTypedHash"}
  BY <1>1, ChecksFacts DEF current
<1>3. WorldInit /\ slot \in Slots /\ EvidenceOK /\ now.finalized \in Nat
  BY DEF ScanResult, TypeOK, WellFounded, slot, TodayOK, WorldsToday
<1>4. CASE current = "fields"
  BY <1>4, NullIsNoBlock DEF Refuses, Throws, Disputed
<1>5. CASE current = "rpbs"
  BY <1>1, <1>5 DEF Refuses, Throws, Applies, Disputed, type
<1>6. CASE current = "finality"
  <2>1. slot + 2 * SLOTS_IN_EPOCH > now.finalized * SLOTS_IN_EPOCH
    BY <1>6 DEF Refuses, Throws
  <2>2. now.finalized < Epoch + 2 \/ (now.finalized = Epoch + 2 /\ slot > FirstSlot)
    BY <1>3, <2>1, FinalSlots
  <2> QED BY <2>2 DEF Disputed, slot
<1>7. CASE current = "penaltyType"
  BY <1>7 DEF Refuses, Throws, WellFounded, type
<1>8. CASE current = "duty"
  BY <1>1, <1>8 DEF Refuses, Throws, Applies, WellFounded, SlotPenalties, type, slot
<1>9. CASE current = "proposer"
  BY <1>9 DEF Refuses, Throws, Disputed
<1>10. CASE current = "builder"
  BY <1>10 DEF Refuses, Throws, Disputed, WellFounded
<1>11. CASE current = "headers"
  <2>1. slotHeaders[slot] = <<>> /\ type # "PROPOSER_SLASHED_OR_LOW_EFFECTIVE"
    BY <1>1, <1>11 DEF Refuses, Throws, Applies
  <2>2. history[slot].requested = {}
    BY <1>3, <2>1, SlotListFacts
  <2>3. Attribution(slot, BlockHash(slot)).builderBid = Null
    BY <1>3, <2>2, AttributionFacts DEF Attribution
  <2>4. report.rpbs = Null
    BY <2>1, <2>3 DEF WellFounded, INTERNAL_PENALTY_TYPES, RpbsPayload, type, slot
  <2> QED BY <2>1, <2>4 DEF Disputed, type
<1>12. CASE current = "lastTransaction"
  BY <1>1, <1>12 DEF Refuses, Throws, Applies, Disputed, ToPayoutPool, type, slot
<1>13. CASE current = "highest"
  <2>1. ~Truthy(highestOfSlot)
    BY <1>13 DEF Refuses, Throws
  <2>2. type \notin {"PROPOSER_SLASHED_OR_LOW_EFFECTIVE", "PROPOSER_OFFLINE"}
    BY <1>1, <1>13 DEF Applies
  <2>3. type \in {"BUILDER_UNDERPAYMENT", "PROPOSER_DID_NOT_SIGN", "BUILDER_DIDNT_PUBLISH"}
    BY <2>2 DEF WellFounded, INTERNAL_PENALTY_TYPES, SlotPenalties, MissedSlotPenalties, type
  <2>4. highestOfSlot = highestValueHeader(slot)
    BY VerifierReads
  <2>5. type # "BUILDER_UNDERPAYMENT"
    BY <2>1, VerifierReads
  <2>6. type # "PROPOSER_DID_NOT_SIGN"
    BY <2>1, <2>4 DEF WellFounded, DidNotSign, Offline, type, slot
  <2>7. type = "BUILDER_DIDNT_PUBLISH" /\ report.amount = 0
    BY <2>1, <2>3, <2>4, <2>5, <2>6 DEF WellFounded, Truthy, type, slot
  <2> QED BY <2>7 DEF Disputed, type
<1>14. CASE current \in {"recipient", "submissions", "deliveries"}
  BY <1>14 DEF Refuses, Throws
<1>15. CASE current = "verdict"
  BY <1>15, VerdictDisputed DEF Refuses, Throws
<1>16. CASE current = "computeTypedHash"
  BY <1>16 DEF Refuses, Throws, Disputed
<1> QED BY <1>2, <1>4, <1>5, <1>6, <1>7, <1>8, <1>9, <1>10, <1>11, <1>12, <1>13, <1>14, <1>15, <1>16

\* A check that is behind a report is one it passed: with an answer or without one.
Passed(k) ==
    \E reached \in BOOLEAN : ~Throws(AllChecks[k], reached) /\ ~Refuses(AllChecks[k], reached)

\* Nothing speaks against a report that passed every check that applies to it.
LEMMA PassedUndisputed ==
    ASSUME ScanResult, TodayOK, WellFounded(report), \A k \in ChecksOf(type) : Passed(k)
    PROVE  ~Disputed(report)
PROOF
<1> USE DEF Passed
<1>1. {1, 3, 6, 7, 14, 15} \subseteq ChecksOf(type)
  BY ChecksApply
<1>2. WorldInit /\ slot \in Slots /\ now.finalized \in Nat
  BY DEF ScanResult, TypeOK, WellFounded, slot, TodayOK, WorldsToday
<1>3. PICK reached \in BOOLEAN : ~VerdictThrows(reached) /\ ~VerdictRefused(reached)
  <2>1. Passed(14)
    BY <1>1
  <2> QED BY <2>1, ChecksFacts DEF Refuses, Throws
<1>4. ~(now.finalized < Epoch + 2 \/ (now.finalized = Epoch + 2 /\ report.slot > FirstSlot))
  <2>1. Passed(3)
    BY <1>1
  <2>2. ~(slot + 2 * SLOTS_IN_EPOCH > now.finalized * SLOTS_IN_EPOCH)
    BY <2>1, ChecksFacts DEF Refuses
  <2> QED BY <1>2, <2>2, FinalSlots DEF slot
<1>5. ~(type # "PROPOSER_SLASHED_OR_LOW_EFFECTIVE" /\ report.rpbs = Null)
  <2>1. type # "PROPOSER_SLASHED_OR_LOW_EFFECTIVE" => Passed(2)
    BY ChecksApply
  <2> QED BY <2>1, ChecksFacts DEF Refuses
<1>6. report.block = "number"
  <2>1. Passed(15)
    BY <1>1
  <2> QED BY <2>1, ChecksFacts DEF Throws
<1>7. report.blsKey \in now.reportableProposers
  <2>1. Passed(6)
    BY <1>1
  <2> QED BY <2>1, ChecksFacts DEF Refuses
<1>8. report.builder \notin Wallets \ now.reportableBuilders
  <2>1. Passed(7)
    BY <1>1
  <2>2. report.builder \in now.reportableBuilders \union {ZERO_ADDRESS}
    BY <2>1, ChecksFacts DEF Refuses
  <2> QED BY <2>2, AddressAssumption
<1>9. type \in FeeVerdicts => ~HasAlternative /\ report.amount = now.proposerAmount
  BY <1>3 DEF VerdictRefused, Cleared
<1>10. ~(type \in ProposerPenalties /\ Validation!OptedOutNow(report.blsKey))
  <2>1. type = "PROPOSER_SLASHED_OR_LOW_EFFECTIVE" => ~HasAlternative
    BY <1>3 DEF VerdictRefused
  <2> QED BY <1>9, <2>1 DEF ProposerPenalties, FeeVerdicts, HasAlternative, Validation!OptedOutNow
<1>11. ~(type = "BUILDER_DIDNT_PUBLISH" /\ report.amount = 0)
  <2> SUFFICES ASSUME type = "BUILDER_DIDNT_PUBLISH" PROVE report.amount # 0
    OBVIOUS
  <2>1. Passed(10)
    BY ChecksApply
  <2>2. Truthy(highestOfSlot)
    BY <2>1, ChecksFacts DEF Refuses
  <2>3. highestOfSlot \in Nat /\ highestOfSlot # 0
    BY <2>2, VerifierReads DEF Truthy
  <2>4. report.amount = 2 * highestOfSlot
    BY <1>3 DEF VerdictRefused
  <2> QED BY <2>3, <2>4
<1>12. ASSUME type = "BUILDER_UNDERPAYMENT"
       PROVE  LET tx == history[slot].lastTx IN
              /\ tx # Null /\ slot \in paidAsCommitted /\ tx.to = "payoutPool"
              /\ ~(tx.value >= Validation!Audit!HighestRequested(slot))
  <2> DEFINE tx == history[slot].lastTx
  <2>1. Passed(9)
    BY <1>12, ChecksApply
  <2>2. tx # Null /\ tx.to = "payoutPool" /\ slot \in paidAsCommitted
    BY <2>1, ChecksFacts DEF Refuses, Throws, ToPayoutPool
  <2>3. /\ highestOfSlot \in Nat /\ highestOfSlot # Null
        /\ Validation!Audit!HighestRequested(slot) = highestOfSlot
        /\ StillUnderpaid <=> tx.value < highestOfSlot
    BY <1>12, VerifierReads DEF Truthy
  <2>4. StillUnderpaid
    BY <1>3, <1>12 DEF VerdictRefused
  <2>5. tx.value \in Nat
    <3>1. tx \in Transaction
      BY <1>2, <2>2, HistoryFacts DEF WellFormed
    <3> QED BY <3>1 DEF Transaction
  <2> QED BY <2>2, <2>3, <2>4, <2>5
<1> QED BY <1>4, <1>5, <1>6, <1>7, <1>8, <1>9, <1>10, <1>11, <1>12 DEF Disputed, type, slot
-------------------------------------------------------------------------------
(* The requests. PipelineInv is inductive beside the invariants of a scan.  *)

PipelineInv ==
    /\ RequestOK
    /\ TodayOK
    /\ verifier = "idle" => NoRequest
    /\ verifier # "idle" => pc = "listing" /\ submitted # <<>>
    /\ verifier \in {"refused", "down"} => i <= Len(submitted)
    /\ verifier = "signed" => i = Len(submitted) + 1

\* The check that comes next is the first of those left.
LEMMA NextCheck ==
    ASSUME checksLeft # {}
    PROVE  /\ Min(checksLeft) \in checksLeft /\ Min(checksLeft) \in 1 .. 15
           /\ \A k \in checksLeft : Min(checksLeft) <= k
PROOF
<1>1. checksLeft \in SUBSET (1 .. 15)
  BY ChecksApply DEF checksLeft
<1> QED BY <1>1, PlacesInList

\* What is signed grows by the report that was checked.
LEMMA OneMoreSigned ==
    ASSUME NEW S, NEW q \in Seq(S), NEW k \in 1 .. Len(q)
    PROVE  /\ Append(SubSeq(q, 1, k - 1), q[k]) = SubSeq(q, 1, k)
           /\ SubSeq(q, 1, Len(q)) = q
PROOF
<1> QED OBVIOUS

LEMMA NothingSigned ==
    ASSUME NEW S, NEW q \in Seq(S)
    PROVE  <<>> = SubSeq(q, 1, 1 - 1) /\ 1 \in 1 .. Len(q) + 1 /\ 1 \in 1 .. Len(AllChecks)
PROOF
<1> QED BY ChecksFacts

\* As long as world and evidence stay the same, so does what they say.
LEMMA EvidenceSame ==
    ASSUME UNCHANGED world, UNCHANGED evidence
    PROVE  EvidenceOK' <=> EvidenceOK
PROOF
<1>1. /\ history' = history /\ duty' = duty /\ slotHeaders' = slotHeaders
      /\ slotDeliveries' = slotDeliveries
  BY DEF world, evidence
<1>2. \A s, k : RelayRecord(s, k)' = RelayRecord(s, k)
  BY <1>1 DEF RelayRecord
<1>3. \A s \in Slots : HeadersOf(s)' = HeadersOf(s)
  BY <1>1, <1>2 DEF HeadersOf
<1>4. SignedPayloads' = SignedPayloads
  BY <1>1, <1>2 DEF SignedPayloads
<1>5. \A s \in Slots : DeliveriesOf(s)' = DeliveriesOf(s)
  BY <1>4 DEF DeliveriesOf
<1> QED BY <1>1, <1>3, <1>5 DEF EvidenceOK

\* A request starts with nothing, at the world of the scan.
LEMMA PipelineInvInit == PipelineInit => PipelineInv
PROOF
<1> SUFFICES ASSUME PipelineInit PROVE PipelineInv
  OBVIOUS
<1>1. WorldInit /\ verifier = "idle" /\ NoRequest
  BY DEF PipelineInit, Init, VerifierInit
<1>2. now \in WorldsToday /\ kicked \subseteq now.kicked
  <2>1. PICK amount \in ProposerAmounts : now = AtScan(amount)
    BY DEF PipelineInit, VerifierInit
  <2>2. amount \in Nat /\ finalized \in Nat
    BY <1>1, ProposerAmountsAssumption, FinalizedAssumption DEF WorldInit
  <2> QED BY <1>1, <2>1, <2>2 DEF AtScan, WorldsToday, WorldInit
<1>3. EvidenceOK
  BY DEF PipelineInit, VerifierInit, ListsOf, EvidenceOK
<1>4. RequestOK
  <2>1. /\ submitted = <<>> /\ i = 1 /\ check = 1 /\ reports = <<>> /\ unanswered = FALSE
        /\ submitted \in Seq(Listing)
    BY <1>1 DEF NoRequest
  <2>2. reports = SubSeq(submitted, 1, i - 1) /\ i \in 1 .. Len(submitted) + 1
        /\ check \in 1 .. Len(AllChecks)
    BY <2>1, NothingSigned
  <2> QED BY <1>1, <2>1, <2>2 DEF RequestOK
<1> QED BY <1>1, <1>2, <1>3, <1>4 DEF PipelineInv, TodayOK

\* Every step is one of the scan, or leaves the scan alone.
LEMMA PipelineStepsOfScan == [PipelineNext]_pipelineVars => [Next]_vars
PROOF
<1> QED BY DEF PipelineNext, pipelineVars, Scan, Submit, WorldMovesOn, Verify, Recover, Next

\* The world that the verifier reads stays one, and validators stay slashed.
LEMMA TodayMovesOn ==
    ASSUME now \in WorldsToday, kicked \subseteq now.kicked, WorldMovesOn
    PROVE  now' \in WorldsToday /\ kicked' \subseteq now'.kicked
PROOF
<1>1. kicked' = kicked
  BY DEF WorldMovesOn, vars, world
<1> USE DEF WorldsToday
<1>2. CASE Today("finalized", {now.finalized + 1})
  BY <1>1, <1>2 DEF Today
<1>3. CASE Today("alternativeFeeRecipient", [Proposers -> {ZERO_ADDRESS, "alternative"}])
  BY <1>1, <1>3 DEF Today
<1>4. CASE Today("kicked", {now.kicked \union {p} : p \in Proposers})
  BY <1>1, <1>4 DEF Today
<1>5. CASE Today("reportableProposers", {Proposers \ {p} : p \in Proposers})
  BY <1>1, <1>5 DEF Today
<1>6. CASE Today("reportableBuilders", {Wallets \ {b} : b \in Builders})
  BY <1>1, <1>6 DEF Today
<1>7. CASE Today("proposerAmount", {now.proposerAmount + 1})
  BY <1>1, <1>7 DEF Today
<1> QED BY <1>2, <1>3, <1>4, <1>5, <1>6, <1>7 DEF WorldMovesOn

\* A report that passes a check goes on to the next one, or is signed.
LEMMA PassStep ==
    ASSUME PipelineInv, NEW reached, Pass(reached), UNCHANGED <<vars, now, evidence>>
    PROVE  PipelineInv'
PROOF
<1>1. /\ verifier = "checking" /\ i <= Len(submitted)
      /\ verifier' = "checking" /\ submitted' = submitted
      /\ unanswered' = (unanswered \/ ~reached) /\ reached \in BOOLEAN
  BY DEF Pass, Examine, Answered
<1>2. /\ submitted \in Seq(Listing) /\ i \in 1 .. Len(submitted) /\ check \in 1 .. 15
      /\ reports = SubSeq(submitted, 1, i - 1) /\ unanswered \in BOOLEAN
      /\ pc = "listing" /\ submitted # <<>> /\ TodayOK
  BY <1>1, ChecksFacts DEF PipelineInv, RequestOK
<1>3. Listing' = Listing /\ pc' = pc /\ now' = now /\ kicked' = kicked
  BY DEF vars, progress, Listing, Reported, world
<1>4. TodayOK'
  BY <1>2, <1>3, EvidenceSame DEF TodayOK, WorldsToday, vars
<1>5. CASE checksLeft # {}
  <2>1. check' = Min(checksLeft) /\ i' = i /\ reports' = reports
    BY <1>5 DEF Pass
  <2>2. check' \in 1 .. 15
    BY <1>5, <2>1, NextCheck
  <2>3. RequestOK'
    BY <1>1, <1>2, <1>3, <2>1, <2>2, ChecksFacts DEF RequestOK
  <2> QED BY <1>1, <1>2, <1>3, <1>4, <2>3 DEF PipelineInv
<1>6. CASE checksLeft = {}
  <2>1. /\ check' = 1 /\ i' = i + 1 /\ reports' = Append(reports, report)
    BY <1>6 DEF Pass
  <2>2. reports' = SubSeq(submitted, 1, i)
    BY <1>2, <2>1, OneMoreSigned DEF report
  <2>3. RequestOK'
    BY <1>1, <1>2, <1>3, <2>1, <2>2, ChecksFacts DEF RequestOK
  <2> QED BY <1>1, <1>2, <1>3, <1>4, <2>3 DEF PipelineInv
<1> QED BY <1>5, <1>6

\* No step of client, verifier, scan or world breaks the invariant.
LEMMA PipelineInvNext == PipelineInv /\ [PipelineNext]_pipelineVars => PipelineInv'
PROOF
<1> SUFFICES ASSUME PipelineInv, [PipelineNext]_pipelineVars PROVE PipelineInv'
  OBVIOUS
<1>1. /\ RequestOK /\ TodayOK
      /\ verifier = "idle" => NoRequest
      /\ verifier # "idle" => pc = "listing" /\ submitted # <<>>
  BY DEF PipelineInv
<1>2. ASSUME UNCHANGED <<vars, now, evidence>>
      PROVE  Listing' = Listing /\ pc' = pc /\ TodayOK'
  <2>1. Listing' = Listing /\ pc' = pc /\ now' = now /\ kicked' = kicked
    BY <1>2 DEF vars, progress, Listing, Reported, world
  <2> QED BY <1>1, <1>2, <2>1, EvidenceSame DEF TodayOK, WorldsToday, vars
<1>3. CASE UNCHANGED pipelineVars
  <2>1. /\ UNCHANGED <<vars, now, evidence>>
        /\ UNCHANGED <<verifier, submitted, i, check, reports, unanswered>>
    BY <1>3 DEF pipelineVars, verifierVars, request
  <2> QED BY <1>1, <1>2, <2>1 DEF PipelineInv, RequestOK, NoRequest
<1>4. CASE Scan
  <2>1. /\ Next
        /\ UNCHANGED <<world, now, evidence, verifier, submitted, i, check, reports, unanswered>>
    BY <1>4 DEF Scan, Next, verifierVars, request
  <2>2. verifier = "idle"
    BY <1>1, <2>1, EndedScanStays DEF Outcomes
  <2>3. RequestOK' /\ NoRequest'
    BY <1>1, <2>1, <2>2 DEF RequestOK, NoRequest
  <2>4. TodayOK'
    BY <1>1, <2>1, EvidenceSame DEF TodayOK, WorldsToday, world
  <2> QED BY <2>1, <2>2, <2>3, <2>4 DEF PipelineInv
<1>5. CASE Submit
  <2>1. PICK n \in 1 .. MaxReports : \E body \in [1 .. n -> Listing] : Receive(body)
    BY <1>5 DEF Submit
  <2>2. PICK body \in [1 .. n -> Listing] : Receive(body)
    BY <2>1
  <2>3. /\ pc = "listing" /\ UNCHANGED <<vars, now, evidence, i, check, reports, unanswered>>
        /\ verifier = "idle" /\ verifier' = "checking" /\ submitted' = body /\ body # <<>>
    BY <1>5, <2>2 DEF Submit, Receive
  <2>4. body \in Seq(Listing) /\ Len(body) \in Nat
    BY <2>1, <2>2, MaxReportsAssumption
  <2>5. i' = 1 /\ check' = 1 /\ reports' = <<>> /\ unanswered' = FALSE
    BY <1>1, <2>3 DEF NoRequest
  <2>6. RequestOK'
    <3>1. /\ reports' = SubSeq(submitted', 1, i' - 1) /\ i' \in 1 .. Len(submitted') + 1
          /\ check' \in 1 .. Len(AllChecks)
      BY <2>3, <2>4, <2>5, NothingSigned
    <3> QED BY <1>2, <2>3, <2>4, <2>5, <3>1 DEF RequestOK
  <2> QED BY <1>2, <2>3, <2>6 DEF PipelineInv
<1>6. CASE WorldMovesOn
  <2>1. /\ verifier = "idle"
        /\ UNCHANGED <<vars, evidence, verifier, submitted, i, check, reports, unanswered>>
    BY <1>6 DEF WorldMovesOn, verifierVars, request
  <2>2. Listing' = Listing
    BY <2>1 DEF vars, progress, Listing, Reported
  <2>3. TodayOK'
    BY <1>1, <1>6, <2>1, TodayMovesOn, EvidenceSame DEF TodayOK, vars
  <2> QED BY <1>1, <2>1, <2>2, <2>3 DEF PipelineInv, RequestOK, NoRequest
<1>7. CASE Verify
  <2>1. UNCHANGED <<vars, now, evidence>>
    BY <1>7 DEF Verify
  <2>2. ASSUME NEW reached \in BOOLEAN, Pass(reached) PROVE PipelineInv'
    BY <2>1, <2>2, PassStep
  <2>3. ASSUME NEW reached \in BOOLEAN, Refuse(reached) \/ Throw(reached) PROVE PipelineInv'
    <3>1. /\ verifier = "checking" /\ i <= Len(submitted) /\ verifier' \in {"refused", "down"}
          /\ UNCHANGED <<submitted, i, check, reports>>
          /\ unanswered' \in BOOLEAN
      BY <2>3 DEF Refuse, Throw, Examine
    <3> QED BY <1>1, <1>2, <2>1, <3>1 DEF PipelineInv, RequestOK
  <2>4. CASE Answer
    <3>1. /\ verifier = "checking" /\ i = Len(submitted) + 1 /\ verifier' = "signed"
          /\ UNCHANGED <<submitted, i, check, reports, unanswered>>
      BY <2>4 DEF Answer, request
    <3> QED BY <1>1, <1>2, <2>1, <3>1 DEF PipelineInv, RequestOK
  <2> QED BY <1>7, <2>2, <2>3, <2>4 DEF Verify, Validate
<1>8. CASE Recover
  <2>1. UNCHANGED <<vars, now, evidence>> /\ verifier' = "idle" /\ NoRequest'
    BY <1>8 DEF Recover, BackToIdle, NoRequest
  <2>2. RequestOK'
    <3>1. /\ submitted' = <<>> /\ i' = 1 /\ check' = 1 /\ reports' = <<>> /\ unanswered' = FALSE
          /\ submitted' \in Seq(Listing')
      BY <2>1 DEF NoRequest
    <3>2. /\ reports' = SubSeq(submitted', 1, i' - 1) /\ i' \in 1 .. Len(submitted') + 1
          /\ check' \in 1 .. Len(AllChecks)
      BY <3>1, NothingSigned
    <3> QED BY <2>1, <3>1, <3>2 DEF RequestOK
  <2> QED BY <1>2, <2>1, <2>2 DEF PipelineInv
<1> QED BY <1>3, <1>4, <1>5, <1>6, <1>7, <1>8 DEF PipelineNext

-------------------------------------------------------------------------------
(* The verdicts of the verifier: VerdictInv is inductive beside PipelineInv. *)

\* Nothing speaks against the reports signed so far, the report at hand has passed the
\* checks behind it, and something speaks against the one that ended a request.
VerdictInv ==
    /\ verifier \in {"checking", "signed"} => \A j \in 1 .. i - 1 : ~Disputed(submitted[j])
    /\ verifier = "checking" /\ i <= Len(submitted) =>
        check \in ChecksOf(type) /\ \A k \in ChecksOf(type) : k < check => Passed(k)
    /\ OnlyDisputedRefused

\* What speaks against a report is a matter of world, evidence and day.
LEMMA DisputedSame ==
    ASSUME UNCHANGED <<vars, now, evidence>>
    PROVE  \A r : Disputed(r)' <=> Disputed(r)
PROOF
<1>1. history' = history /\ now' = now /\ paidAsCommitted' = paidAsCommitted
  BY DEF vars, world, evidence
<1>2. \A s : Validation!Audit!HighestRequested(s)' = Validation!Audit!HighestRequested(s)
  BY <1>1 DEF Validation!Audit!HighestRequested, Validation!Audit!Max
<1>3. \A key : Validation!OptedOutNow(key)' <=> Validation!OptedOutNow(key)
  BY <1>1 DEF Validation!OptedOutNow
<1> QED BY <1>1, <1>2, <1>3 DEF Disputed, ProposerPenalties, FeeVerdicts, FirstSlot

\* So is what the checks of the report at hand say.
LEMMA PassedSame ==
    ASSUME UNCHANGED <<vars, now, evidence>>, submitted' = submitted, i' = i
    PROVE  \A k : Passed(k)' <=> Passed(k)
PROOF
<1>1. /\ history' = history /\ duty' = duty /\ now' = now /\ paidAsCommitted' = paidAsCommitted
      /\ slotHeaders' = slotHeaders /\ slotDeliveries' = slotDeliveries
  BY DEF vars, world, evidence
<1>2. report' = report /\ type' = type /\ slot' = slot
  BY DEF report, type, slot
<1>3. highestOfSlot' = highestOfSlot
  BY <1>1, <1>2 DEF highestOfSlot
<1>4. StillUnderpaid' <=> StillUnderpaid
  <2>1. \A s : BlockHash(s)' = BlockHash(s)
    BY WorldSame DEF vars
  <2>2. \A s : BuilderSubmissions(s)' = BuilderSubmissions(s)
    BY <1>1 DEF BuilderSubmissions
  <2> QED BY <1>1, <1>2, <1>3, <2>1, <2>2 DEF StillUnderpaid
<1>5. (HasAlternative' <=> HasAlternative) /\ (Cleared' <=> Cleared)
      /\ (ToPayoutPool' <=> ToPayoutPool)
  BY <1>1, <1>2, <1>3 DEF HasAlternative, Cleared, ToPayoutPool
<1>6. \A reached : VerdictRefused(reached)' <=> VerdictRefused(reached)
  BY <1>1, <1>2, <1>3, <1>4, <1>5 DEF VerdictRefused, ProbeMissed, FeeVerdicts
<1>7. \A reached : VerdictThrows(reached)' <=> VerdictThrows(reached)
  BY <1>1, <1>2, <1>5 DEF VerdictThrows, FeeVerdicts
<1>8. \A name, reached : Refuses(name, reached)' <=> Refuses(name, reached)
  BY <1>1, <1>2, <1>3, <1>5, <1>6 DEF Refuses
<1>9. \A name, reached : Throws(name, reached)' <=> Throws(name, reached)
  BY <1>1, <1>2, <1>5, <1>7 DEF Throws
<1> QED BY <1>8, <1>9 DEF Passed

\* The report at hand is one of the listing.
LEMMA AtHand ==
    ASSUME ScanResult, RequestOK, i <= Len(submitted)
    PROVE  WellFounded(report)
PROOF
<1>1. report \in Listing
  BY DEF RequestOK, report
<1> QED BY <1>1, ReportsWellFounded

\* A report passes one check more; when none is left, nothing speaks against it.
LEMMA PassVerdict ==
    ASSUME ScanResult, PipelineInv, VerdictInv, NEW reached, Pass(reached),
           UNCHANGED <<vars, now, evidence>>
    PROVE  VerdictInv'
PROOF
<1>1. /\ verifier = "checking" /\ i <= Len(submitted) /\ reached \in BOOLEAN
      /\ ~Throws(current, reached) /\ ~Refuses(current, reached)
      /\ verifier' = "checking" /\ submitted' = submitted
  BY DEF Pass, Examine, Answered
<1>2. /\ i \in 1 .. Len(submitted) /\ Len(submitted) \in Nat
      /\ TodayOK /\ WellFounded(report)
      /\ \A j \in 1 .. i - 1 : ~Disputed(submitted[j])
      /\ check \in ChecksOf(type) /\ \A k \in ChecksOf(type) : k < check => Passed(k)
  BY <1>1, AtHand DEF PipelineInv, RequestOK, VerdictInv
<1>3. Passed(check)
  BY <1>1 DEF Passed, current
<1>4. ChecksOf(type) \subseteq 1 .. 15 /\ check \in 1 .. 15
  BY <1>2, ChecksApply
<1>5. \A r : Disputed(r)' <=> Disputed(r)
  BY DisputedSame
<1>6. OnlyDisputedRefused'
  BY <1>1 DEF OnlyDisputedRefused
<1>7. CASE checksLeft # {}
  <2>1. check' = Min(checksLeft) /\ i' = i
    BY <1>7 DEF Pass
  <2>2. type' = type /\ \A k : Passed(k)' <=> Passed(k)
    BY <1>1, <2>1, PassedSame DEF type, report
  <2>3. check' \in ChecksOf(type) /\ check' \in 1 .. 15 /\ \A k \in checksLeft : check' <= k
    BY <1>7, <2>1, NextCheck DEF checksLeft
  <2>4. ASSUME NEW k \in ChecksOf(type), k < check' PROVE Passed(k)
    <3>1. k \notin checksLeft
      BY <1>4, <2>3, <2>4
    <3>2. k < check \/ k = check
      BY <1>4, <3>1 DEF checksLeft
    <3> QED BY <1>2, <1>3, <3>2
  <2>5. \A j \in 1 .. i' - 1 : ~Disputed(submitted[j])'
    BY <1>1, <1>2, <1>5, <2>1
  <2> QED BY <1>1, <1>6, <2>2, <2>3, <2>4, <2>5 DEF VerdictInv
<1>8. CASE checksLeft = {}
  <2>1. check' = 1 /\ i' = i + 1
    BY <1>8 DEF Pass
  <2>2. ASSUME NEW k \in ChecksOf(type) PROVE Passed(k)
    <3>1. k < check \/ k = check
      BY <1>4, <1>8 DEF checksLeft
    <3> QED BY <1>2, <1>3, <3>1
  <2>3. ~Disputed(report)
    BY <1>2, <2>2, PassedUndisputed
  <2>4. \A j \in 1 .. i' - 1 : ~Disputed(submitted[j])'
    <3>1. \A j \in 1 .. i' - 1 : j \in 1 .. i - 1 \/ j = i
      BY <1>2, <2>1
    <3> QED BY <1>1, <1>2, <1>5, <2>3, <3>1 DEF report
  <2>5. check' \in ChecksOf(type') /\ \A k \in ChecksOf(type') : ~(k < check')
    BY <2>1, ChecksApply
  <2> QED BY <1>1, <1>6, <2>4, <2>5 DEF VerdictInv
<1> QED BY <1>7, <1>8

\* A check that stops a report whose every fetch was answered has a reason.
LEMMA StopVerdict ==
    ASSUME ScanResult, PipelineInv, VerdictInv, NEW reached, Refuse(reached) \/ Throw(reached),
           UNCHANGED <<vars, now, evidence>>
    PROVE  VerdictInv'
PROOF
<1>1. /\ verifier = "checking" /\ i <= Len(submitted) /\ reached \in BOOLEAN
      /\ Throws(current, reached) \/ Refuses(current, reached)
      /\ unanswered' = (unanswered \/ ~reached)
      /\ verifier' \in {"refused", "down"} /\ submitted' = submitted /\ i' = i
  BY DEF Refuse, Throw, Examine, Answered
<1>2. TodayOK /\ WellFounded(report) /\ check \in ChecksOf(type)
  BY <1>1, AtHand DEF PipelineInv, VerdictInv
<1>3. ~unanswered' => Disputed(report)
  BY <1>1, <1>2, StoppedDisputed
<1>4. ~unanswered' => Disputed(submitted[i])'
  BY <1>1, <1>3, DisputedSame DEF report
<1> QED BY <1>1, <1>4 DEF VerdictInv, OnlyDisputedRefused

\* No step of client, verifier, scan or world breaks VerdictInv.
LEMMA VerdictInvNext ==
    ScanResult /\ PipelineInv /\ VerdictInv /\ [PipelineNext]_pipelineVars => VerdictInv'
PROOF
<1> SUFFICES ASSUME ScanResult, PipelineInv, VerdictInv, [PipelineNext]_pipelineVars
             PROVE  VerdictInv'
  OBVIOUS
<1>1. CASE UNCHANGED pipelineVars
  <2>1. /\ UNCHANGED <<vars, now, evidence>>
        /\ UNCHANGED <<verifier, submitted, i, check, reports, unanswered>>
    BY <1>1 DEF pipelineVars, verifierVars, request
  <2>2. /\ \A r : Disputed(r)' <=> Disputed(r)
        /\ \A k : Passed(k)' <=> Passed(k)
        /\ type' = type
    BY <2>1, DisputedSame, PassedSame DEF type, report
  <2> QED BY <2>1, <2>2 DEF VerdictInv, OnlyDisputedRefused
<1>2. CASE Scan
  <2>1. Next /\ verifier' = verifier
    BY <1>2 DEF Scan, Next, verifierVars
  <2>2. verifier = "idle"
    BY <2>1, EndedScanStays DEF Outcomes, PipelineInv
  <2> QED BY <2>1, <2>2 DEF VerdictInv, OnlyDisputedRefused
<1>3. CASE Submit
  <2>1. verifier' = "checking" /\ verifier = "idle" /\ i' = i /\ check' = check
    BY <1>3 DEF Submit, Receive
  <2>2. i' = 1 /\ check' = 1
    BY <2>1 DEF PipelineInv, NoRequest
  <2>3. check' \in ChecksOf(type') /\ \A k \in ChecksOf(type') : ~(k < check')
    BY <2>2, ChecksApply
  <2> QED BY <2>1, <2>2, <2>3 DEF VerdictInv, OnlyDisputedRefused
<1>4. CASE WorldMovesOn \/ Recover
  <2>1. verifier' = "idle"
    BY <1>4 DEF WorldMovesOn, Recover, BackToIdle, verifierVars
  <2> QED BY <2>1 DEF VerdictInv, OnlyDisputedRefused
<1>5. CASE Verify
  <2>1. UNCHANGED <<vars, now, evidence>>
    BY <1>5 DEF Verify
  <2>2. ASSUME NEW reached \in BOOLEAN, Pass(reached) PROVE VerdictInv'
    BY <2>1, <2>2, PassVerdict
  <2>3. ASSUME NEW reached \in BOOLEAN, Refuse(reached) \/ Throw(reached) PROVE VerdictInv'
    BY <2>1, <2>3, StopVerdict
  <2>4. CASE Answer
    <3>1. verifier = "checking" /\ verifier' = "signed" /\ submitted' = submitted /\ i' = i
      BY <2>4 DEF Answer, request
    <3> QED BY <2>1, <3>1, DisputedSame DEF VerdictInv, OnlyDisputedRefused
  <2> QED BY <1>5, <2>2, <2>3, <2>4 DEF Verify, Validate
<1> QED BY <1>1, <1>2, <1>3, <1>4, <1>5 DEF PipelineNext

\* What a signature is put under has nothing against it.
LEMMA SignedChecked ==
    ASSUME PipelineInv, VerdictInv
    PROVE  SignedUndisputed
PROOF
<1> QED BY DEF SignedUndisputed, PipelineInv, RequestOK, VerdictInv

\* A report of a right listing, with nothing against it, is substantiated.
LEMMA ListedSubstantiated ==
    ASSUME ScanResult, TodayOK, NEW r \in Listing, ~Disputed(r)
    PROVE  Validation!Substantiated(r)
PROOF
<1>1. WellFounded(r)
  BY ReportsWellFounded
<1>2. /\ Validation!MissedSlotPenalties = MissedSlotPenalties
      /\ Validation!ProposerPenalties = ProposerPenalties
  BY DEF Validation!MissedSlotPenalties, MissedSlotPenalties,
         Validation!ProposerPenalties, ProposerPenalties
<1>3. ASSUME r.internalPenaltyType = "BUILDER_UNDERPAYMENT"
      PROVE  /\ Validation!Audit!UnderpaidSlot(r.slot) /\ r.blsKey = duty[r.slot]
             /\ r.amount = 2 * Validation!Audit!HighestRequested(r.slot)
  BY <1>1, <1>3, SameFaults DEF WellFounded, SlotPenalties
<1>4. ASSUME r.internalPenaltyType \in MissedSlotPenalties
      PROVE  /\ Validation!Audit!MissedWithBids(r.slot) /\ r.blsKey = duty[r.slot]
             /\ Validation!Audit!BlameFits(r)
  BY <1>1, <1>4, SameFaults DEF WellFounded, SlotPenalties, MissedSlotPenalties
<1>5. ASSUME r.internalPenaltyType = "PROPOSER_SLASHED_OR_LOW_EFFECTIVE"
      PROVE  r.blsKey \in now.kicked /\ r.amount = 0
  BY <1>1, <1>5 DEF WellFounded, TodayOK
<1>6. r.internalPenaltyType \in ProposerPenalties => ~Validation!OptedOutNow(r.blsKey)
  BY DEF Disputed
<1>7. r.internalPenaltyType \in {"PROPOSER_OFFLINE", "PROPOSER_DID_NOT_SIGN"} =>
        r.amount = now.proposerAmount
  BY DEF Disputed, FeeVerdicts
<1> QED BY <1>2, <1>3, <1>4, <1>5, <1>6, <1>7 DEF Validation!Substantiated

\* Every step of the pipeline takes a request, signs all of it, signs nothing, or
\* changes nothing that ReportValidation sees.
LEMMA ValidationSteps ==
    ASSUME ScanResult, PipelineInv, VerdictInv, [PipelineNext]_pipelineVars
    PROVE  [Validation!Next]_(Validation!validationVars)
PROOF
<1> DEFINE signed == IF verifier = "signed" THEN reports ELSE <<>>
<1> USE DEF Validation!validationVars
<1>1. CASE UNCHANGED <<verifier, submitted, reports>>
  BY <1>1
<1>2. CASE UNCHANGED pipelineVars \/ Scan \/ WorldMovesOn
  BY <1>1, <1>2 DEF pipelineVars, Scan, WorldMovesOn, verifierVars, request
<1>3. CASE Submit
  BY <1>3 DEF Submit, Receive, Validation!Next, Validation!Submit
<1>4. CASE Verify
  <2>1. ASSUME NEW reached \in BOOLEAN, Pass(reached)
        PROVE  [Validation!Next]_(Validation!validationVars)
    BY <2>1 DEF Pass, Examine
  <2>2. ASSUME NEW reached \in BOOLEAN, Refuse(reached) \/ Throw(reached)
        PROVE  [Validation!Next]_(Validation!validationVars)
    BY <2>2 DEF Refuse, Throw, Examine, Validation!Next, Validation!SignNone
  <2>3. CASE Answer
    <3>1. /\ verifier = "checking" /\ verifier' = "signed" /\ i = Len(submitted) + 1
          /\ submitted' = submitted /\ reports' = reports
      BY <2>3 DEF Answer, request
    <3>2. submitted \in Seq(Listing) /\ reports = submitted
      BY <3>1, OneMoreSigned DEF PipelineInv, RequestOK
    <3>3. \A k \in DOMAIN submitted : submitted[k] \in Listing /\ ~Disputed(submitted[k])
      BY <3>1, <3>2 DEF VerdictInv
    <3>4. \A k \in DOMAIN submitted : Validation!Substantiated(submitted[k])
      BY <3>3, ListedSubstantiated DEF PipelineInv
    <3> QED BY <3>1, <3>2, <3>4 DEF Validation!Next, Validation!SignAll
  <2> QED BY <1>4, <2>1, <2>2, <2>3 DEF Verify, Validate
<1>5. CASE Recover
  BY <1>5 DEF Recover, BackToIdle, Validation!Next, Validation!Forget
<1> QED BY <1>2, <1>3, <1>4, <1>5 DEF PipelineNext

\* The scan inside the pipeline is a scan, and the invariants of request and verdict hold.
THEOREM PipelineInvariant == PipelineSpec => [](ScanResult /\ PipelineInv /\ VerdictInv)
PROOF
<1>1. PipelineInit => ScanResult /\ PipelineInv /\ VerdictInv
  <2> SUFFICES ASSUME PipelineInit PROVE ScanResult /\ PipelineInv /\ VerdictInv
    OBVIOUS
  <2>1. Init /\ verifier = "idle"
    BY DEF PipelineInit, VerifierInit
  <2>2. FoundedInv
    BY <2>1 DEF Init, ScanInit, FoundedInv
  <2>3. VerdictInv
    BY <2>1 DEF VerdictInv, OnlyDisputedRefused
  <2> QED BY <2>1, <2>2, <2>3, TypeInit, ScanInvInit, AuditInvInit, PipelineInvInit DEF ScanResult
<1>2. ScanResult /\ [PipelineNext]_pipelineVars => ScanResult'
  BY TypeNext, ScanInvNext, AuditInvNext, FoundedInvNext, PipelineStepsOfScan DEF ScanResult
<1>3. ScanResult /\ PipelineInv /\ VerdictInv /\ [PipelineNext]_pipelineVars
        => ScanResult' /\ PipelineInv' /\ VerdictInv'
  BY <1>2, PipelineInvNext, VerdictInvNext
<1> QED BY <1>1, <1>3, PTL DEF PipelineSpec

\* A request is a list of reports of the listing, and what is signed of it is the part
\* before the report that is checked.
THEOREM RequestsOrderly == PipelineSpec => []RequestOK
PROOF
<1>1. PipelineInv => RequestOK
  BY DEF PipelineInv
<1> QED BY <1>1, PipelineInvariant, PTL

\* Reporter and verifier agree: the verifier refuses a report of a scan, or goes down on
\* it, only when a fetch failed or for one of the reasons of Disputed.
THEOREM VerifierAgrees == PipelineSpec => []OnlyDisputedRefused
PROOF
<1>1. VerdictInv => OnlyDisputedRefused
  BY DEF VerdictInv
<1> QED BY <1>1, PipelineInvariant, PTL

\* No check is passed over on the way to a signature: a report with one of the reasons
\* of Disputed against it is never signed, whatever fetches fail.
THEOREM NoDisputedSigned == PipelineSpec => []SignedUndisputed
PROOF
<1>1. PipelineInv /\ VerdictInv => SignedUndisputed
  BY SignedChecked
<1> QED BY <1>1, PipelineInvariant, PTL

\* POST /validate implements ReportValidation: all reports of a request are signed or
\* none, and only substantiated reports whose proposer is not exempt by now.
THEOREM ValidationImplemented == PipelineSpec => ImplementsValidation
PROOF
<1>1. PipelineInit => Validation!Init
  BY DEF PipelineInit, VerifierInit, NoRequest, Validation!Init
<1>2. ScanResult /\ PipelineInv /\ VerdictInv /\ [PipelineNext]_pipelineVars
        => [Validation!Next]_(Validation!validationVars)
  BY ValidationSteps
<1> QED BY <1>1, <1>2, PipelineInvariant, PTL
        DEF PipelineSpec, ImplementsValidation, Validation!Spec
===============================================================================
