----------------------------- MODULE ReportPipeline -----------------------------
(***************************************************************************)
(* From the scan to the signatures: a client scans the epoch, submits      *)
(* reports of the listing to the verifier, any of them and as often as it  *)
(* likes, and the world may have moved on in between.                      *)
(***************************************************************************)
EXTENDS Verifier

CONSTANT MaxReports          \* bound: reports in a request

ASSUME MaxReportsAssumption == MaxReports \in Nat
ASSUME NullIsNoBlock == Null \notin {"number", "NaN"}

pipelineVars == <<vars, now, evidence, verifierVars>>

PipelineInit == Init /\ VerifierInit

Scan == ScanNext /\ UNCHANGED <<world, now, evidence, verifierVars>>

\* What a report of the listing says of block and penaltyType. The block of a missed
\* slot is the result of LastExecutionBlock.
Reported(p) ==
    {[internalPenaltyType |-> p.internalPenaltyType,
      penaltyType |-> INTERNAL_PENALTY_TYPE_TO_CONTRACT_TYPE[p.internalPenaltyType],
      slot |-> p.slot, blsKey |-> p.blsKey, builder |-> p.builder, amount |-> p.amount,
      rpbs |-> p.rpbs, block |-> block] :
        block \in IF p.internalPenaltyType \in MissedSlotPenalties
                  THEN {"number", "NaN", Null} ELSE {"number"}}

Listing == UNION {Reported(p) : p \in penalties}

\* The client keeps to the order of the slots and submits no penalty twice.
Before(r, q) ==
    \/ r.slot < q.slot
    \/ r.slot = q.slot /\ r.internalPenaltyType # q.internalPenaltyType
    \/ r.slot = q.slot /\ r.blsKey # q.blsKey

Submit ==
    /\ pc = "listing"
    /\ \E n \in 1 .. MaxReports : \E body \in [1 .. n -> Listing] :
        /\ \A j, k \in 1 .. n : j < k => Before(body[j], body[k])
        /\ Receive(body)
    /\ UNCHANGED <<vars, now, evidence>>

(***************************************************************************)
(* One thing may change after the scan: finality advances, a proposer      *)
(* registers an alternative fee recipient or withdraws it, a validator is  *)
(* slashed, somebody is no longer reportable, the fee history is longer.   *)
(***************************************************************************)
Unchanged == \E amount \in ProposerAmounts : now = AtScan(amount)

Today(field, values) == \E value \in values : now' = [now EXCEPT ![field] = value]

WorldMovesOn ==
    /\ pc = "listing" /\ verifier = "idle" /\ Unchanged
    /\ \/ Today("finalized", {now.finalized + 1})
       \/ Today("alternativeFeeRecipient", [Proposers -> {ZERO_ADDRESS, "alternative"}])
       \/ Today("kicked", {now.kicked \union {p} : p \in Proposers})
       \/ Today("reportableProposers", {Proposers \ {p} : p \in Proposers})
       \/ Today("reportableBuilders", {Wallets \ {b} : b \in Builders})
       \/ Today("proposerAmount", {now.proposerAmount + 1})
    /\ UNCHANGED <<vars, evidence, verifierVars>>

Verify == Validate /\ UNCHANGED <<vars, now, evidence>>

Recover == BackToIdle /\ UNCHANGED <<vars, now, evidence>>

PipelineNext == Scan \/ Submit \/ WorldMovesOn \/ Verify \/ Recover

\* Fairness: the verifier's requests are answered or fail, as those of a scan.
PipelineSpec == PipelineInit /\ [][PipelineNext]_pipelineVars /\ WF_pipelineVars(Verify)

-------------------------------------------------------------------------------
\* A request is a list of reports of the listing, checked up to report i, check by
\* check, and what is signed of it is the part before i.
RequestOK ==
    /\ verifier \in {"idle", "checking", "signed", "refused", "down"}
    /\ submitted \in Seq(Listing)
    /\ i \in 1 .. Len(submitted) + 1
    /\ check \in 1 .. Len(AllChecks)
    /\ reports = SubSeq(submitted, 1, i - 1)
    /\ unanswered \in BOOLEAN

Validation ==
    INSTANCE ReportValidation WITH
        outcome   <- pc,
        published <- penalties,
        status    <- verifier,
        body      <- submitted,
        signed    <- IF verifier = "signed" THEN reports ELSE <<>>

\* POST /validate implements ReportValidation: it signs all reports of a request or
\* none, whatever was signed before a check failed, and it signs no report of a scan
\* that is not substantiated or no longer counts because the registry changed. (That is
\* less than that its fault took place: see ReportValidation.)
ImplementsValidation == Validation!Spec

(***************************************************************************)
(* Why a report of a scan may be refused. Each of these is a reason that   *)
(* the code has; the properties below say that there is no other.          *)
(***************************************************************************)
Disputed(r) ==
    LET tx == history[r.slot].lastTx IN
    \/ now.finalized < Epoch + 2                 \* epoch 0 passes the reporter's gate early
    \/ now.finalized = Epoch + 2 /\ r.slot > FirstSlot      \* 64 slots, not 2 epochs
    \/ r.internalPenaltyType # "PROPOSER_SLASHED_OR_LOW_EFFECTIVE" /\ r.rpbs = Null
    \/ r.block # "number"
    \/ r.blsKey \notin now.reportableProposers
    \/ r.builder \in Wallets \ now.reportableBuilders
    \/ r.internalPenaltyType \in ProposerPenalties /\ Validation!OptedOutNow(r.blsKey)
    \/ r.internalPenaltyType \in FeeVerdicts /\ r.amount # now.proposerAmount
    \/ r.internalPenaltyType = "BUILDER_DIDNT_PUBLISH" /\ r.amount = 0   \* worthless bid
    \/ /\ r.internalPenaltyType = "BUILDER_UNDERPAYMENT"
       /\ \/ tx = Null \/ r.slot \notin paidAsCommitted
          \/ tx.to # "payoutPool"
          \/ tx.reverted /\ tx.value >= Validation!Audit!HighestRequested(r.slot)

\* Reporter and verifier agree: when every fetch is answered, a report of a scan is
\* refused, or brings the verifier down, only for one of the reasons above. The two
\* read other lists (an epoch's, a slot's) with other versions of web3, look up the
\* proposer in other ways and compute the amounts twice.
OnlyDisputedRefused ==
    verifier \in {"refused", "down"} /\ ~unanswered => Disputed(submitted[i])

\* The reasons are real ones: no report is signed that one of them speaks against. No
\* check that applies to a report is passed over on the way to its signature.
SignedUndisputed ==
    verifier = "signed" => \A j \in DOMAIN submitted : ~Disputed(submitted[j])

\* Every request is answered, or the process ends.
RequestsEnd == verifier = "checking" ~> verifier # "checking"

\* README, of builders: "Making an under payment to the payout pool or alternative fee
\* recipient". A builder that underpays the alternative fee recipient, with the very
\* transaction it committed to, and is reported for it while the world stands still,
\* has the report signed.
AlternativeUnderpaymentVerified ==
    verifier \in {"refused", "down"} /\ ~unanswered /\ Unchanged =>
        LET r == submitted[i] IN
            ~(/\ r.internalPenaltyType = "BUILDER_UNDERPAYMENT" /\ r.slot \in paidAsCommitted
              /\ history[r.slot].lastTx.to = "alternative" /\ OptedOut(r.blsKey)
              /\ r.rpbs # Null /\ r.slot = FirstSlot)
===============================================================================
