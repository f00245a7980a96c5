------------------------------ MODULE EpochAudit ------------------------------
(***************************************************************************)
(* What a scan of an epoch promises, whatever fails on the way: it ends    *)
(* with nothing, or publishes in one step a listing that is exact for      *)
(* every PoN slot of a final epoch. It is stated in terms of what happened *)
(* in the slots, not of the relay's lists. Of the blame for a missed slot  *)
(* it has what BlameFits says, which leaves open whether a header was      *)
(* signed: there the code and the documentation disagree.                  *)
(***************************************************************************)
EXTENDS PbsEpoch, PenaltyTypes

VARIABLES outcome, published

auditVars == <<world, outcome, published>>

Init == WorldInit /\ outcome = "running" /\ published = {}

\* The epoch is two epochs behind the finalized one.
Final == Epoch <= finalized - 2 \/ (Epoch = 0 /\ finalized = 0)

HighestRequested(s) ==
    IF history[s].requested = {} THEN 0
    ELSE Max({history[s].bids[k].value : k \in history[s].requested})

\* The slot's proposer is paid through the pool, or also directly when it has an
\* alternative fee recipient.
PaidTo(s) ==
    IF alternativeFeeRecipient[duty[s]] = ZERO_ADDRESS THEN {"payoutPool"}
    ELSE {"payoutPool", alternativeFeeRecipient[duty[s]]}

Credited(s) ==
    LET tx == history[s].lastTx IN
        IF tx = Null THEN 0 ELSE IF tx.to \in PaidTo(s) THEN tx.value ELSE 0

Reverted(s) == history[s].lastTx # Null /\ history[s].lastTx.reverted

UnderpaidSlot(s) ==
    /\ history[s].block = "pon"
    /\ HighestRequested(s) > 0
    /\ Reverted(s) \/ Credited(s) < HighestRequested(s)

MissedWithBids(s) == history[s].block = "missed" /\ history[s].bids # <<>>

ExemptAtScan(p) == alternativeFeeRecipient[p] # ZERO_ADDRESS

\* What the party blamed for a missed slot must have done: a proposer that is blamed is
\* not exempt; an offline one asked for no header worth anything; one that did not sign,
\* or whose builder did not publish, asked for one.
BlameFits(p) ==
    /\ p.internalPenaltyType \in ProposerPenalties => ~ExemptAtScan(duty[p.slot])
    /\ p.internalPenaltyType = "PROPOSER_OFFLINE" => HighestRequested(p.slot) = 0
    /\ p.internalPenaltyType = "PROPOSER_DID_NOT_SIGN" => history[p.slot].requested # {}
    /\ p.internalPenaltyType = "BUILDER_DIDNT_PUBLISH" =>
        /\ history[p.slot].requested # {}
        /\ p.amount = 2 * HighestRequested(p.slot)

VerdictsOn(s, listing) ==
    {p \in listing : p.internalPenaltyType \in SlotPenalties /\ p.slot = s}

ExactOn(s, verdicts) ==
    IF UnderpaidSlot(s)
    THEN \E p \in verdicts :
            /\ verdicts = {p}
            /\ p.internalPenaltyType = "BUILDER_UNDERPAYMENT"
            /\ p.blsKey = duty[s]
            /\ p.amount = 2 * HighestRequested(s)
    ELSE IF MissedWithBids(s)
    THEN \E p \in verdicts :
            /\ verdicts = {p}
            /\ p.internalPenaltyType \in MissedSlotPenalties
            /\ p.blsKey = duty[s]
            /\ BlameFits(p)
    ELSE verdicts = {}

\* A request about a validator that fails leaves it out, so only validators that
\* must be kicked, and are not exempt, are listed, not all of them. Being kicked costs
\* them no amount.
KickedOnly(listing) ==
    \A p \in listing : p.internalPenaltyType = "PROPOSER_SLASHED_OR_LOW_EFFECTIVE" =>
        p.blsKey \in pool \intersect kicked /\ ~ExemptAtScan(p.blsKey) /\ p.amount = 0

Exact(listing) ==
    /\ \A s \in ponSlots : ExactOn(s, VerdictsOn(s, listing))
    /\ \A s \in Slots \ ponSlots : VerdictsOn(s, listing) = {}
    /\ KickedOnly(listing)

Publish ==
    /\ outcome = "running" /\ outcome' = "listing"
    /\ Final
    /\ Exact(published')

GiveUp ==
    /\ outcome = "running" /\ outcome' \in {"error", "thrown"}
    /\ published' = {}

Next == (Publish \/ GiveUp) /\ UNCHANGED world

Spec == Init /\ [][Next]_auditVars
===============================================================================
