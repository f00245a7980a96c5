------------------------------- MODULE PbsEpoch -------------------------------
(***************************************************************************)
(* The world one scan of an epoch looks at, outside the repository: what   *)
(* builders, proposers and the relay did in each slot, and what the beacon *)
(* node, the registry and the payout pool answer about it. The code only   *)
(* reads it, and reads each part of it once per scan, so the variables of  *)
(* this module are chosen in WorldInit and never change.                   *)
(***************************************************************************)
EXTENDS RelayAnalysis, SequencesExt

CONSTANTS
    Proposers,          \* validators that may have a duty in the epoch
    Builders,           \* builder wallets
    Outsider,           \* a wallet that is no builder's
    ZERO_ADDRESS,
    Epoch,              \* the epoch scanned
    SLOTS_IN_EPOCH,
    FinalizedEpochs,    \* epochs the beacon node may report as finalized
    Histories           \* what may happen in a slot

Wallets == Builders \union {Outsider}
Recipients == {"payoutPool", "alternative", "other"}

\* The last transaction of a block. It is sent to Null when it creates a contract.
Transaction ==
    [to : Recipients \union {Null}, from : Wallets, value : Nat, reverted : BOOLEAN]

(***************************************************************************)
(* The history of a slot. Builders bid; the proposer requests the best     *)
(* header of the moment any number of times and signs at most one of those *)
(* it was given (signed = 0: none). Then the slot is missed, or its block  *)
(* is the one signed ("pon"), or, if nothing was signed, one the proposer  *)
(* built itself ("local").                                                 *)
(***************************************************************************)
BestSoFar(bids, k) == \A j \in 1 .. k - 1 : bids[j].value < bids[k].value

WellFormed(h) ==
    /\ h.bids \in Seq([builder : Builders, value : Nat])
    /\ h.requested \subseteq {k \in DOMAIN h.bids : BestSoFar(h.bids, k)}
    /\ h.signed \in h.requested \union {0}
    /\ h.block \in {"missed", "pon", "local"}
    /\ h.block = "pon" => h.signed # 0
    /\ h.block = "local" => h.signed = 0
    /\ h.lastTx \in Transaction \union {Null}
    /\ h.block = "missed" => h.lastTx = Null

ASSUME EpochAssumption == Epoch \in Nat /\ SLOTS_IN_EPOCH \in Nat \ {0}
ASSUME FinalizedAssumption == FinalizedEpochs \subseteq Nat
ASSUME HistoriesAssumption == \A h \in Histories : WellFormed(h)
ASSUME AddressAssumption ==
    /\ ZERO_ADDRESS \notin Wallets \union Recipients
    /\ Null \notin Wallets \union Recipients \union Proposers \union {ZERO_ADDRESS}
ASSUME NullIsNoValue == Null \notin Nat

\* utils.epochToSlot: the place in the epoch is counted from 1.
epochToSlot(epoch, place) == epoch * SLOTS_IN_EPOCH + (place - 1)

FirstSlot == epochToSlot(Epoch, 1)
Slots == FirstSlot .. epochToSlot(Epoch, SLOTS_IN_EPOCH)

\* What the relay's lists hold: a submission, and a header request or a delivery.
Submission ==
    [Slot : Slots, BuilderPubkey : Builders, BuilderBidHash : Slots \X Nat, BidValue : Nat]
Record ==
    [Slot : Slots, BlockHash : Slots \X Nat, BidValue : Nat, ProposerPubkey : Proposers]

ASSUME NullIsNoRecord ==
    Null \notin Submission /\ Null \notin Record /\ Null \notin Slots \X Nat

VARIABLES
    finalized,                  \* the finalized epoch the beacon node reports
    duty,                       \* slot -> the validator selected to propose in it
    pool,                       \* validators registered in the payout pool
    alternativeFeeRecipient,    \* validator -> its alternative fee recipient
    kicked,                     \* validators slashed or with a low effective balance
    history,                    \* slot -> what happened in it
    headerRequests,             \* the relay's list of headers handed out in the epoch
    payloadDeliveries           \* and of payloads delivered for signed headers

world == <<finalized, duty, pool, alternativeFeeRecipient, kicked, history,
           headerRequests, payloadDeliveries>>

\* Mutant of ponSlots: the proposers are not looked up in the pool.
allSlots == Slots

\* utils.ponSlots: the slots of the epoch whose proposer is in the payout pool.
ponSlots == {s \in Slots : duty[s] \in pool}

(***************************************************************************)
(* The answers of the relay. The block of bid k in slot s has hash         *)
(* <<s, k>>, a block the proposer built itself <<s, 0>>. Submissions come  *)
(* in the order of the bids, the records of the two other lists in any.    *)
(***************************************************************************)
BlockHash(s) ==
    IF history[s].block = "missed" THEN Null
    ELSE IF history[s].block = "pon" THEN <<s, history[s].signed>>
    ELSE <<s, 0>>

BuilderSubmissions(s) ==
    [k \in DOMAIN history[s].bids |->
        [Slot |-> s, BuilderPubkey |-> history[s].bids[k].builder,
         BuilderBidHash |-> <<s, k>>, BidValue |-> history[s].bids[k].value]]

RelayRecord(s, k) ==
    [Slot |-> s, BlockHash |-> <<s, k>>, BidValue |-> history[s].bids[k].value,
     ProposerPubkey |-> duty[s]]

RequestedHeaders == UNION {{RelayRecord(s, k) : k \in history[s].requested} : s \in Slots}

SignedPayloads ==
    {RelayRecord(s, history[s].signed) : s \in {t \in Slots : history[t].signed # 0}}

WorldInit ==
    /\ finalized \in FinalizedEpochs
    /\ duty \in [Slots -> Proposers]
    /\ pool \in SUBSET Proposers
    /\ alternativeFeeRecipient \in [Proposers -> {ZERO_ADDRESS, "alternative"}]
    /\ kicked \in SUBSET Proposers
    /\ history \in [Slots -> Histories]
    /\ headerRequests \in SetToSeqs(RequestedHeaders)
    /\ payloadDeliveries \in SetToSeqs(SignedPayloads)
===============================================================================
