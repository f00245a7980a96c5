---------------------------- MODULE MCEpochReporter ----------------------------
EXTENDS EpochReporter

CONSTANTS
    BidLists,           \* lists of bids a slot may get
    Payments            \* last transactions a block may have

\* Every history made of these bids and payments.
MCHistories ==
    {h \in [bids : BidLists, requested : SUBSET (1 .. 2), signed : 0 .. 2,
            block : {"missed", "pon", "local"}, lastTx : Payments \union {Null}] :
        WellFormed(h)}

Tx(to, from, value, reverted) ==
    [to |-> to, from |-> from, value |-> value, reverted |-> reverted]

\* Up to two bids of different builders, worth nothing, less or more.
AnyTwoBids ==
    {<<>>} \union {<<[builder |-> "b1", value |-> v]>> : v \in 0 .. 2}
           \union {<<[builder |-> "b1", value |-> v], [builder |-> "b2", value |-> w]>> :
                        v, w \in 0 .. 2}

\* A payment to every kind of recipient, in full or in part, by either builder.
AnyPayment ==
    {Tx(to, "b1", value, FALSE) : to \in Recipients, value \in 1 .. 2} \union
    {Tx("payoutPool", "b2", 2, FALSE), Tx("payoutPool", "b1", 2, TRUE),
     Tx(Null, "outsider", 0, FALSE)}

\* One history of each kind, for the runs with several slots and proposers.
Slot(bids, requested, signed, block, lastTx) ==
    [bids |-> bids, requested |-> requested, signed |-> signed, block |-> block,
     lastTx |-> lastTx]

OneBid == <<[builder |-> "b1", value |-> 2]>>

KindsOfSlot ==
    {Slot(OneBid, {1}, 0, "missed", Null),
     Slot(OneBid, {1}, 1, "missed", Null),
     Slot(OneBid, {1}, 1, "pon", Tx("payoutPool", "b1", 2, FALSE)),
     Slot(OneBid, {1}, 1, "pon", Tx("payoutPool", "b1", 1, FALSE)),
     Slot(<<>>, {}, 0, "missed", Null)}

ProposerSymmetry == Permutations(Proposers)
===============================================================================
