--------------------------- MODULE MCReportPipeline ---------------------------
EXTENDS ReportPipeline

Tx(to, value, reverted) == [to |-> to, from |-> "b1", value |-> value, reverted |-> reverted]

Slot(bids, requested, signed, block, lastTx) ==
    [bids |-> bids, requested |-> requested, signed |-> signed, block |-> block,
     lastTx |-> lastTx]

Bid(value) == [builder |-> "b1", value |-> value]

\* One kind of slot for each verdict and each way the verifier looks at it: headers
\* never requested, requested, signed; a worthless bid; every kind of payment.
MCHistories ==
    {Slot(<<Bid(1), Bid(2)>>, {1, 2}, 0, "missed", Null),
     Slot(<<Bid(0), Bid(1)>>, {1}, 1, "missed", Null),
     Slot(<<Bid(1), Bid(0)>>, {1}, 1, "missed", Null)}
    \union {Slot(<<Bid(2)>>, {1}, 1, "pon", lastTx) :
                lastTx \in {Null, Tx("payoutPool", 1, FALSE), Tx("payoutPool", 2, TRUE),
                            Tx("alternative", 1, FALSE)}}

\* The second slot, which is final for the verifier only once finality advances, has one
\* of two kinds: not signed, underpaid.
MCPipelineInit ==
    /\ PipelineInit
    /\ history[FirstSlot + 1] \in
            {Slot(<<Bid(2)>>, {1}, 0, "missed", Null),
             Slot(<<Bid(2)>>, {1}, 1, "pon", Tx("payoutPool", 1, FALSE))}

MCPipelineSpec ==
    MCPipelineInit /\ [][PipelineNext]_pipelineVars /\ WF_pipelineVars(Verify)
===============================================================================
