---------------------------- MODULE MCRelayLoops ----------------------------
(***************************************************************************)
(* The two loops over the relay lists, one after the other and on the same *)
(* list of delivered headers, as the reporter and the verifier run them.   *)
(* The hash of a block is the slot and the value of its bid.               *)
(***************************************************************************)
EXTENDS HighestBid

CONSTANTS MaxHeaders, MaxSubmissions, MaxBid

VARIABLES
    args, k, foundHeaderRequest, foundPayloadDeliveredFromProposer,
    foundSubmission, lastFoundBuilderSubmission

Hashes == Slots \X (0 .. MaxBid)
ListsUpTo(n, S) == UNION {[1 .. m -> S] : m \in 0 .. n}

\* Every list of at most MaxHeaders headers with bids up to MaxBid, 0 included.
MCHeaderLists == ListsUpTo(MaxHeaders, [Slot : Slots, BidValue : 0 .. MaxBid])

RecordFor(hash) == [BlockHash |-> hash, ProposerPubkey |-> "proposer1"]
Requests(headers) ==
    [n \in DOMAIN headers |-> RecordFor(<<headers[n].Slot, headers[n].BidValue>>)]

\* Submissions for slot 1, whose proposer signs at most one payload, with and
\* without a block on chain.
ArgumentsFor(requestLists) ==
    [submissions : ListsUpTo(MaxSubmissions,
                    [BuilderBidHash : {1} \X (0 .. MaxBid), BuilderPubkey : {"builder1"}]),
     requests    : requestLists,
     deliveries  : ListsUpTo(1, {RecordFor(<<1, bid>>) : bid \in 0 .. MaxBid}),
     blockHash   : ({1} \X (0 .. MaxBid)) \union {Null}]

Match ==
    INSTANCE SubmissionMatch WITH
        i <- k,
        Arguments <- ArgumentsFor({Requests(headers) : headers \in HeaderLists})

ASSUME LoopArgumentsAssumption == Match!ArgumentsAssumption

matchVars == <<args, k, foundHeaderRequest, foundPayloadDeliveredFromProposer,
               foundSubmission, lastFoundBuilderSubmission>>

LoopsInit ==
    /\ Init
    /\ args \in ArgumentsFor({Requests(proposerDeliveredHeaders)})
    /\ Match!LoopInit

LoopsNext ==
    \/ Iterate /\ UNCHANGED matchVars
    \/ /\ i = Len(proposerDeliveredHeaders) + 1
       /\ Match!Next
       /\ UNCHANGED vars

LoopsSpec == LoopsInit /\ [][LoopsNext]_<<vars, matchVars>>

\* The invariants of SubmissionMatch, of its own loop: the types of its finds, that
\* it computes the operator BuilderSubmissionForSlot, and that a slot with a block
\* is never attributed another block.
FindsTypeOK == Match!FindsTypeOK
LoopComputesAttribution == Match!LoopComputesAttribution
ChainBlockAttribution == Match!ChainBlockAttribution
===============================================================================
