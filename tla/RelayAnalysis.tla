----------------------------- MODULE RelayAnalysis -----------------------------
(***************************************************************************)
(* What the code concludes from the three lists a relay returns: builder   *)
(* submissions, header requests and payload deliveries. The operators say  *)
(* what the loops of services/relay compute; HighestBid and                *)
(* SubmissionMatch run those loops and show that they compute exactly this.*)
(*                                                                         *)
(* A submission has Slot, BuilderPubkey, BuilderBidHash and BidValue, a    *)
(* header request Slot, BlockHash, BidValue and ProposerPubkey, a delivery *)
(* Slot, BlockHash and ProposerPubkey. Null stands for null and undefined. *)
(***************************************************************************)
EXTENDS Integers, Sequences, FiniteSetsExt

CONSTANT Null

\* JavaScript truthiness of a bid value.
Truthy(value) == value # Null /\ value # 0

(***************************************************************************)
(* The highest bid of the headers handed out for a slot.                   *)
(***************************************************************************)
BidValuesOf(headers, slot) ==
    {headers[j].BidValue : j \in {n \in DOMAIN headers : headers[n].Slot = slot}}

HighestValueHeader(headers, slot) ==
    IF BidValuesOf(headers, slot) = {} THEN Null ELSE Max(BidValuesOf(headers, slot))

(***************************************************************************)
(* The submission, header request and delivery attributed to a slot. Only  *)
(* submissions with the hash of the block on chain count when there is a   *)
(* block; all of them do for a missed slot. Both finds are kept from one   *)
(* submission to the next, so once a request and a delivery have been      *)
(* found the LAST submission considered is the one attributed, whatever    *)
(* its own hash.                                                           *)
(***************************************************************************)
\* Mutant of Considered: the hash of the block on chain is not compared.
ConsideredAll(submissions, blockHash) == DOMAIN submissions

Considered(submissions, blockHash) ==
    {i \in DOMAIN submissions : blockHash = Null \/ submissions[i].BuilderBidHash = blockHash}

WithHash(records, hash) == {j \in DOMAIN records : records[j].BlockHash = hash}

\* The considered submissions that some record of the list refers to.
ReferredTo(submissions, blockHash, records) ==
    {i \in Considered(submissions, blockHash) :
        WithHash(records, submissions[i].BuilderBidHash) # {}}

\* The record kept for the last submission referred to: the first with its hash.
LastFound(submissions, referred, records) ==
    IF referred = {} THEN Null
    ELSE records[Min(WithHash(records, submissions[Max(referred)].BuilderBidHash))]

BuilderSubmissionForSlot(blockHash, submissions, requests, deliveries) ==
    LET requested == ReferredTo(submissions, blockHash, requests)
        delivered == ReferredTo(submissions, blockHash, deliveries)
        request   == LastFound(submissions, requested, requests)
        delivery  == LastFound(submissions, delivered, deliveries)
    IN  [foundHeaderRequest |-> request,
         foundPayloadDeliveredFromProposer |-> delivery,
         builderBid |->
            IF requested = {} THEN Null
            ELSE IF delivered = {} THEN submissions[Max(requested)]
            ELSE submissions[Max(Considered(submissions, blockHash))],
         ProposerPubkey |->
            IF delivery # Null THEN delivery.ProposerPubkey
            ELSE IF request # Null THEN request.ProposerPubkey
            ELSE Null]

(***************************************************************************)
(* The verdict on a proposed slot, and the RPBS payload a report carries.  *)
(***************************************************************************)
IsUnderpayment(highest, builderBid, reverted, payment) ==
    Truthy(highest) /\ builderBid # Null /\ (reverted \/ payment < highest)

\* Mutant of RpbsPayload: the fields of the bid are not checked.
RpbsPayloadUnchecked(builderBid) ==
    IF builderBid = Null THEN Null
    ELSE [BuilderPubkey |-> builderBid.BuilderPubkey,
          BlockHash     |-> builderBid.BuilderBidHash,
          Value         |-> builderBid.BidValue]

RpbsPayload(builderBid) ==
    IF builderBid = Null THEN Null
    ELSE IF ~Truthy(builderBid.BidValue) THEN Null
    ELSE [BuilderPubkey |-> builderBid.BuilderPubkey,
          BlockHash     |-> builderBid.BuilderBidHash,
          Value         |-> builderBid.BidValue]
===============================================================================
