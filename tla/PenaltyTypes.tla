----------------------------- MODULE PenaltyTypes -----------------------------
(***************************************************************************)
(* The internal penalty types of src/utils/constants.js, grouped by the    *)
(* kind of slot each of them judges.                                       *)
(***************************************************************************)

\* A slot without a block: who is to blame for the miss?
MissedSlotPenalties ==
    {"PROPOSER_OFFLINE", "PROPOSER_DID_NOT_SIGN", "BUILDER_DIDNT_PUBLISH"}

\* The penalties that name a slot of the scanned epoch. The fifth type names a
\* validator: its slot is always the first of the epoch.
SlotPenalties == MissedSlotPenalties \union {"BUILDER_UNDERPAYMENT"}

INTERNAL_PENALTY_TYPES ==
    SlotPenalties \union {"PROPOSER_SLASHED_OR_LOW_EFFECTIVE"}

\* The type the reporter registry knows: whom the penalty is for.
INTERNAL_PENALTY_TYPE_TO_CONTRACT_TYPE ==
    [PROPOSER_SLASHED_OR_LOW_EFFECTIVE |-> "2", BUILDER_UNDERPAYMENT |-> "1",
     PROPOSER_OFFLINE |-> "0", PROPOSER_DID_NOT_SIGN |-> "0", BUILDER_DIDNT_PUBLISH |-> "1"]

\* The penalties an opted-out proposer is exempt from.
ProposerPenalties ==
    {"PROPOSER_OFFLINE", "PROPOSER_DID_NOT_SIGN", "PROPOSER_SLASHED_OR_LOW_EFFECTIVE"}
===============================================================================
