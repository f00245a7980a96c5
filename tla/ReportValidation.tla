--------------------------- MODULE ReportValidation ---------------------------
(***************************************************************************)
(* What the verifier guarantees: a request is answered in one step, either *)
(* with every report of it, in order, each of them substantiated, or with  *)
(* nothing. A substantiated report of an underpayment or of a kicked       *)
(* validator is one of a fault that took place. One of a missed slot need  *)
(* not be: the verifier repeats the reporter's tests, which look neither   *)
(* at whether a header of no value was requested nor, past the first       *)
(* slots, at whether one was signed. It is stated in terms of what         *)
(* happened in the slots.                                                  *)
(***************************************************************************)
EXTENDS PbsEpoch, PenaltyTypes

VARIABLES
    outcome, published,         \* of the scan the reports come from
    now,                        \* what registry and beacon node say today
    status, body, signed        \* of the request

Audit == INSTANCE EpochAudit

OptedOutNow(p) == now.alternativeFeeRecipient[p] # ZERO_ADDRESS

\* The slot, the duty and the amount are right, of the blame for a missed slot what
\* BlameFits says of it is, and no proposer is fined that is exempt by now.
Substantiated(r) ==
    /\ r.internalPenaltyType = "BUILDER_UNDERPAYMENT" =>
        /\ Audit!UnderpaidSlot(r.slot)
        /\ r.blsKey = duty[r.slot]
        /\ r.amount = 2 * Audit!HighestRequested(r.slot)
    /\ r.internalPenaltyType \in MissedSlotPenalties =>
        /\ Audit!MissedWithBids(r.slot)
        /\ r.blsKey = duty[r.slot]
        /\ Audit!BlameFits(r)
    /\ r.internalPenaltyType \in {"PROPOSER_OFFLINE", "PROPOSER_DID_NOT_SIGN"} =>
        r.amount = now.proposerAmount
    /\ r.internalPenaltyType = "PROPOSER_SLASHED_OR_LOW_EFFECTIVE" =>
        r.blsKey \in now.kicked /\ r.amount = 0
    /\ r.internalPenaltyType \in ProposerPenalties => ~OptedOutNow(r.blsKey)

Init == status = "idle" /\ body = <<>> /\ signed = <<>>

Submit == status = "idle" /\ status' = "checking" /\ body' # <<>> /\ UNCHANGED signed

SignAll ==
    /\ status = "checking" /\ status' = "signed"
    /\ \A k \in DOMAIN body : Substantiated(body[k])
    /\ signed' = body
    /\ UNCHANGED body

SignNone ==
    /\ status = "checking" /\ status' \in {"refused", "down"}
    /\ UNCHANGED <<body, signed>>

Forget ==
    /\ status \in {"signed", "refused", "down"} /\ status' = "idle"
    /\ body' = <<>> /\ signed' = <<>>

Next == Submit \/ SignAll \/ SignNone \/ Forget

validationVars == <<status, body, signed>>

Spec == Init /\ [][Next]_validationVars
===============================================================================
