---------------------------- MODULE SubmissionMatch ----------------------------
(***************************************************************************)
(* The outer loop of                                                       *)
(* getBuilderSubmissionForSlotBasedOnProposerHeaderRequestsAndResponses,   *)
(* one submission per step; its two inner searches, which stop at the      *)
(* first record with the hash, are the operator Find.                      *)
(***************************************************************************)
EXTENDS RelayAnalysis, Functions

CONSTANTS
    Hashes,         \* block hashes
    Arguments       \* the relay lists and block hash the loop is run on

Submission == [BuilderBidHash : Hashes, BuilderPubkey : STRING]
Record == [BlockHash : Hashes, ProposerPubkey : STRING]

RelayLists ==
    [submissions : Seq(Submission), requests : Seq(Record), deliveries : Seq(Record),
     blockHash : Hashes \union {Null}]

\* What MCRelayLoops and the theorems assume of the constants.
ArgumentsAssumption ==
    /\ Arguments \subseteq RelayLists
    /\ Null \notin Hashes /\ Null \notin Submission /\ Null \notin Record

VARIABLES
    args,                               \* the arguments
    i,                                  \* the loop counter, counted from 1
    foundHeaderRequest,
    foundPayloadDeliveredFromProposer,
    foundSubmission,
    lastFoundBuilderSubmission

found == <<foundHeaderRequest, foundPayloadDeliveredFromProposer,
           foundSubmission, lastFoundBuilderSubmission>>
vars == <<args, i, found>>

LoopInit ==
    /\ i = 1
    /\ foundHeaderRequest = Null
    /\ foundPayloadDeliveredFromProposer = Null
    /\ foundSubmission = Null
    /\ lastFoundBuilderSubmission = Null

Init == args \in Arguments /\ LoopInit

submission == args.submissions[i]

\* Mutant of Find: what was found for an earlier submission is forgotten.
FindAfresh(records, hash, before) ==
    IF WithHash(records, hash) = {} THEN Null ELSE records[Min(WithHash(records, hash))]

\* An inner loop: the first record with the hash, or what was found before.
Find(records, hash, before) ==
    IF WithHash(records, hash) = {} THEN before ELSE records[Min(WithHash(records, hash))]

\* Mutant of OfChainBlock: the hash of the block on chain is not compared.
OfAnyBlock(hash) == TRUE

\* A submission for another block than the one on chain, if any, is passed over.
OfChainBlock(hash) == args.blockHash = Null \/ hash = args.blockHash

\* Mutant of Skip: the counter is also advanced before the continue.
SkipTwo ==
    /\ i <= Len(args.submissions)
    /\ ~OfChainBlock(submission.BuilderBidHash)
    /\ i' = i + 2
    /\ UNCHANGED <<args, found>>

Skip ==
    /\ i <= Len(args.submissions)
    /\ ~OfChainBlock(submission.BuilderBidHash)
    /\ i' = i + 1
    /\ UNCHANGED <<args, found>>

Match ==
    /\ i <= Len(args.submissions)
    /\ OfChainBlock(submission.BuilderBidHash)
    /\ LET hash     == submission.BuilderBidHash
           request  == Find(args.requests, hash, foundHeaderRequest)
           delivery == Find(args.deliveries, hash, foundPayloadDeliveredFromProposer)
           last     == IF WithHash(args.requests, hash) = {}
                       THEN lastFoundBuilderSubmission ELSE submission
       IN  /\ foundHeaderRequest' = request
           /\ foundPayloadDeliveredFromProposer' = delivery
           /\ lastFoundBuilderSubmission' = last
           /\ foundSubmission' =
                IF request = Null THEN foundSubmission
                ELSE IF delivery = Null THEN last ELSE submission
    /\ i' = i + 1
    /\ UNCHANGED args

Next == Skip \/ Match

Spec == Init /\ [][Next]_vars /\ WF_vars(Next)

-------------------------------------------------------------------------------
Done == i = Len(args.submissions) + 1

ProposerPubkey ==
    IF foundPayloadDeliveredFromProposer # Null
    THEN foundPayloadDeliveredFromProposer.ProposerPubkey
    ELSE IF foundHeaderRequest # Null THEN foundHeaderRequest.ProposerPubkey
    ELSE Null

FindsTypeOK ==
    /\ args \in RelayLists
    /\ i \in 1 .. Len(args.submissions) + 1
    /\ foundHeaderRequest \in Range(args.requests) \union {Null}
    /\ foundPayloadDeliveredFromProposer \in Range(args.deliveries) \union {Null}
    /\ foundSubmission \in Range(args.submissions) \union {Null}
    /\ lastFoundBuilderSubmission \in Range(args.submissions) \union {Null}

\* When the loop ends, what the function returns is the operator the reporter
\* and the verifier are modelled with: BuilderSubmissionForSlot of RelayAnalysis,
\* which looks at the lists as a whole and keeps no running state.
LoopComputesAttribution ==
    Done =>
        [foundHeaderRequest |-> foundHeaderRequest,
         foundPayloadDeliveredFromProposer |-> foundPayloadDeliveredFromProposer,
         builderBid |-> foundSubmission,
         ProposerPubkey |-> ProposerPubkey] =
        BuilderSubmissionForSlot(args.blockHash, args.submissions, args.requests, args.deliveries)

\* A slot with a block is attributed to a submission of that very block, and
\* only if its header was requested: the filter on the hash keeps the finds that
\* survive from one iteration to the next from naming another builder's bid.
ChainBlockAttribution ==
    args.blockHash # Null /\ foundSubmission # Null =>
        /\ foundSubmission.BuilderBidHash = args.blockHash
        /\ foundHeaderRequest.BlockHash = args.blockHash
===============================================================================
