------------------------- MODULE SubmissionMatchProofs -------------------------
(***************************************************************************)
(* The loop that attributes a submission to a slot is correct for every    *)
(* combination of relay lists: it computes BuilderSubmissionForSlot, the   *)
(* operator the reporter and the verifier are modelled with.               *)
(*                                                                         *)
(* The inductive invariant, LoopInvariant, says what each variable is a    *)
(* function of after i - 1 submissions: the operator's own expressions,    *)
(* on the submissions considered before i.                                 *)
(***************************************************************************)
EXTENDS SubmissionMatch, RelayLemmas

-------------------------------------------------------------------------------
(* The lists and what is found in them.                                     *)

\* The places of the records with a hash are finitely many, and Min is one of them.
LEMMA FirstWithHash ==
    ASSUME NEW records \in Seq(Record), NEW hash, WithHash(records, hash) # {}
    PROVE  LET first == Min(WithHash(records, hash)) IN
               /\ first \in DOMAIN records
               /\ records[first] \in Record
               /\ records[first].BlockHash = hash
PROOF
<1> HIDE DEF Record
<1>1. DOMAIN records = 1 .. Len(records) /\ Len(records) \in Nat
  OBVIOUS
<1>2. IsFiniteSet(1 .. Len(records))
  BY <1>1, FS_Interval
<1>3. WithHash(records, hash) \subseteq 1 .. Len(records)
  BY <1>1 DEF WithHash
<1>4. IsFiniteSet(WithHash(records, hash)) /\ WithHash(records, hash) \subseteq Int
  BY <1>1, <1>2, <1>3, FS_Subset
<1>5. Min(WithHash(records, hash)) \in WithHash(records, hash)
  BY <1>4, MinOfFiniteSet
<1> QED BY <1>1, <1>3, <1>5 DEF WithHash

\* An inner loop leaves a record of its list, or what was found before.
LEMMA FindType ==
    ASSUME NEW records \in Seq(Record), NEW hash,
           NEW before \in Range(records) \union {Null}
    PROVE  Find(records, hash, before) \in Range(records) \union {Null}
PROOF
<1>1. CASE WithHash(records, hash) = {}
  BY <1>1 DEF Find
<1>2. CASE WithHash(records, hash) # {}
  <2>1. Min(WithHash(records, hash)) \in DOMAIN records
    BY <1>2, FirstWithHash
  <2> QED BY <1>2, <2>1 DEF Find, Range
<1> QED BY <1>1, <1>2

LEMMA ListTypes ==
    ASSUME args \in RelayLists
    PROVE  /\ args.submissions \in Seq(Submission)
           /\ args.requests \in Seq(Record)
           /\ args.deliveries \in Seq(Record)
           /\ args.blockHash \in Hashes \union {Null}
PROOF
<1> HIDE DEF Submission, Record
<1> QED BY DEF RelayLists

LEMMA SubmissionAt ==
    ASSUME args \in RelayLists, NEW j \in 1 .. Len(args.submissions)
    PROVE  args.submissions[j] \in Submission /\ args.submissions[j] \in Range(args.submissions)
PROOF
<1> HIDE DEF Submission
<1>1. args.submissions \in Seq(Submission)
  BY ListTypes
<1>2. DOMAIN args.submissions = 1 .. Len(args.submissions)
  BY <1>1
<1>3. args.submissions[j] \in Submission
  BY <1>1
<1> QED BY <1>2, <1>3 DEF Range

-------------------------------------------------------------------------------
(* Type correctness.                                                        *)

LEMMA InitFindsType == ArgumentsAssumption /\ Init => FindsTypeOK
PROOF
<1> SUFFICES ASSUME ArgumentsAssumption, Init PROVE FindsTypeOK
  OBVIOUS
<1>1. args \in RelayLists
  BY DEF ArgumentsAssumption, Init
<1>2. Len(args.submissions) \in Nat
  <2> HIDE DEF Submission
  <2> QED BY <1>1, ListTypes
<1> QED BY <1>1, <1>2 DEF Init, LoopInit, FindsTypeOK

LEMMA NextFindsType == FindsTypeOK /\ [Next]_vars => FindsTypeOK'
PROOF
<1> SUFFICES ASSUME FindsTypeOK, [Next]_vars PROVE FindsTypeOK'
  OBVIOUS
<1>1. args \in RelayLists /\ args' = args /\ i \in Int /\ Len(args.submissions) \in Nat
  <2> HIDE DEF Submission
  <2>1. args' = args
    BY DEF vars, found, Next, Skip, Match
  <2> QED BY <2>1, ListTypes DEF FindsTypeOK
<1>2. CASE Skip
  <2>1. i' \in 1 .. Len(args.submissions) + 1
    BY <1>1, <1>2 DEF FindsTypeOK, Skip
  <2> QED BY <1>1, <1>2, <2>1 DEF FindsTypeOK, Skip, found
<1>3. CASE Match
  <2>1. i \in 1 .. Len(args.submissions)
    BY <1>1, <1>3 DEF FindsTypeOK, Match
  <2>2. i' \in 1 .. Len(args.submissions) + 1
    BY <1>1, <1>3, <2>1 DEF Match
  <2>3. submission \in Range(args.submissions)
    BY <1>1, <2>1, SubmissionAt DEF submission
  <2>4. foundHeaderRequest' \in Range(args.requests) \union {Null}
    BY <1>1, <1>3, ListTypes, FindType DEF FindsTypeOK, Match
  <2>5. foundPayloadDeliveredFromProposer' \in Range(args.deliveries) \union {Null}
    BY <1>1, <1>3, ListTypes, FindType DEF FindsTypeOK, Match
  <2>6. lastFoundBuilderSubmission' \in Range(args.submissions) \union {Null}
    BY <1>3, <2>3 DEF FindsTypeOK, Match
  <2>7. foundSubmission' \in Range(args.submissions) \union {Null}
    BY <1>3, <2>3, <2>6 DEF FindsTypeOK, Match
  <2> QED BY <1>1, <2>2, <2>4, <2>5, <2>6, <2>7 DEF FindsTypeOK
<1>4. CASE UNCHANGED vars
  BY <1>4 DEF FindsTypeOK, vars, found
<1> QED BY <1>2, <1>3, <1>4 DEF Next

\* Every find is a record of its list, and the counter stays in range.
THEOREM FindsTypeCorrect == ArgumentsAssumption /\ Spec => []FindsTypeOK
  BY InitFindsType, NextFindsType, PTL DEF Spec

-------------------------------------------------------------------------------
(* The inductive invariant.                                                 *)

ConsideredBefore ==
    {j \in Considered(args.submissions, args.blockHash) : j < i}

ReferredBefore(records) ==
    {j \in ReferredTo(args.submissions, args.blockHash, records) : j < i}

LoopInvariant ==
    LET requested == ReferredBefore(args.requests)
        delivered == ReferredBefore(args.deliveries)
    IN  /\ foundHeaderRequest = LastFound(args.submissions, requested, args.requests)
        /\ foundPayloadDeliveredFromProposer =
                LastFound(args.submissions, delivered, args.deliveries)
        /\ lastFoundBuilderSubmission =
                IF requested = {} THEN Null ELSE args.submissions[Max(requested)]
        /\ foundSubmission =
                IF requested = {} THEN Null
                ELSE IF delivered = {} THEN args.submissions[Max(requested)]
                ELSE args.submissions[Max(ConsideredBefore)]

\* A new place behind all others is the greatest.
LEMMA MaxOfLast ==
    ASSUME NEW n \in Int, NEW S, S \subseteq Int, \A x \in S : x < n
    PROVE  Max(S \union {n}) = n
PROOF
<1> DEFINE T == S \union {n}
<1>1. n \in T /\ \A x \in T : n >= x
  OBVIOUS
<1>2. Max(T) \in T /\ \A y \in T : Max(T) >= y
  BY <1>1, Zenon DEF Max
<1>3. Max(T) \in Int /\ Max(T) >= n /\ n >= Max(T)
  BY <1>1, <1>2
<1> QED BY <1>3

\* The last place considered, or referred to, is one.
LEMMA MaxOfPlaces ==
    ASSUME args \in RelayLists, NEW S, S \subseteq DOMAIN args.submissions, S # {}
    PROVE  Max(S) \in S
PROOF
<1>1. DOMAIN args.submissions = 1 .. Len(args.submissions) /\ Len(args.submissions) \in Nat
  <2> HIDE DEF Submission
  <2> QED BY ListTypes
<1>2. S \subseteq 1 .. Len(args.submissions) /\ IsFiniteSet(1 .. Len(args.submissions))
  BY <1>1, FS_Interval
<1>3. IsFiniteSet(S) /\ S \subseteq Int
  BY <1>1, <1>2, FS_Subset
<1> QED BY <1>3, MaxOfFiniteSet

\* What is kept for the last submission referred to is a record with its hash.
LEMMA LastFoundRecord ==
    ASSUME args \in RelayLists, NEW records \in Seq(Record), ReferredBefore(records) # {}
    PROVE  LET last  == Max(ReferredBefore(records))
               found_ == LastFound(args.submissions, ReferredBefore(records), records)
           IN  /\ last \in ReferredBefore(records)
               /\ found_ \in Record
               /\ found_.BlockHash = args.submissions[last].BuilderBidHash
PROOF
<1> DEFINE last == Max(ReferredBefore(records))
<1>1. ReferredBefore(records) \subseteq DOMAIN args.submissions
  BY DEF ReferredBefore, ReferredTo, Considered
<1>2. last \in ReferredBefore(records)
  BY <1>1, MaxOfPlaces
<1>3. WithHash(records, args.submissions[last].BuilderBidHash) # {}
  BY <1>2 DEF ReferredBefore, ReferredTo
<1> QED BY <1>2, <1>3, FirstWithHash DEF LastFound

LEMMA InitLoopInvariant == ArgumentsAssumption /\ Init => LoopInvariant
PROOF
<1> SUFFICES ASSUME ArgumentsAssumption, Init PROVE LoopInvariant
  OBVIOUS
<1>1. args \in RelayLists /\ i = 1
  BY DEF ArgumentsAssumption, Init, LoopInit
<1>2. \A j \in DOMAIN args.submissions : j >= 1 /\ j \in Int
  <2> HIDE DEF Submission
  <2> QED BY <1>1, ListTypes
<1>3. \A records : ReferredBefore(records) = {}
  BY <1>1, <1>2 DEF ReferredBefore, ReferredTo, Considered
<1> QED BY <1>3 DEF Init, LoopInit, LoopInvariant, LastFound

\* A submission for another block adds no place; nothing was found for it.
LEMMA SkipLoopInvariant == FindsTypeOK /\ LoopInvariant /\ Skip => LoopInvariant'
PROOF
<1> SUFFICES ASSUME FindsTypeOK, LoopInvariant, Skip PROVE LoopInvariant'
  OBVIOUS
<1>1. args \in RelayLists /\ args' = args /\ i \in Int /\ i' = i + 1 /\ found' = found
  BY DEF FindsTypeOK, Skip
<1>2. i \notin Considered(args.submissions, args.blockHash)
  BY DEF Skip, submission, OfChainBlock, Considered
<1>3. Considered(args.submissions, args.blockHash) \subseteq Int
  <2> HIDE DEF Submission
  <2> QED BY <1>1, ListTypes DEF Considered
<1>4. ConsideredBefore' = ConsideredBefore
  BY <1>1, <1>2, <1>3 DEF ConsideredBefore
<1>5. \A records : ReferredTo(args.submissions, args.blockHash, records)
                     \subseteq Considered(args.submissions, args.blockHash)
  BY DEF ReferredTo
<1>6. ASSUME NEW records
      PROVE  {j \in ReferredTo(args.submissions, args.blockHash, records) : j < i + 1}
               = {j \in ReferredTo(args.submissions, args.blockHash, records) : j < i}
  BY <1>1, <1>2, <1>3, <1>5
<1>7. /\ ReferredBefore(args.requests)' = ReferredBefore(args.requests)
      /\ ReferredBefore(args.deliveries)' = ReferredBefore(args.deliveries)
  BY <1>1, <1>6 DEF ReferredBefore
<1> QED BY <1>1, <1>4, <1>7 DEF LoopInvariant, found

\* A submission that is considered adds its place where a record refers to it.
LEMMA MatchLoopInvariant ==
    ArgumentsAssumption /\ FindsTypeOK /\ LoopInvariant /\ Match => LoopInvariant'
PROOF
<1> SUFFICES ASSUME ArgumentsAssumption, FindsTypeOK, LoopInvariant, Match
             PROVE  LoopInvariant'
  OBVIOUS
<1> DEFINE hash == submission.BuilderBidHash
           requested == ReferredBefore(args.requests)
           delivered == ReferredBefore(args.deliveries)
<1>1. args \in RelayLists /\ args' = args /\ i \in Int /\ i' = i + 1
  BY DEF FindsTypeOK, Match
<1>2. i \in DOMAIN args.submissions
  <2> HIDE DEF Submission
  <2> QED BY <1>1, ListTypes DEF FindsTypeOK, Match
<1>3. i \in Considered(args.submissions, args.blockHash)
  BY <1>2 DEF Match, submission, OfChainBlock, Considered
<1>4. Considered(args.submissions, args.blockHash) \subseteq Int
  <2> HIDE DEF Submission
  <2> QED BY <1>1, ListTypes DEF Considered
<1>5. ConsideredBefore' = ConsideredBefore \union {i} /\ Max(ConsideredBefore') = i
  <2>1. ConsideredBefore' = ConsideredBefore \union {i}
    BY <1>1, <1>3, <1>4 DEF ConsideredBefore
  <2>2. ConsideredBefore \subseteq Int /\ \A j \in ConsideredBefore : j < i
    BY <1>4 DEF ConsideredBefore
  <2> QED BY <1>1, <2>1, <2>2, MaxOfLast
<1> DEFINE PlacesTo(records, n) ==
             {j \in ReferredTo(args.submissions, args.blockHash, records) : j < n}
<1>6. ASSUME NEW records, WithHash(records, hash) = {}
      PROVE  PlacesTo(records, i + 1) = PlacesTo(records, i)
  <2>1. ReferredTo(args.submissions, args.blockHash, records) \subseteq Int
    BY <1>4 DEF ReferredTo
  <2>2. i \notin ReferredTo(args.submissions, args.blockHash, records)
    BY <1>6 DEF ReferredTo, submission
  <2> QED BY <1>1, <2>1, <2>2
<1>7. ASSUME NEW records, WithHash(records, hash) # {}
      PROVE  PlacesTo(records, i + 1) # {} /\ Max(PlacesTo(records, i + 1)) = i
  <2>1. ReferredTo(args.submissions, args.blockHash, records) \subseteq Int
    BY <1>4 DEF ReferredTo
  <2>2. i \in ReferredTo(args.submissions, args.blockHash, records)
    BY <1>3, <1>7 DEF ReferredTo, submission
  <2>3. PlacesTo(records, i + 1) = PlacesTo(records, i) \union {i}
    BY <1>1, <2>1, <2>2
  <2>4. PlacesTo(records, i) \subseteq Int /\ \A j \in PlacesTo(records, i) : j < i
    BY <2>1
  <2> HIDE DEF PlacesTo
  <2> QED BY <1>1, <2>3, <2>4, MaxOfLast
<1> DEFINE places(records) == PlacesTo(records, i)
           placesAfter(records) == PlacesTo(records, i + 1)
<1>8. /\ requested = places(args.requests) /\ delivered = places(args.deliveries)
      /\ requested' = placesAfter(args.requests) /\ delivered' = placesAfter(args.deliveries)
  BY <1>1 DEF ReferredBefore
<1> HIDE DEF PlacesTo
\* An inner loop finds what LastFound says of one submission more.
<1>9. ASSUME NEW records
      PROVE  Find(records, hash, LastFound(args.submissions, places(records), records))
               = LastFound(args.submissions, placesAfter(records), records)
  <2>1. CASE WithHash(records, hash) = {}
    BY <1>6, <2>1 DEF Find
  <2>2. CASE WithHash(records, hash) # {}
    BY <1>7, <2>2 DEF Find, LastFound, submission
  <2> QED BY <2>1, <2>2
<1>10. ASSUME NEW records \in Seq(Record)
       PROVE  (LastFound(args.submissions, placesAfter(records), records) = Null)
                <=> (placesAfter(records) = {})
  <2> HIDE DEF Record
  <2>1. CASE WithHash(records, hash) # {}
    <3>1. placesAfter(records) # {} /\ Max(placesAfter(records)) = i
      BY <1>7, <2>1
    <3>2. records[Min(WithHash(records, hash))] \in Record
      BY <2>1, FirstWithHash
    <3> QED BY <3>1, <3>2 DEF LastFound, submission, ArgumentsAssumption
  <2>2. CASE WithHash(records, hash) = {}
    <3>1. placesAfter(records) = ReferredBefore(records)
      BY <1>6, <2>2 DEF ReferredBefore, PlacesTo
    <3>2. CASE ReferredBefore(records) = {}
      BY <3>1, <3>2 DEF LastFound
    <3>3. CASE ReferredBefore(records) # {}
      BY <1>1, <3>1, <3>3, LastFoundRecord DEF ArgumentsAssumption
    <3> QED BY <3>2, <3>3
  <2> QED BY <2>1, <2>2
<1>11. foundHeaderRequest' = LastFound(args.submissions, requested', args.requests)
  BY <1>8, <1>9 DEF LoopInvariant, Match
<1>12. foundPayloadDeliveredFromProposer'
         = LastFound(args.submissions, delivered', args.deliveries)
  BY <1>8, <1>9 DEF LoopInvariant, Match
<1>13. lastFoundBuilderSubmission'
         = IF requested' = {} THEN Null ELSE args.submissions[Max(requested')]
  <2>1. CASE WithHash(args.requests, hash) = {}
    BY <1>6, <1>8, <2>1 DEF LoopInvariant, Match
  <2>2. CASE WithHash(args.requests, hash) # {}
    BY <1>7, <1>8, <2>2 DEF Match, submission
  <2> QED BY <2>1, <2>2
<1>14. foundSubmission' =
         IF requested' = {} THEN Null
         ELSE IF delivered' = {} THEN args.submissions[Max(requested')]
         ELSE args.submissions[Max(ConsideredBefore')]
  <2>1. foundSubmission' =
          IF foundHeaderRequest' = Null THEN foundSubmission
          ELSE IF foundPayloadDeliveredFromProposer' = Null THEN lastFoundBuilderSubmission'
          ELSE submission
    BY DEF Match
  <2>2. (foundHeaderRequest' = Null) <=> (requested' = {})
    BY <1>1, <1>8, <1>10, <1>11, ListTypes
  <2>3. (foundPayloadDeliveredFromProposer' = Null) <=> (delivered' = {})
    BY <1>1, <1>8, <1>10, <1>12, ListTypes
  <2>4. requested' = {} => requested = {}
    <3>1. \A j \in ReferredTo(args.submissions, args.blockHash, args.requests) :
            j \in Int /\ (j < i => j < i + 1)
      BY <1>1, <1>4 DEF ReferredTo
    <3>2. places(args.requests) \subseteq placesAfter(args.requests)
      BY <3>1 DEF PlacesTo
    <3> QED BY <1>8, <3>2
  <2>5. requested = {} => foundSubmission = Null
    BY DEF LoopInvariant
  <2> HIDE DEF requested, delivered
  <2> QED BY <1>5, <1>13, <2>1, <2>2, <2>3, <2>4, <2>5 DEF submission
<1> HIDE DEF requested, delivered
<1>15. args'.submissions = args.submissions /\ args'.requests = args.requests
       /\ args'.deliveries = args.deliveries
  BY <1>1
<1> QED BY <1>11, <1>12, <1>13, <1>14, <1>15 DEF LoopInvariant, requested, delivered

\* No submission breaks the invariant.
LEMMA LoopInvariantNext ==
    ArgumentsAssumption /\ FindsTypeOK /\ LoopInvariant /\ [Next]_vars
        => FindsTypeOK' /\ LoopInvariant'
PROOF
<1>1. LoopInvariant /\ UNCHANGED vars => LoopInvariant'
  <2> SUFFICES ASSUME LoopInvariant, UNCHANGED vars PROVE LoopInvariant'
    OBVIOUS
  <2>1. args' = args /\ i' = i /\ found' = found
    BY DEF vars
  <2>2. /\ ConsideredBefore' = ConsideredBefore
        /\ ReferredBefore(args.requests)' = ReferredBefore(args.requests)
        /\ ReferredBefore(args.deliveries)' = ReferredBefore(args.deliveries)
    BY <2>1 DEF ConsideredBefore, ReferredBefore
  <2> QED BY <2>1, <2>2 DEF LoopInvariant, found
<1> QED BY <1>1, NextFindsType, SkipLoopInvariant, MatchLoopInvariant DEF Next

LEMMA LoopInvariantHolds == ArgumentsAssumption /\ Spec => [](FindsTypeOK /\ LoopInvariant)
PROOF
<1> SUFFICES ASSUME ArgumentsAssumption PROVE Spec => [](FindsTypeOK /\ LoopInvariant)
  OBVIOUS
<1>1. Init => FindsTypeOK /\ LoopInvariant
  BY InitFindsType, InitLoopInvariant
<1>2. FindsTypeOK /\ LoopInvariant /\ [Next]_vars => FindsTypeOK' /\ LoopInvariant'
  BY LoopInvariantNext
<1> QED BY <1>1, <1>2, PTL DEF Spec

-------------------------------------------------------------------------------
(* What the loop returns.                                                   *)

\* When the loop ends, all submissions are before i, and its result is the operator.
LEMMA ResultIsOperator ==
    ASSUME FindsTypeOK, LoopInvariant PROVE LoopComputesAttribution
PROOF
<1> SUFFICES ASSUME Done
             PROVE  [foundHeaderRequest |-> foundHeaderRequest,
                     foundPayloadDeliveredFromProposer |-> foundPayloadDeliveredFromProposer,
                     builderBid |-> foundSubmission,
                     ProposerPubkey |-> ProposerPubkey] =
                    BuilderSubmissionForSlot(args.blockHash, args.submissions,
                                             args.requests, args.deliveries)
  BY DEF LoopComputesAttribution
<1>1. \A j \in DOMAIN args.submissions : j < i
  <2> HIDE DEF Submission
  <2>1. args.submissions \in Seq(Submission)
    BY ListTypes DEF FindsTypeOK
  <2> QED BY <2>1 DEF Done
<1>2. ConsideredBefore = Considered(args.submissions, args.blockHash)
  BY <1>1 DEF ConsideredBefore, Considered
<1>3. \A records : ReferredBefore(records) = ReferredTo(args.submissions, args.blockHash, records)
  BY <1>1 DEF ReferredBefore, ReferredTo, Considered
<1> QED BY <1>2, <1>3 DEF LoopInvariant, BuilderSubmissionForSlot, ProposerPubkey

\* The loop of getBuilderSubmissionForSlotBasedOnProposerHeaderRequestsAndResponses
\* returns BuilderSubmissionForSlot, for all lists and with or without a block.
THEOREM LoopComputesOperator == ArgumentsAssumption /\ Spec => []LoopComputesAttribution
PROOF
<1>1. FindsTypeOK /\ LoopInvariant => LoopComputesAttribution
  BY ResultIsOperator
<1> QED BY <1>1, LoopInvariantHolds, PTL

\* The bid attributed to a slot with a block is a considered one: it and the header
\* request found have the hash of the block.
LEMMA OnlyChainBlock ==
    ASSUME FindsTypeOK, LoopInvariant PROVE ChainBlockAttribution
PROOF
<1> SUFFICES ASSUME args.blockHash # Null, foundSubmission # Null
             PROVE  /\ foundSubmission.BuilderBidHash = args.blockHash
                    /\ foundHeaderRequest.BlockHash = args.blockHash
  BY DEF ChainBlockAttribution
<1> DEFINE requested == ReferredBefore(args.requests)
<1>1. args \in RelayLists
  BY DEF FindsTypeOK
<1>2. requested # {}
  BY DEF LoopInvariant
<1>3. /\ Max(requested) \in requested
      /\ foundHeaderRequest.BlockHash = args.submissions[Max(requested)].BuilderBidHash
  BY <1>1, <1>2, ListTypes, LastFoundRecord DEF LoopInvariant
<1>4. requested \subseteq ConsideredBefore
  BY DEF ReferredBefore, ReferredTo, ConsideredBefore
<1>5. Max(ConsideredBefore) \in ConsideredBefore
  <2>1. ConsideredBefore \subseteq DOMAIN args.submissions
    BY DEF ConsideredBefore, Considered
  <2> QED BY <1>1, <1>2, <1>4, <2>1, MaxOfPlaces
<1>6. \A j \in ConsideredBefore : args.submissions[j].BuilderBidHash = args.blockHash
  BY DEF ConsideredBefore, Considered
<1>7. foundSubmission = args.submissions[Max(requested)]
      \/ foundSubmission = args.submissions[Max(ConsideredBefore)]
  BY <1>2 DEF LoopInvariant
<1> QED BY <1>3, <1>4, <1>5, <1>6, <1>7

\* At every moment of the loop, a slot with a block is attributed to that very block.
THEOREM ChainBlockAttributed == ArgumentsAssumption /\ Spec => []ChainBlockAttribution
PROOF
<1>1. FindsTypeOK /\ LoopInvariant => ChainBlockAttribution
  BY OnlyChainBlock
<1> QED BY <1>1, LoopInvariantHolds, PTL
===============================================================================
