--------------------------- MODULE HighestBidProofs ---------------------------
(***************************************************************************)
(* The loop of getHighestValueHeaderForEachSlot is correct for every list  *)
(* of headers, and so is the loop that runs on the same headers after it.  *)
(***************************************************************************)
EXTENDS MCRelayLoops, RelayLemmas

LEMMA InitType == Init => TypeOK
  BY HeaderListsAssumption DEF Init, TypeOK

LEMMA HeaderAt ==
    ASSUME TypeOK, NEW j \in 1 .. Len(proposerDeliveredHeaders)
    PROVE  /\ proposerDeliveredHeaders[j].Slot \in Slots
           /\ proposerDeliveredHeaders[j].BidValue \in Nat
PROOF
<1>1. proposerDeliveredHeaders \in Seq(Header)
  BY DEF TypeOK
<1> HIDE DEF Header
<1>2. proposerDeliveredHeaders[j] \in Header
  BY <1>1
<1> QED BY <1>2 DEF Header

LEMMA IterateType == TypeOK /\ Iterate => TypeOK'
PROOF
<1> SUFFICES ASSUME TypeOK, Iterate PROVE TypeOK'
  OBVIOUS
<1> DEFINE header == proposerDeliveredHeaders[i]
<1>1. header.Slot \in Slots /\ header.BidValue \in Nat
  <2>1. i \in 1 .. Len(proposerDeliveredHeaders)
    BY DEF TypeOK, Iterate
  <2> QED BY <2>1, HeaderAt
<1>2. highestValueHeaderForEachSlot' \in [Slots -> Nat \union {Null}]
  BY <1>1 DEF TypeOK, Iterate
<1>3. Len(proposerDeliveredHeaders) \in Nat /\ i \in Int
  BY DEF TypeOK
<1>4. i' \in 1 .. Len(proposerDeliveredHeaders) + 1
  BY <1>3 DEF TypeOK, Iterate
<1> QED BY <1>2, <1>4 DEF TypeOK, Iterate

\* The counter and the object built stay in range, whatever the list.
THEOREM TypeCorrect == Spec => []TypeOK
PROOF
<1>1. TypeOK /\ UNCHANGED vars => TypeOK'
  BY DEF TypeOK, vars
<1>2. TypeOK /\ [Next]_vars => TypeOK'
  BY <1>1, IterateType DEF Next
<1> QED BY InitType, <1>2, PTL DEF Spec

\* One more header adds its value to those seen for its slot, and to no other.
LEMMA SeenAfterIterate ==
    ASSUME TypeOK, Iterate, NEW s \in Slots
    PROVE  Seen(s)' = IF proposerDeliveredHeaders[i].Slot = s
                      THEN Seen(s) \union {proposerDeliveredHeaders[i].BidValue}
                      ELSE Seen(s)
PROOF
<1>1. i \in Nat /\ i >= 1 /\ i' = i + 1 /\ proposerDeliveredHeaders' = proposerDeliveredHeaders
  BY DEF TypeOK, Iterate
<1> DEFINE PlacesTo(n) == {j \in 1 .. n : proposerDeliveredHeaders[j].Slot = s}
<1>2. PlacesTo(i) = IF proposerDeliveredHeaders[i].Slot = s
                    THEN PlacesTo(i - 1) \union {i} ELSE PlacesTo(i - 1)
  BY <1>1
<1>3. Seen(s) = {proposerDeliveredHeaders[j].BidValue : j \in PlacesTo(i - 1)}
  BY DEF Seen
<1>4. i' - 1 = i
  BY <1>1
<1>5. Seen(s)' = {proposerDeliveredHeaders[j].BidValue : j \in PlacesTo(i)}
  BY <1>1, <1>4 DEF Seen
<1> HIDE DEF PlacesTo
<1> QED BY <1>2, <1>3, <1>5

LEMMA IterateHighest == TypeOK /\ StoredIsHighestSeen /\ Iterate => StoredIsHighestSeen'
PROOF
<1> SUFFICES ASSUME TypeOK, StoredIsHighestSeen, Iterate, NEW s \in Slots
             PROVE  LET stored == highestValueHeaderForEachSlot'[s] IN
                        IF Seen(s)' = {} THEN stored = Null
                        ELSE stored \in Seen(s)' /\ \A value \in Seen(s)' : value <= stored
  BY DEF StoredIsHighestSeen
<1> DEFINE header == proposerDeliveredHeaders[i]
           before == highestValueHeaderForEachSlot[s]
           after  == highestValueHeaderForEachSlot'[s]
<1>1. header.Slot \in Slots /\ header.BidValue \in Nat
  <2>1. i \in 1 .. Len(proposerDeliveredHeaders)
    BY DEF TypeOK, Iterate
  <2> QED BY <2>1, HeaderAt
<1>2. before \in Nat \union {Null} /\ Seen(s) \subseteq Nat
  <2>1. \A j \in 1 .. i - 1 : j \in 1 .. Len(proposerDeliveredHeaders)
    BY DEF TypeOK
  <2>2. \A j \in 1 .. i - 1 : proposerDeliveredHeaders[j].BidValue \in Nat
    BY <2>1, HeaderAt
  <2> QED BY <2>2 DEF TypeOK, Seen
<1>3. IF Seen(s) = {} THEN before = Null
      ELSE before \in Seen(s) /\ \A value \in Seen(s) : value <= before
  BY DEF StoredIsHighestSeen
<1>4. CASE header.Slot # s
  <2>1. after = before
    BY <1>1, <1>4 DEF TypeOK, Iterate
  <2> QED BY <1>3, <1>4, <2>1, SeenAfterIterate
<1>5. CASE header.Slot = s
  <2>1. Seen(s)' = Seen(s) \union {header.BidValue}
    BY <1>5, SeenAfterIterate
  <2>2. after = IF Replaces(before, header.BidValue) THEN header.BidValue ELSE before
    BY <1>5 DEF TypeOK, Iterate
  <2>3. CASE Seen(s) = {}
    BY <1>1, <1>3, <2>1, <2>2, <2>3 DEF Replaces, Truthy
  <2>4. CASE Seen(s) # {}
    <3>1. before \in Nat /\ before # Null
      BY <1>2, <1>3, <2>4, NullIsNoBid
    <3>2. CASE before = 0
      BY <1>1, <1>2, <1>3, <2>1, <2>2, <2>4, <3>1, <3>2 DEF Replaces, Truthy
    <3>3. CASE before # 0
      BY <1>1, <1>2, <1>3, <2>1, <2>2, <2>4, <3>1, <3>3 DEF Replaces, Truthy
    <3> QED BY <3>2, <3>3
  <2> QED BY <2>3, <2>4
<1> QED BY <1>4, <1>5

\* What is stored for a slot is always the greatest value seen for it so far.
THEOREM HighestSeen == Spec => []StoredIsHighestSeen
PROOF
<1>1. Init => StoredIsHighestSeen
  <2> SUFFICES ASSUME Init, NEW s \in Slots PROVE Seen(s) = {} /\ highestValueHeaderForEachSlot[s] = Null
    BY DEF StoredIsHighestSeen
  <2> QED BY DEF Init, Seen
<1>2. StoredIsHighestSeen /\ UNCHANGED vars => StoredIsHighestSeen'
  <2> SUFFICES ASSUME StoredIsHighestSeen, UNCHANGED vars PROVE StoredIsHighestSeen'
    OBVIOUS
  <2>1. \A s : Seen(s)' = Seen(s)
    BY DEF Seen, vars
  <2> QED BY <2>1 DEF StoredIsHighestSeen, vars
<1>3. TypeOK /\ StoredIsHighestSeen /\ [Next]_vars => StoredIsHighestSeen'
  BY <1>2, IterateHighest DEF Next
<1> QED BY <1>1, <1>3, TypeCorrect, PTL DEF Spec

\* When the loop ends it returns, for every slot, what the operator
\* HighestValueHeader says: Null without a header, else the highest bid.
THEOREM LoopComputesOperator == Spec => []LoopComputesHighest
PROOF
<1>1. TypeOK /\ StoredIsHighestSeen => LoopComputesHighest
  <2> SUFFICES ASSUME TypeOK, StoredIsHighestSeen, i = Len(proposerDeliveredHeaders) + 1,
                      NEW s \in Slots
               PROVE  highestValueHeaderForEachSlot[s]
                        = HighestValueHeader(proposerDeliveredHeaders, s)
    BY DEF LoopComputesHighest
  <2> DEFINE stored == highestValueHeaderForEachSlot[s]
             values == BidValuesOf(proposerDeliveredHeaders, s)
  <2>1. DOMAIN proposerDeliveredHeaders = 1 .. i - 1
    BY DEF TypeOK
  <2>2. Seen(s) = values
    BY <2>1 DEF Seen, BidValuesOf
  <2>3. IF values = {} THEN stored = Null
        ELSE stored \in values /\ \A value \in values : value <= stored
    BY <2>2 DEF StoredIsHighestSeen
  <2>4. values \subseteq Nat
    <3>1. \A j \in DOMAIN proposerDeliveredHeaders : proposerDeliveredHeaders[j].BidValue \in Nat
      BY <2>1, HeaderAt DEF TypeOK
    <3> QED BY <3>1 DEF BidValuesOf
  <2> HIDE DEF values
  <2>5. CASE values # {}
    <3>1. Max(values) \in values /\ \A value \in values : Max(values) >= value
      BY <2>3, <2>4, <2>5 DEF Max
    <3>2. stored >= Max(values) /\ Max(values) >= stored
      BY <2>3, <2>4, <2>5, <3>1
    <3>3. stored \in Nat /\ Max(values) \in Nat
      BY <2>3, <2>4, <2>5, <3>1
    <3>4. stored = Max(values)
      BY <3>2, <3>3
    <3> QED BY <2>5, <3>4 DEF HighestValueHeader, values
  <2>6. CASE values = {}
    BY <2>3, <2>6 DEF HighestValueHeader, values
  <2> QED BY <2>5, <2>6
<1> QED BY <1>1, TypeCorrect, HighestSeen, PTL
-------------------------------------------------------------------------------
(* The second loop, over the same headers: MCRelayLoops runs it as          *)
(* SubmissionMatch does, so the lemmas about SubmissionMatch hold of it.    *)

MatchProofs ==
    INSTANCE SubmissionMatchProofs WITH
        i <- k,
        Arguments <- ArgumentsFor({Requests(headers) : headers \in HeaderLists})

\* The module is instantiated twice, as specification and with its lemmas.
LEMMA SameMatch ==
    /\ Match!ArgumentsAssumption <=> MatchProofs!ArgumentsAssumption
    /\ Match!FindsTypeOK <=> MatchProofs!FindsTypeOK
    /\ Match!LoopComputesAttribution <=> MatchProofs!LoopComputesAttribution
    /\ Match!ChainBlockAttribution <=> MatchProofs!ChainBlockAttribution
    /\ Match!LoopInit <=> MatchProofs!LoopInit
    /\ Match!Next <=> MatchProofs!Next
PROOF
<1>1. /\ Match!Submission = MatchProofs!Submission /\ Match!Record = MatchProofs!Record
      /\ Match!RelayLists = MatchProofs!RelayLists
  BY DEF Match!Submission, MatchProofs!Submission, Match!Record, MatchProofs!Record,
         Match!RelayLists, MatchProofs!RelayLists
<1>2. Match!ArgumentsAssumption <=> MatchProofs!ArgumentsAssumption
  BY <1>1 DEF Match!ArgumentsAssumption, MatchProofs!ArgumentsAssumption
<1>3. Match!FindsTypeOK <=> MatchProofs!FindsTypeOK
  BY <1>1 DEF Match!FindsTypeOK, MatchProofs!FindsTypeOK, Match!Range, MatchProofs!Range
<1>4. Match!ChainBlockAttribution <=> MatchProofs!ChainBlockAttribution
  BY DEF Match!ChainBlockAttribution, MatchProofs!ChainBlockAttribution
<1>5. Match!LoopInit <=> MatchProofs!LoopInit
  BY DEF Match!LoopInit, MatchProofs!LoopInit
<1>6. /\ \A records, hash : Match!WithHash(records, hash) = MatchProofs!WithHash(records, hash)
      /\ \A S : Match!Min(S) = MatchProofs!Min(S)
      /\ \A S : Match!Max(S) = MatchProofs!Max(S)
  BY DEF Match!WithHash, MatchProofs!WithHash, Match!Min, MatchProofs!Min,
         Match!Max, MatchProofs!Max
<1>7. Match!Next <=> MatchProofs!Next
  <2>1. \A records, hash, before :
          Match!Find(records, hash, before) = MatchProofs!Find(records, hash, before)
    BY <1>6 DEF Match!Find, MatchProofs!Find
  <2>2. \A hash : Match!OfChainBlock(hash) <=> MatchProofs!OfChainBlock(hash)
    BY DEF Match!OfChainBlock, MatchProofs!OfChainBlock
  <2>3. Match!submission = MatchProofs!submission /\ Match!found = MatchProofs!found
    BY DEF Match!submission, MatchProofs!submission, Match!found, MatchProofs!found
  <2>4. Match!Skip <=> MatchProofs!Skip
    BY <2>2, <2>3 DEF Match!Skip, MatchProofs!Skip, Match!found, MatchProofs!found
  <2>5. Match!Match <=> MatchProofs!Match
    BY <1>6, <2>1, <2>2, <2>3 DEF Match!Match, MatchProofs!Match
  <2> QED BY <2>4, <2>5 DEF Match!Next, MatchProofs!Next
<1>8. Match!LoopComputesAttribution <=> MatchProofs!LoopComputesAttribution
  <2>1. \A submissions, hash :
          Match!Considered(submissions, hash) = MatchProofs!Considered(submissions, hash)
    BY DEF Match!Considered, MatchProofs!Considered
  <2>2. \A submissions, hash, records :
          Match!ReferredTo(submissions, hash, records)
            = MatchProofs!ReferredTo(submissions, hash, records)
    BY <1>6, <2>1 DEF Match!ReferredTo, MatchProofs!ReferredTo
  <2>3. \A submissions, referred, records :
          Match!LastFound(submissions, referred, records)
            = MatchProofs!LastFound(submissions, referred, records)
    BY <1>6 DEF Match!LastFound, MatchProofs!LastFound
  <2>4. \A hash, submissions, requests, deliveries :
          Match!BuilderSubmissionForSlot(hash, submissions, requests, deliveries)
            = MatchProofs!BuilderSubmissionForSlot(hash, submissions, requests, deliveries)
    BY <1>6, <2>1, <2>2, <2>3
       DEF Match!BuilderSubmissionForSlot, MatchProofs!BuilderSubmissionForSlot
  <2> QED BY <2>4 DEF Match!LoopComputesAttribution, MatchProofs!LoopComputesAttribution,
                      Match!Done, MatchProofs!Done,
                      Match!ProposerPubkey, MatchProofs!ProposerPubkey
<1> QED BY <1>2, <1>3, <1>4, <1>5, <1>7, <1>8

\* The two loops start as SubmissionMatch does, and each step is one of its steps or
\* leaves what it has found alone.
LEMMA LoopsMatch ==
    /\ LoopsInit => MatchProofs!Init
    /\ [LoopsNext]_<<vars, matchVars>> => [MatchProofs!Next]_(MatchProofs!vars)
PROOF
<1>1. ASSUME LoopsInit PROVE MatchProofs!Init
  <2> DEFINE all == {Requests(headers) : headers \in HeaderLists}
  <2>1. Requests(proposerDeliveredHeaders) \in all
    BY <1>1 DEF LoopsInit, Init
  <2>2. args \in ArgumentsFor(all)
    <3> HIDE DEF all
    <3> QED BY <1>1, <2>1 DEF LoopsInit, ArgumentsFor
  <2>3. MatchProofs!LoopInit
    BY <1>1, SameMatch DEF LoopsInit
  <2> QED BY <2>2, <2>3 DEF MatchProofs!Init
<1>2. matchVars' = matchVars => MatchProofs!vars' = MatchProofs!vars
  BY DEF matchVars, MatchProofs!vars, MatchProofs!found
<1>3. [LoopsNext]_<<vars, matchVars>> => [MatchProofs!Next]_(MatchProofs!vars)
  BY <1>2, SameMatch DEF LoopsNext
<1> QED BY <1>1, <1>3

\* What is found, and what is kept from one submission to the next, is as in
\* SubmissionMatch.
LEMMA MatchInvariant == LoopsSpec => [](MatchProofs!FindsTypeOK /\ MatchProofs!LoopInvariant)
PROOF
<1>1. MatchProofs!ArgumentsAssumption
  BY LoopArgumentsAssumption, SameMatch
<1>2. LoopsInit => MatchProofs!FindsTypeOK /\ MatchProofs!LoopInvariant
  BY <1>1, LoopsMatch, MatchProofs!InitFindsType, MatchProofs!InitLoopInvariant
<1>3. MatchProofs!FindsTypeOK /\ MatchProofs!LoopInvariant /\ [MatchProofs!Next]_(MatchProofs!vars)
        => MatchProofs!FindsTypeOK' /\ MatchProofs!LoopInvariant'
  BY <1>1, MatchProofs!LoopInvariantNext
<1>4. MatchProofs!FindsTypeOK /\ MatchProofs!LoopInvariant /\ [LoopsNext]_<<vars, matchVars>>
        => MatchProofs!FindsTypeOK' /\ MatchProofs!LoopInvariant'
  BY <1>3, LoopsMatch
<1> QED BY <1>2, <1>4, PTL DEF LoopsSpec

\* Every find of the second loop is a record of its list.
THEOREM LoopsFindsTypeOK == LoopsSpec => []FindsTypeOK
PROOF
<1>1. MatchProofs!FindsTypeOK => FindsTypeOK
  BY SameMatch DEF FindsTypeOK
<1> QED BY <1>1, MatchInvariant, PTL

\* After the loop of getHighestValueHeaderForEachSlot, the second loop returns what
\* BuilderSubmissionForSlot says of the same headers.
THEOREM LoopsComputeAttribution == LoopsSpec => []LoopComputesAttribution
PROOF
<1>1. MatchProofs!FindsTypeOK /\ MatchProofs!LoopInvariant => LoopComputesAttribution
  BY SameMatch, MatchProofs!ResultIsOperator DEF LoopComputesAttribution
<1> QED BY <1>1, MatchInvariant, PTL

\* A slot with a block is attributed to a submission of that very block.
THEOREM LoopsAttributeChainBlock == LoopsSpec => []ChainBlockAttribution
PROOF
<1>1. MatchProofs!FindsTypeOK /\ MatchProofs!LoopInvariant => ChainBlockAttribution
  BY SameMatch, MatchProofs!OnlyChainBlock DEF ChainBlockAttribution
<1> QED BY <1>1, MatchInvariant, PTL
===============================================================================
