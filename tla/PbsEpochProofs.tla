---------------------------- MODULE PbsEpochProofs ----------------------------
(***************************************************************************)
(* Facts about the world of a scan: what the lists of the relay hold, in   *)
(* whatever order, and what they attribute to a slot.                      *)
(***************************************************************************)
EXTENDS PbsEpoch, RelayLemmas

\* Every history is one that can happen.
LEMMA HistoryFacts ==
    ASSUME WorldInit, NEW s \in Slots
    PROVE  /\ WellFormed(history[s])
           /\ Len(history[s].bids) \in Nat
           /\ DOMAIN history[s].bids = 1 .. Len(history[s].bids)
           /\ \A k \in 1 .. Len(history[s].bids) :
                history[s].bids[k].builder \in Builders /\ history[s].bids[k].value \in Nat
           /\ history[s].requested \in SUBSET (1 .. Len(history[s].bids))
           /\ history[s].signed # 0 => history[s].signed \in history[s].requested
PROOF
<1>1. WellFormed(history[s])
  BY HistoriesAssumption DEF WorldInit
<1> DEFINE bids == history[s].bids
           Bid == [builder : Builders, value : Nat]
<1>2. bids \in Seq(Bid)
  BY <1>1 DEF WellFormed
<1> HIDE DEF Bid
<1>3. Len(bids) \in Nat /\ DOMAIN bids = 1 .. Len(bids) /\ \A k \in 1 .. Len(bids) : bids[k] \in Bid
  BY <1>2
<1>4. \A b \in Bid : b.builder \in Builders /\ b.value \in Nat
  BY DEF Bid
<1>5. /\ history[s].requested \subseteq DOMAIN bids
      /\ history[s].signed # 0 => history[s].signed \in history[s].requested
  BY <1>1 DEF WellFormed
<1> QED BY <1>1, <1>3, <1>4, <1>5

\* A list that holds each element of a finite set once, in some order, has an
\* element at each of its places and each element at some place.
LEMMA ListOfSet ==
    ASSUME NEW S, IsFiniteSet(S), NEW list \in SetToSeqs(S)
    PROVE  /\ Cardinality(S) \in Nat
           /\ DOMAIN list = 1 .. Cardinality(S)
           /\ \A j \in 1 .. Cardinality(S) : list[j] \in S
           /\ \A x \in S : \E j \in 1 .. Cardinality(S) : list[j] = x
PROOF
<1> DEFINE n == Cardinality(S)
           D == 1 .. n
<1>1. n \in Nat
  BY FS_CardinalityType
<1>2. list \in [D -> S] /\ \A i, j \in D : i # j => list[i] # list[j]
  BY DEF SetToSeqs
<1>3. list \in Injection(D, S)
  BY <1>2 DEF Injection, IsInjective
<1>4. IsFiniteSet(D) /\ Cardinality(D) = n
  <2>1. 1 \in Int /\ n \in Int
    BY <1>1
  <2> HIDE DEF n
  <2>2. IsFiniteSet(1 .. n) /\ Cardinality(1 .. n) = IF 1 > n THEN 0 ELSE n - 1 + 1
    BY <2>1, FS_Interval
  <2> QED BY <1>1, <2>2
<1>5. list \in Surjection(D, S)
  <2> HIDE DEF D
  <2> QED BY <1>3, <1>4, FS_Injection
<1> QED BY <1>1, <1>2, <1>5 DEF Surjection

\* A record of the relay is of the slot, and names the hash and the proposer.
LEMMA RelayRecordFacts ==
    ASSUME WorldInit, NEW s \in Slots, NEW k \in 1 .. Len(history[s].bids)
    PROVE  /\ RelayRecord(s, k) \in Record
           /\ RelayRecord(s, k) # Null
           /\ RelayRecord(s, k).Slot = s
           /\ RelayRecord(s, k).BlockHash = <<s, k>>
           /\ RelayRecord(s, k).BidValue = history[s].bids[k].value
           /\ RelayRecord(s, k).ProposerPubkey = duty[s]
PROOF
<1>1. duty[s] \in Proposers
  BY DEF WorldInit
<1>2. history[s].bids[k].value \in Nat /\ k \in Nat
  BY HistoryFacts
<1>3. RelayRecord(s, k) \in Record
  BY <1>1, <1>2 DEF RelayRecord, Record
<1>4. RelayRecord(s, k) # Null
  BY <1>3, NullIsNoRecord
<1> QED BY <1>3, <1>4 DEF RelayRecord

\* The submissions for a slot are of the slot and numbered by their hashes.
LEMMA SubmissionFacts ==
    ASSUME WorldInit, NEW s \in Slots
    PROVE  /\ DOMAIN BuilderSubmissions(s) = 1 .. Len(history[s].bids)
           /\ \A k \in 1 .. Len(history[s].bids) :
                /\ BuilderSubmissions(s)[k] \in Submission
                /\ BuilderSubmissions(s)[k] # Null
                /\ BuilderSubmissions(s)[k].BuilderBidHash = <<s, k>>
                /\ BuilderSubmissions(s)[k].BidValue = history[s].bids[k].value
PROOF
<1>1. DOMAIN history[s].bids = 1 .. Len(history[s].bids)
  BY HistoryFacts
<1>2. DOMAIN BuilderSubmissions(s) = 1 .. Len(history[s].bids)
  BY <1>1 DEF BuilderSubmissions
<1>3. ASSUME NEW k \in 1 .. Len(history[s].bids)
      PROVE  /\ BuilderSubmissions(s)[k] \in Submission
             /\ BuilderSubmissions(s)[k] # Null
             /\ BuilderSubmissions(s)[k].BuilderBidHash = <<s, k>>
             /\ BuilderSubmissions(s)[k].BidValue = history[s].bids[k].value
  <2>1. /\ history[s].bids[k].builder \in Builders /\ history[s].bids[k].value \in Nat
        /\ k \in Nat
    BY HistoryFacts
  <2>2. BuilderSubmissions(s)[k] =
            [Slot |-> s, BuilderPubkey |-> history[s].bids[k].builder,
             BuilderBidHash |-> <<s, k>>, BidValue |-> history[s].bids[k].value]
    BY <1>1 DEF BuilderSubmissions
  <2>3. BuilderSubmissions(s)[k] \in Submission
    BY <2>1, <2>2 DEF Submission
  <2> QED BY <2>2, <2>3, NullIsNoRecord
<1> QED BY <1>2, <1>3

\* An epoch has finitely many slots, all of them natural numbers.
LEMMA SlotsFacts == IsFiniteSet(Slots) /\ Slots \subseteq Nat
PROOF
<1>1. FirstSlot \in Nat /\ epochToSlot(Epoch, SLOTS_IN_EPOCH) \in Nat
  <2>1. Epoch * SLOTS_IN_EPOCH \in Nat
    BY EpochAssumption
  <2> QED BY <2>1, EpochAssumption DEF FirstSlot, epochToSlot
<1>2. Slots \in SUBSET (0 .. epochToSlot(Epoch, SLOTS_IN_EPOCH))
  BY <1>1 DEF Slots
<1>3. IsFiniteSet(0 .. epochToSlot(Epoch, SLOTS_IN_EPOCH))
  BY <1>1, FS_Interval
<1>4. IsFiniteSet(Slots)
  BY <1>2, <1>3, FS_Subset
<1>5. Slots \subseteq Nat
  BY <1>1 DEF Slots
<1> QED BY <1>4, <1>5

\* The relay's two lists of an epoch are finite.
LEMMA RecordsFinite ==
    ASSUME WorldInit
    PROVE  IsFiniteSet(RequestedHeaders) /\ IsFiniteSet(SignedPayloads)
PROOF
<1> DEFINE ofSlot == [s \in Slots |-> {RelayRecord(s, k) : k \in history[s].requested}]
           signers == {t \in Slots : history[t].signed # 0}
           signedIn == [s \in Slots |-> RelayRecord(s, history[s].signed)]
<1>1. ASSUME NEW s \in Slots PROVE IsFiniteSet(ofSlot[s])
  <2> DEFINE r == [k \in history[s].requested |-> RelayRecord(s, k)]
  <2>1. history[s].requested \in SUBSET (1 .. Len(history[s].bids)) /\ Len(history[s].bids) \in Nat
    BY HistoryFacts
  <2>2. IsFiniteSet(history[s].requested)
    BY <2>1, PlacesFinite
  <2>3. ofSlot[s] = {r[k] : k \in history[s].requested}
    OBVIOUS
  <2> HIDE DEF r, ofSlot
  <2> QED BY <2>2, <2>3, FiniteImage
<1>2. IsFiniteSet({ofSlot[s] : s \in Slots})
  <2> HIDE DEF ofSlot
  <2> QED BY SlotsFacts, FiniteImage
<1>3. RequestedHeaders = UNION {ofSlot[s] : s \in Slots}
  BY DEF RequestedHeaders
<1>4. \A T \in {ofSlot[s] : s \in Slots} : IsFiniteSet(T)
  BY <1>1
<1>5. IsFiniteSet(RequestedHeaders)
  <2> HIDE DEF ofSlot
  <2> QED BY <1>2, <1>3, <1>4, FS_UNION
<1>6. IsFiniteSet(signers)
  BY SlotsFacts, FS_Subset
<1>7. SignedPayloads = {signedIn[s] : s \in signers}
  BY DEF SignedPayloads
<1>8. IsFiniteSet(SignedPayloads)
  <2> HIDE DEF signedIn, signers
  <2> QED BY <1>6, <1>7, FiniteImage
<1> QED BY <1>5, <1>8

\* A list, of an epoch or of a slot, that holds the headers handed out for slot s.
HoldsHeadersOf(list, s) ==
    \E m \in Nat :
        /\ DOMAIN list = 1 .. m
        /\ \A j \in 1 .. m : \E t \in Slots : \E k \in history[t].requested :
            list[j] = RelayRecord(t, k)
        /\ \A k \in history[s].requested : \E j \in 1 .. m : list[j] = RelayRecord(s, k)

\* A list of payloads delivered, of an epoch or of a slot.
HoldsDeliveries(list) ==
    \E m \in Nat :
        /\ DOMAIN list = 1 .. m
        /\ \A j \in 1 .. m : \E t \in Slots :
            history[t].signed # 0 /\ list[j] = RelayRecord(t, history[t].signed)

\* The list of header requests of the epoch, in any order, holds the header of every
\* bid requested, and nothing else.
LEMMA HeaderListFacts ==
    ASSUME WorldInit, NEW s \in Slots
    PROVE  HoldsHeadersOf(headerRequests, s)
PROOF
<1>1. headerRequests \in SetToSeqs(RequestedHeaders) /\ IsFiniteSet(RequestedHeaders)
  BY RecordsFinite DEF WorldInit
<1> DEFINE m == Cardinality(RequestedHeaders)
<1>2. /\ m \in Nat
      /\ DOMAIN headerRequests = 1 .. m
      /\ \A j \in 1 .. m : headerRequests[j] \in RequestedHeaders
      /\ \A x \in RequestedHeaders : \E j \in 1 .. m : headerRequests[j] = x
  BY <1>1, ListOfSet
<1>3. \A x \in RequestedHeaders : \E t \in Slots : \E k \in history[t].requested :
            x = RelayRecord(t, k)
  BY DEF RequestedHeaders
<1>4. \A k \in history[s].requested : RelayRecord(s, k) \in RequestedHeaders
  BY DEF RequestedHeaders
<1> HIDE DEF m
<1> QED BY <1>2, <1>3, <1>4 DEF HoldsHeadersOf

\* The list of deliveries of the epoch holds payloads of headers signed.
LEMMA DeliveryListFacts ==
    ASSUME WorldInit
    PROVE  /\ HoldsDeliveries(payloadDeliveries)
           /\ Len(payloadDeliveries) \in Nat
PROOF
<1>1. payloadDeliveries \in SetToSeqs(SignedPayloads) /\ IsFiniteSet(SignedPayloads)
  BY RecordsFinite DEF WorldInit
<1> DEFINE m == Cardinality(SignedPayloads)
<1>2. /\ m \in Nat
      /\ DOMAIN payloadDeliveries = 1 .. m
      /\ \A j \in 1 .. m : payloadDeliveries[j] \in SignedPayloads
  BY <1>1, ListOfSet
<1>3. \A x \in SignedPayloads : \E s \in Slots :
            history[s].signed # 0 /\ x = RelayRecord(s, history[s].signed)
  BY DEF SignedPayloads
<1>4. Len(payloadDeliveries) = m
  <2>1. payloadDeliveries \in [1 .. m -> SignedPayloads]
    BY <1>1 DEF SetToSeqs
  <2> HIDE DEF m
  <2> QED BY <1>2, <2>1
<1> HIDE DEF m
<1> QED BY <1>2, <1>3, <1>4 DEF HoldsDeliveries

\* Of the submissions for a slot, the list of requests refers to those whose header
\* was handed out, and the list of deliveries to the one signed.
LEMMA HeadersReferredTo ==
    ASSUME WorldInit, NEW s \in Slots, NEW hash, NEW requests, HoldsHeadersOf(requests, s)
    PROVE  ReferredTo(BuilderSubmissions(s), hash, requests)
             = history[s].requested \intersect Considered(BuilderSubmissions(s), hash)
PROOF
<1> DEFINE sub == BuilderSubmissions(s)
           n == Len(history[s].bids)
           requested == ReferredTo(sub, hash, requests)
<1>1. /\ DOMAIN sub = 1 .. n
      /\ \A k \in 1 .. n : sub[k].BuilderBidHash = <<s, k>>
      /\ \A t \in Slots : history[t].requested \in SUBSET (1 .. Len(history[t].bids))
      /\ \A t \in Slots : \A k \in 1 .. Len(history[t].bids) : RelayRecord(t, k).BlockHash = <<t, k>>
  BY SubmissionFacts, HistoryFacts, RelayRecordFacts
<1>2. PICK m \in Nat :
        /\ DOMAIN requests = 1 .. m
        /\ \A j \in 1 .. m : \E t \in Slots : \E k \in history[t].requested :
            requests[j] = RelayRecord(t, k)
        /\ \A k \in history[s].requested : \E j \in 1 .. m : requests[j] = RelayRecord(s, k)
  BY DEF HoldsHeadersOf
<1>3. Considered(sub, hash) \subseteq 1 .. n
  BY <1>1 DEF Considered
<1> HIDE DEF n, sub
<1>4. ASSUME NEW i \in history[s].requested \intersect Considered(sub, hash)
      PROVE  i \in requested
  <2>1. i \in 1 .. n /\ sub[i].BuilderBidHash = <<s, i>>
    BY <1>1, <1>3
  <2>2. PICK j \in 1 .. m : requests[j] = RelayRecord(s, i)
    BY <1>2
  <2>3. requests[j].BlockHash = <<s, i>>
    BY <1>1, <2>1, <2>2
  <2>4. j \in WithHash(requests, sub[i].BuilderBidHash)
    BY <1>2, <2>1, <2>3 DEF WithHash
  <2> QED BY <2>4 DEF ReferredTo
<1>5. ASSUME NEW i \in requested
      PROVE  i \in history[s].requested \intersect Considered(sub, hash)
  <2>1. i \in Considered(sub, hash) /\ WithHash(requests, sub[i].BuilderBidHash) # {}
    BY DEF ReferredTo
  <2>2. i \in 1 .. n /\ sub[i].BuilderBidHash = <<s, i>>
    BY <1>1, <1>3, <2>1
  <2>3. PICK j \in 1 .. m : requests[j].BlockHash = <<s, i>>
    BY <1>2, <2>1, <2>2 DEF WithHash
  <2>4. PICK t \in Slots : \E k \in history[t].requested : requests[j] = RelayRecord(t, k)
    BY <1>2
  <2>5. PICK k \in history[t].requested : requests[j] = RelayRecord(t, k)
    BY <2>4
  <2>6. <<t, k>> = <<s, i>>
    BY <1>1, <2>3, <2>5
  <2> QED BY <2>1, <2>5, <2>6
<1> HIDE DEF requested
<1>6. requested = history[s].requested \intersect Considered(sub, hash)
  BY <1>4, <1>5
<1> QED BY <1>6 DEF requested, sub

\* The same of the deliveries: a submission is delivered only if it is the one signed.
LEMMA DeliveryReferredTo ==
    ASSUME WorldInit, NEW s \in Slots, NEW hash, NEW deliveries, HoldsDeliveries(deliveries),
           NEW i \in ReferredTo(BuilderSubmissions(s), hash, deliveries)
    PROVE  i = history[s].signed /\ history[s].signed # 0
PROOF
<1>1. i \in 1 .. Len(history[s].bids) /\ BuilderSubmissions(s)[i].BuilderBidHash = <<s, i>>
  BY SubmissionFacts DEF ReferredTo, Considered
<1>2. PICK m \in Nat :
        /\ DOMAIN deliveries = 1 .. m
        /\ \A j \in 1 .. m : \E t \in Slots :
            history[t].signed # 0 /\ deliveries[j] = RelayRecord(t, history[t].signed)
  BY DEF HoldsDeliveries
<1>3. PICK j \in 1 .. m : deliveries[j].BlockHash = <<s, i>>
  BY <1>1, <1>2 DEF ReferredTo, WithHash
<1>4. PICK t \in Slots : history[t].signed # 0 /\ deliveries[j] = RelayRecord(t, history[t].signed)
  BY <1>2
<1>5. history[t].signed \in 1 .. Len(history[t].bids)
  BY <1>4, HistoryFacts
<1>6. <<t, history[t].signed>> = <<s, i>>
  BY <1>3, <1>4, <1>5, RelayRecordFacts
<1> QED BY <1>4, <1>6

\* What the code attributes to a slot is of that slot: the bid is a submission
\* for it, considered for the block, and the proposer the one with the duty. A
\* bid is attributed exactly if the header of a submission considered was
\* handed out. The lists may be those of the epoch or those of the slot.
LEMMA AttributionOf ==
    ASSUME WorldInit, NEW s \in Slots, NEW hash,
           NEW requests, HoldsHeadersOf(requests, s),
           NEW deliveries, HoldsDeliveries(deliveries)
    PROVE  LET att == BuilderSubmissionForSlot(hash, BuilderSubmissions(s), requests, deliveries)
           IN  /\ att.builderBid # Null =>
                    /\ att.builderBid \in Submission
                    /\ att.ProposerPubkey = duty[s]
                    /\ \E i \in Considered(BuilderSubmissions(s), hash) :
                            att.builderBid = BuilderSubmissions(s)[i]
               /\ att.builderBid # Null <=>
                    history[s].requested \intersect Considered(BuilderSubmissions(s), hash) # {}
PROOF
<1> DEFINE sub == BuilderSubmissions(s)
           n == Len(history[s].bids)
           att == BuilderSubmissionForSlot(hash, sub, requests, deliveries)
           requested == ReferredTo(sub, hash, requests)
<1>1. n \in Nat /\ DOMAIN sub = 1 .. n
  BY HistoryFacts, SubmissionFacts
<1>2. \A k \in 1 .. n : sub[k] \in Submission /\ sub[k] # Null /\ sub[k].BuilderBidHash = <<s, k>>
  BY SubmissionFacts
<1>3. PICK m \in Nat :
        /\ DOMAIN requests = 1 .. m
        /\ \A j \in 1 .. m : \E t \in Slots : \E k \in history[t].requested :
            requests[j] = RelayRecord(t, k)
        /\ \A k \in history[s].requested : \E j \in 1 .. m : requests[j] = RelayRecord(s, k)
  BY DEF HoldsHeadersOf
<1>4. PICK l \in Nat :
        /\ DOMAIN deliveries = 1 .. l
        /\ \A j \in 1 .. l : \E t \in Slots : \E k \in 1 .. Len(history[t].bids) :
            deliveries[j] = RelayRecord(t, k)
  <2>1. \A t \in Slots : history[t].signed # 0 => history[t].signed \in 1 .. Len(history[t].bids)
    BY HistoryFacts
  <2> QED BY <2>1 DEF HoldsDeliveries
<1>5. \A t \in Slots : \A k \in 1 .. Len(history[t].bids) :
        /\ RelayRecord(t, k) # Null
        /\ RelayRecord(t, k).BlockHash = <<t, k>>
        /\ RelayRecord(t, k).ProposerPubkey = duty[t]
  BY RelayRecordFacts
<1>6. /\ Considered(sub, hash) \subseteq 1 .. n
      /\ \A t \in Slots : history[t].requested \in SUBSET (1 .. Len(history[t].bids))
  BY <1>1, HistoryFacts DEF Considered
<1> HIDE DEF n, sub
<1>7. /\ \A j \in 1 .. m : requests[j] # Null
      /\ \A j \in 1 .. l : deliveries[j] # Null
  <2>1. ASSUME NEW j \in 1 .. m PROVE requests[j] # Null
    <3>1. PICK t \in Slots : \E k \in history[t].requested : requests[j] = RelayRecord(t, k)
      BY <1>3
    <3>2. \A k \in history[t].requested : k \in 1 .. Len(history[t].bids)
      BY <1>6
    <3> QED BY <1>5, <3>1, <3>2
  <2>2. ASSUME NEW j \in 1 .. l PROVE deliveries[j] # Null
    BY <1>4, <1>5
  <2> QED BY <2>1, <2>2
<1>8. /\ att.builderBid # Null <=> requested # {}
      /\ requested # {} => \E i \in Considered(sub, hash) : att.builderBid = sub[i]
      /\ requested # {} =>
            \E i \in Considered(sub, hash) :
                \/ \E j \in WithHash(requests, sub[i].BuilderBidHash) :
                        att.ProposerPubkey = requests[j].ProposerPubkey
                \/ \E j \in WithHash(deliveries, sub[i].BuilderBidHash) :
                        att.ProposerPubkey = deliveries[j].ProposerPubkey
  <2>1. DOMAIN requests = 1 .. m /\ DOMAIN deliveries = 1 .. l
    BY <1>3, <1>4
  <2>2. \A i \in 1 .. n : sub[i] # Null
    BY <1>2
  <2>3. /\ ListOfRecords(sub)
        /\ ListOfRecords(requests)
        /\ ListOfRecords(deliveries)
    BY <1>1, <1>7, <2>1, <2>2 DEF ListOfRecords
  <2> QED BY <2>3, Attributed
<1>9. \A i \in 1 .. n : \A j \in WithHash(requests, sub[i].BuilderBidHash) :
        requests[j].ProposerPubkey = duty[s]
  <2> SUFFICES ASSUME NEW i \in 1 .. n, NEW j \in WithHash(requests, sub[i].BuilderBidHash)
               PROVE  requests[j].ProposerPubkey = duty[s]
    OBVIOUS
  <2>1. j \in 1 .. m /\ requests[j].BlockHash = <<s, i>>
    BY <1>2, <1>3 DEF WithHash
  <2>2. PICK t \in Slots : \E k \in history[t].requested : requests[j] = RelayRecord(t, k)
    BY <1>3, <2>1
  <2>3. requests[j].ProposerPubkey = duty[t] /\ t = s
    BY <1>5, <1>6, <2>1, <2>2
  <2> QED BY <2>3
<1>10. \A i \in 1 .. n : \A j \in WithHash(deliveries, sub[i].BuilderBidHash) :
        deliveries[j].ProposerPubkey = duty[s]
  <2> SUFFICES ASSUME NEW i \in 1 .. n, NEW j \in WithHash(deliveries, sub[i].BuilderBidHash)
               PROVE  deliveries[j].ProposerPubkey = duty[s]
    OBVIOUS
  <2>1. j \in 1 .. l /\ deliveries[j].BlockHash = <<s, i>>
    BY <1>2, <1>4 DEF WithHash
  <2>2. PICK t \in Slots : \E k \in 1 .. Len(history[t].bids) : deliveries[j] = RelayRecord(t, k)
    BY <1>4, <2>1
  <2>3. deliveries[j].ProposerPubkey = duty[t] /\ t = s
    BY <1>5, <2>1, <2>2
  <2> QED BY <2>3
<1>11. requested # {} => att.builderBid \in Submission /\ att.ProposerPubkey = duty[s]
  <2> HIDE DEF att, requested
  <2> QED BY <1>2, <1>6, <1>8, <1>9, <1>10
<1>12. requested # {} <=> history[s].requested \intersect Considered(sub, hash) # {}
  BY HeadersReferredTo DEF sub
<1> HIDE DEF att, requested
<1>13. QED BY <1>8, <1>11, <1>12 DEF att, sub

\* The same of the lists of the epoch.
LEMMA AttributionFacts ==
    ASSUME WorldInit, NEW s \in Slots, NEW hash
    PROVE  LET att == BuilderSubmissionForSlot(hash, BuilderSubmissions(s),
                                               headerRequests, payloadDeliveries)
           IN  /\ att.builderBid # Null =>
                    /\ att.builderBid \in Submission
                    /\ att.ProposerPubkey = duty[s]
                    /\ \E i \in Considered(BuilderSubmissions(s), hash) :
                            att.builderBid = BuilderSubmissions(s)[i]
               /\ att.builderBid # Null <=>
                    history[s].requested \intersect Considered(BuilderSubmissions(s), hash) # {}
PROOF
<1>1. HoldsHeadersOf(headerRequests, s) /\ HoldsDeliveries(payloadDeliveries)
  BY HeaderListFacts, DeliveryListFacts
<1> QED BY <1>1, AttributionOf

\* The bids of the headers of a slot are the values of the bids requested in it.
LEMMA BidValuesFacts ==
    ASSUME WorldInit, NEW s \in Slots, NEW requests, HoldsHeadersOf(requests, s)
    PROVE  /\ BidValuesOf(requests, s) \subseteq Nat
           /\ BidValuesOf(requests, s)
                = {history[s].bids[k].value : k \in history[s].requested}
PROOF
<1> DEFINE values == BidValuesOf(requests, s)
           asked == {history[s].bids[k].value : k \in history[s].requested}
<1>1. PICK m \in Nat :
        /\ DOMAIN requests = 1 .. m
        /\ \A j \in 1 .. m : \E t \in Slots : \E k \in history[t].requested :
            requests[j] = RelayRecord(t, k)
        /\ \A k \in history[s].requested : \E j \in 1 .. m : requests[j] = RelayRecord(s, k)
  BY DEF HoldsHeadersOf
<1>2. \A t \in Slots : history[t].requested \in SUBSET (1 .. Len(history[t].bids))
  BY HistoryFacts
<1>3. \A t \in Slots : \A k \in 1 .. Len(history[t].bids) :
        /\ RelayRecord(t, k).Slot = t
        /\ RelayRecord(t, k).BidValue = history[t].bids[k].value
        /\ history[t].bids[k].value \in Nat
  BY RelayRecordFacts, HistoryFacts
<1>4. ASSUME NEW v \in values PROVE v \in asked /\ v \in Nat
  <2>1. PICK j \in 1 .. m : requests[j].Slot = s /\ v = requests[j].BidValue
    BY <1>1 DEF BidValuesOf
  <2>2. PICK t \in Slots : \E k \in history[t].requested : requests[j] = RelayRecord(t, k)
    BY <1>1
  <2>3. PICK k \in history[t].requested : requests[j] = RelayRecord(t, k)
    BY <2>2
  <2>4. k \in 1 .. Len(history[t].bids)
    BY <1>2
  <2>5. t = s /\ v = history[s].bids[k].value /\ v \in Nat
    BY <1>3, <2>1, <2>3, <2>4
  <2> QED BY <2>3, <2>5
<1>5. ASSUME NEW k \in history[s].requested PROVE history[s].bids[k].value \in values
  <2>1. PICK j \in 1 .. m : requests[j] = RelayRecord(s, k)
    BY <1>1
  <2>2. k \in 1 .. Len(history[s].bids)
    BY <1>2
  <2>3. requests[j].Slot = s /\ requests[j].BidValue = history[s].bids[k].value
    BY <1>3, <2>1, <2>2
  <2> QED BY <1>1, <2>3 DEF BidValuesOf
<1> HIDE DEF values
<1>6. values \subseteq Nat /\ values \subseteq asked
  BY <1>4
<1>7. asked \subseteq values
  BY <1>5
<1> QED BY <1>6, <1>7 DEF values

\* The highest value of a slot is the highest of the bids whose headers were
\* handed out for it, and there is none exactly if no header was.
LEMMA HighestOf ==
    ASSUME WorldInit, NEW s \in Slots, NEW requests, HoldsHeadersOf(requests, s)
    PROVE  LET highest == HighestValueHeader(requests, s) IN
           /\ highest = Null <=> history[s].requested = {}
           /\ highest # Null =>
                /\ highest \in Nat
                /\ highest = Max({history[s].bids[k].value : k \in history[s].requested})
                /\ \A k \in history[s].requested : history[s].bids[k].value <= highest
PROOF
<1> DEFINE values == BidValuesOf(requests, s)
<1>1. PICK m \in Nat :
        /\ DOMAIN requests = 1 .. m
        /\ \A j \in 1 .. m : \E t \in Slots : \E k \in history[t].requested :
            requests[j] = RelayRecord(t, k)
  BY DEF HoldsHeadersOf
<1>2. \A t \in Slots : \A k \in history[t].requested : RelayRecord(t, k).BidValue \in Nat
  <2> TAKE t \in Slots
  <2> TAKE k \in history[t].requested
  <2>1. k \in 1 .. Len(history[t].bids)
    BY HistoryFacts
  <2> QED BY <2>1, RelayRecordFacts, HistoryFacts
<1>3. \A j \in 1 .. m : requests[j].BidValue \in Nat
  BY <1>1, <1>2
<1>4. IF values = {} THEN HighestValueHeader(requests, s) = Null
      ELSE /\ HighestValueHeader(requests, s) \in Nat
           /\ \A value \in values : value <= HighestValueHeader(requests, s)
  BY <1>1, <1>3, HighestOfHeaders
<1>5. values = {history[s].bids[k].value : k \in history[s].requested}
  BY BidValuesFacts
<1>6. values = {} <=> history[s].requested = {}
  BY <1>5
<1>7. values # {} => HighestValueHeader(requests, s) = Max(values)
  BY DEF HighestValueHeader
<1> HIDE DEF values
<1> QED BY <1>4, <1>5, <1>6, <1>7, NullIsNoValue

\* The same of the list of the epoch.
LEMMA HighestFacts ==
    ASSUME WorldInit, NEW s \in Slots
    PROVE  LET highest == HighestValueHeader(headerRequests, s) IN
           /\ highest = Null <=> history[s].requested = {}
           /\ highest # Null =>
                /\ highest \in Nat
                /\ highest = Max({history[s].bids[k].value : k \in history[s].requested})
                /\ \A k \in history[s].requested : history[s].bids[k].value <= highest
PROOF
<1> QED BY HeaderListFacts, HighestOf

\* Only the submission of the block on chain is considered for a slot with a
\* block: the bid attributed to a slot that has one is the bid signed.
LEMMA ChainBidFacts ==
    ASSUME WorldInit, NEW s \in Slots, history[s].block # "missed"
    PROVE  LET bid == BuilderSubmissionForSlot(BlockHash(s), BuilderSubmissions(s),
                                               headerRequests, payloadDeliveries).builderBid
           IN  /\ bid # Null <=> history[s].block = "pon"
               /\ bid # Null => bid.BuilderBidHash = BlockHash(s)
PROOF
<1> DEFINE sub == BuilderSubmissions(s)
           considered == Considered(sub, BlockHash(s))
           bid == BuilderSubmissionForSlot(BlockHash(s), sub, headerRequests,
                                           payloadDeliveries).builderBid
<1>1. /\ history[s].block \in {"pon", "local"}
      /\ history[s].block = "pon" => history[s].signed # 0
      /\ history[s].signed # 0 => history[s].signed \in history[s].requested
      /\ history[s].requested \in SUBSET (1 .. Len(history[s].bids))
      /\ Len(history[s].bids) \in Nat
  BY HistoryFacts DEF WellFormed
<1>2. /\ DOMAIN sub = 1 .. Len(history[s].bids)
      /\ \A k \in 1 .. Len(history[s].bids) : sub[k].BuilderBidHash = <<s, k>>
  BY SubmissionFacts
<1>3. BlockHash(s) = IF history[s].block = "pon" THEN <<s, history[s].signed>> ELSE <<s, 0>>
  BY <1>1 DEF BlockHash
<1>4. BlockHash(s) # Null
  <2>1. <<s, 0>> \in Slots \X Nat
    OBVIOUS
  <2>2. history[s].block = "pon" => <<s, history[s].signed>> \in Slots \X Nat
    BY <1>1
  <2> QED BY <1>3, <2>1, <2>2, NullIsNoRecord
<1> HIDE DEF sub
<1>5. considered = {k \in 1 .. Len(history[s].bids) : <<s, k>> = BlockHash(s)}
  BY <1>2, <1>4 DEF Considered
<1>6. history[s].block = "pon" => history[s].signed \in history[s].requested \intersect considered
  BY <1>1, <1>3, <1>5
<1>7. history[s].block = "local" => considered = {}
  BY <1>1, <1>3, <1>5
<1>8. \A i \in considered : sub[i].BuilderBidHash = BlockHash(s)
  BY <1>2, <1>5
<1>9. /\ bid # Null <=> history[s].requested \intersect considered # {}
      /\ bid # Null => \E i \in considered : bid = sub[i]
  BY AttributionFacts DEF sub
<1> HIDE DEF considered, bid
<1>10. bid # Null <=> history[s].block = "pon"
  BY <1>1, <1>6, <1>7, <1>9
<1>11. bid # Null => bid.BuilderBidHash = BlockHash(s)
  BY <1>8, <1>9
<1> QED BY <1>10, <1>11 DEF bid, sub

\* All the submissions are considered for a missed slot: a bid is attributed to it
\* exactly if a header was handed out.
LEMMA MissedBidFacts ==
    ASSUME WorldInit, NEW s \in Slots
    PROVE  BuilderSubmissionForSlot(Null, BuilderSubmissions(s), headerRequests,
                                    payloadDeliveries).builderBid # Null
             <=> history[s].requested # {}
PROOF
<1>1. history[s].requested \in SUBSET (1 .. Len(history[s].bids))
  BY HistoryFacts
<1>2. Considered(BuilderSubmissions(s), Null) = 1 .. Len(history[s].bids)
  BY SubmissionFacts DEF Considered
<1>3. history[s].requested \intersect Considered(BuilderSubmissions(s), Null) # {}
        <=> history[s].requested # {}
  BY <1>1, <1>2
<1> QED BY <1>3, AttributionFacts
===============================================================================
