------------------------------ MODULE RelayLemmas ------------------------------
(***************************************************************************)
(* Facts about Max and Min, which the operators of RelayAnalysis are       *)
(* built from.                                                             *)
(***************************************************************************)
EXTENDS RelayAnalysis, FiniteSetTheorems, WellFoundedInduction, TLAPS

\* A finite set of integers that is not empty has a greatest element, Max of it:
\* getHighestValueHeaderForEachSlot leaves a value that was in the list.
LEMMA MaxOfFiniteSet ==
    ASSUME NEW S, S \subseteq Int, IsFiniteSet(S), S # {}
    PROVE  Max(S) \in S /\ \A y \in S : y <= Max(S)
PROOF
<1> DEFINE HasMax(T) == \E x \in T : \A y \in T : y <= x
           Bad == {T \in FiniteSubsetsOf(S) : T # {} /\ ~HasMax(T)}
<1>1. Bad = {}
  <2>1. SUFFICES ASSUME Bad # {} PROVE FALSE
    OBVIOUS
  <2>2. PICK T \in Bad : \A U \in Bad : ~(<<U, T>> \in StrictSubsetOrdering(S))
    <3> HIDE DEF HasMax
    <3>1. Bad \subseteq FiniteSubsetsOf(S)
      OBVIOUS
    <3> HIDE DEF Bad
    <3> QED BY <2>1, <3>1, WFMin, FS_StrictSubsetOrderingWellFounded
  <2>3. T \subseteq S /\ IsFiniteSet(T) /\ T # {} /\ ~HasMax(T)
    BY DEF FiniteSubsetsOf
  <2>4. PICK x \in T : TRUE
    BY <2>3
  <2>5. x \in Int
    BY <2>3, <2>4
  <2> DEFINE U == T \ {x}
  <2>6. U \in FiniteSubsetsOf(S) /\ <<U, T>> \in StrictSubsetOrdering(S)
    BY <2>3, <2>4, FS_RemoveElement DEF FiniteSubsetsOf, StrictSubsetOrdering
  <2>7. CASE U = {}
    <3>1. T = {x}
      BY <2>4, <2>7
    <3> QED BY <2>3, <2>5, <3>1
  <2>8. CASE U # {}
    <3>1. HasMax(U)
      BY <2>2, <2>6, <2>8
    <3>2. PICK m \in U : \A y \in U : y <= m
      BY <3>1
    <3>3. \A y \in T : y \in Int /\ (y = x \/ y \in U)
      BY <2>3
    <3>4. CASE m <= x
      BY <2>3, <2>4, <2>5, <3>2, <3>3, <3>4
    <3>5. CASE ~(m <= x)
      BY <2>3, <2>4, <2>5, <3>2, <3>3, <3>5
    <3> QED BY <3>4, <3>5
  <2> QED BY <2>7, <2>8
<1>2. HasMax(S)
  BY <1>1 DEF FiniteSubsetsOf
<1>3. PICK x \in S : \A y \in S : x >= y
  BY <1>2
<1>4. Max(S) \in S /\ \A y \in S : Max(S) >= y
  BY <1>3 DEF Max
<1> QED BY <1>4

\* The same for the least element: a find from the start of a list stops at one.
LEMMA MinOfFiniteSet ==
    ASSUME NEW S, S \subseteq Int, IsFiniteSet(S), S # {}
    PROVE  Min(S) \in S /\ \A y \in S : Min(S) <= y
PROOF
<1> DEFINE N == {0 - x : x \in S}
<1>1. N \subseteq Int /\ N # {}
  <2>1. \A x \in S : x \in Int /\ 0 - x \in Int
    OBVIOUS
  <2>2. PICK x \in S : TRUE
    OBVIOUS
  <2>3. 0 - x \in N
    BY <2>2
  <2>4. \A z \in N : z \in Int
    BY <2>1
  <2> HIDE DEF N
  <2> QED BY <2>3, <2>4
<1>2. IsFiniteSet(N)
  <2>1. [x \in S |-> 0 - x] \in Surjection(S, N)
    BY DEF Surjection
  <2> HIDE DEF N
  <2> QED BY <2>1, FS_Surjection
<1>3. Max(N) \in N /\ \A y \in N : y <= Max(N)
  <2> HIDE DEF N
  <2> QED BY <1>1, <1>2, MaxOfFiniteSet
<1>4. PICK x \in S : Max(N) = 0 - x
  BY <1>3
<1>5. \A y \in S : x <= y
  <2> TAKE y \in S
  <2>1. 0 - y \in N
    OBVIOUS
  <2>2. 0 - y <= 0 - x
    BY <1>3, <1>4, <2>1
  <2>3. x \in Int /\ y \in Int
    OBVIOUS
  <2> QED BY <2>2, <2>3
<1> QED BY <1>4, <1>5 DEF Min

\* The values of the records of a list are finitely many.
LEMMA FiniteImage ==
    ASSUME NEW S, IsFiniteSet(S), NEW f
    PROVE  IsFiniteSet({f[x] : x \in S})
PROOF
<1> DEFINE T == {f[x] : x \in S}
<1>1. [x \in S |-> f[x]] \in Surjection(S, T)
  BY DEF Surjection
<1> HIDE DEF T
<1>2. IsFiniteSet(T)
  BY <1>1, FS_Surjection
<1> QED BY <1>2 DEF T

\* A list has finitely many places.
LEMMA PlacesFinite ==
    ASSUME NEW n \in Nat, NEW S \in SUBSET (1 .. n)
    PROVE  IsFiniteSet(S)
PROOF
<1>1. IsFiniteSet(1 .. n)
  BY FS_Interval
<1> QED BY <1>1, FS_Subset

\* A set of places in a list that is not empty has a least and a greatest place.
LEMMA PlacesInList ==
    ASSUME NEW n \in Nat, NEW S \in SUBSET (1 .. n), S # {}
    PROVE  /\ Min(S) \in S /\ \A j \in S : Min(S) <= j
           /\ Max(S) \in S /\ \A j \in S : j <= Max(S)
PROOF
<1>1. S \subseteq Int
  OBVIOUS
<1>2. IsFiniteSet(S)
  BY PlacesFinite
<1> QED BY <1>1, <1>2, MinOfFiniteSet, MaxOfFiniteSet

\* A list of records, none of them Null.
ListOfRecords(list) ==
    \E n \in Nat : DOMAIN list = 1 .. n /\ \A i \in 1 .. n : list[i] # Null

\* A record kept for a slot is one of the list, with the hash of a submission
\* that was considered.
LEMMA LastFoundMatches ==
    ASSUME NEW submissions, NEW n \in Nat, DOMAIN submissions = 1 .. n,
           NEW records, NEW m \in Nat, DOMAIN records = 1 .. m,
           NEW hash, ReferredTo(submissions, hash, records) # {}
    PROVE  \E i \in Considered(submissions, hash) :
               \E j \in WithHash(records, submissions[i].BuilderBidHash) :
                   LastFound(submissions, ReferredTo(submissions, hash, records), records)
                     = records[j]
PROOF
<1> DEFINE referred == ReferredTo(submissions, hash, records)
           i == Max(referred)
           matching == WithHash(records, submissions[i].BuilderBidHash)
<1>1. referred \in SUBSET (1 .. n)
  BY DEF ReferredTo, Considered
<1> HIDE DEF referred
<1>2. i \in referred
  BY <1>1, PlacesInList DEF referred
<1>3. i \in Considered(submissions, hash) /\ matching # {}
  BY <1>2 DEF referred, ReferredTo
<1>4. matching \in SUBSET (1 .. m)
  BY DEF WithHash
<1> HIDE DEF matching
<1>5. Min(matching) \in matching
  BY <1>3, <1>4, PlacesInList
<1>6. LastFound(submissions, referred, records) = records[Min(matching)]
  BY <1>2 DEF LastFound, matching
<1> QED BY <1>3, <1>5, <1>6 DEF referred, matching

\* A bid is attributed to a slot exactly if the header of a submission considered
\* was requested. Then the bid is a submission considered, and the proposer named
\* is that of a request or delivery for a submission considered.
LEMMA Attributed ==
    ASSUME NEW submissions, ListOfRecords(submissions),
           NEW requests, ListOfRecords(requests),
           NEW deliveries, ListOfRecords(deliveries),
           NEW hash
    PROVE  LET att       == BuilderSubmissionForSlot(hash, submissions, requests, deliveries)
               requested == ReferredTo(submissions, hash, requests)
           IN  /\ att.builderBid # Null <=> requested # {}
               /\ requested # {} =>
                    \E i \in Considered(submissions, hash) : att.builderBid = submissions[i]
               /\ requested # {} =>
                    \E i \in Considered(submissions, hash) :
                        \/ \E j \in WithHash(requests, submissions[i].BuilderBidHash) :
                                att.ProposerPubkey = requests[j].ProposerPubkey
                        \/ \E j \in WithHash(deliveries, submissions[i].BuilderBidHash) :
                                att.ProposerPubkey = deliveries[j].ProposerPubkey
PROOF
<1> DEFINE att        == BuilderSubmissionForSlot(hash, submissions, requests, deliveries)
           requested  == ReferredTo(submissions, hash, requests)
           delivered  == ReferredTo(submissions, hash, deliveries)
           considered == Considered(submissions, hash)
           request    == LastFound(submissions, requested, requests)
           delivery   == LastFound(submissions, delivered, deliveries)
<1>1. PICK n \in Nat : DOMAIN submissions = 1 .. n /\ \A i \in 1 .. n : submissions[i] # Null
  BY DEF ListOfRecords
<1>2. PICK m \in Nat : DOMAIN requests = 1 .. m /\ \A i \in 1 .. m : requests[i] # Null
  BY DEF ListOfRecords
<1>3. PICK l \in Nat : DOMAIN deliveries = 1 .. l /\ \A i \in 1 .. l : deliveries[i] # Null
  BY DEF ListOfRecords
<1>4. requested \subseteq considered /\ delivered \subseteq considered /\ considered \in SUBSET (1 .. n)
  BY <1>1 DEF ReferredTo, Considered
<1>5. /\ att.builderBid = IF requested = {} THEN Null
                          ELSE IF delivered = {} THEN submissions[Max(requested)]
                          ELSE submissions[Max(considered)]
      /\ att.ProposerPubkey = IF delivery # Null THEN delivery.ProposerPubkey
                              ELSE IF request # Null THEN request.ProposerPubkey ELSE Null
  BY DEF BuilderSubmissionForSlot
<1>6. requested # {} =>
        \E i \in considered : \E j \in WithHash(requests, submissions[i].BuilderBidHash) :
            request = requests[j]
  BY <1>1, <1>2, LastFoundMatches
<1>7. delivered # {} =>
        \E i \in considered : \E j \in WithHash(deliveries, submissions[i].BuilderBidHash) :
            delivery = deliveries[j]
  BY <1>1, <1>3, LastFoundMatches
<1>8. delivered = {} => delivery = Null
  BY DEF LastFound
<1>9. \A S \in SUBSET (1 .. n) : S # {} => Max(S) \in S
  BY PlacesInList
<1>10. /\ \A hh : WithHash(requests, hh) \subseteq 1 .. m
      /\ \A hh : WithHash(deliveries, hh) \subseteq 1 .. l
  BY <1>2, <1>3 DEF WithHash
<1> HIDE DEF requested, delivered, considered, request, delivery, att
<1>11. CASE requested = {}
  BY <1>5, <1>11 DEF att, requested
<1>12. CASE requested # {}
  <2>1. \E i \in considered : att.builderBid = submissions[i]
    <3>1. Max(requested) \in considered /\ Max(considered) \in considered
      BY <1>4, <1>9, <1>12
    <3> QED BY <1>5, <1>12, <3>1
  <2>2. request # Null
    BY <1>2, <1>6, <1>10, <1>12
  <2>3. delivery # Null => delivered # {}
    BY <1>8
  <2>4. \E i \in considered :
            \/ \E j \in WithHash(requests, submissions[i].BuilderBidHash) :
                    att.ProposerPubkey = requests[j].ProposerPubkey
            \/ \E j \in WithHash(deliveries, submissions[i].BuilderBidHash) :
                    att.ProposerPubkey = deliveries[j].ProposerPubkey
    <3>1. CASE delivery # Null
      BY <1>5, <1>7, <2>3, <3>1
    <3>2. CASE delivery = Null
      BY <1>5, <1>6, <1>12, <2>2, <3>2
    <3> QED BY <3>1, <3>2
  <2>5. att.builderBid # Null
    BY <1>1, <1>4, <2>1
  <2> QED BY <1>12, <2>1, <2>4, <2>5 DEF att, requested, considered
<1> QED BY <1>11, <1>12

\* The highest bid of a slot is a value of one of its headers, and none is higher.
LEMMA HighestOfHeaders ==
    ASSUME NEW headers, NEW m \in Nat, DOMAIN headers = 1 .. m,
           \A j \in 1 .. m : headers[j].BidValue \in Nat,
           NEW slot
    PROVE  LET values == BidValuesOf(headers, slot) IN
               IF values = {} THEN HighestValueHeader(headers, slot) = Null
               ELSE /\ HighestValueHeader(headers, slot) \in values
                    /\ \A value \in values : value <= HighestValueHeader(headers, slot)
                    /\ HighestValueHeader(headers, slot) \in Nat
PROOF
<1> DEFINE places == {j \in 1 .. m : headers[j].Slot = slot}
           valueAt == [j \in places |-> headers[j].BidValue]
           values == BidValuesOf(headers, slot)
<1>1. IsFiniteSet(places)
  <2>1. places \in SUBSET (1 .. m)
    OBVIOUS
  <2> HIDE DEF places
  <2> QED BY <2>1, PlacesFinite
<1>2. values = {valueAt[j] : j \in places}
  BY DEF BidValuesOf
<1>3. \A j \in places : valueAt[j] \in Nat
  OBVIOUS
<1> HIDE DEF places, valueAt, values
<1>4. IsFiniteSet(values)
  BY <1>1, <1>2, FiniteImage
<1>5. values \subseteq Nat
  BY <1>2, <1>3
<1>6. values # {} => Max(values) \in values /\ \A value \in values : value <= Max(values)
  BY <1>4, <1>5, MaxOfFiniteSet
<1> QED BY <1>5, <1>6 DEF HighestValueHeader, values
===============================================================================
